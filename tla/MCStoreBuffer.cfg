SPECIFICATION FairSpec
CONSTANTS
  STORE_BUFFER_SIZE = 3
  Addr <- MCAddr
  Data <- MCData
INVARIANTS
  WindowInv
  PendingInv
  BypassYoungest
PROPERTIES
  ImplementsStoreQueue
  DecidedLeaves
