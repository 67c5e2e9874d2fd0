--------------------------- MODULE MCStoreBuffer ---------------------------
(* The store buffer for TLC: two addresses and two values, so that stores  *)
(* with and without the address of a load mix and their order shows.       *)
EXTENDS StoreBuffer

MCAddr == {0, 1}
MCData == {0, 1}
=============================================================================
