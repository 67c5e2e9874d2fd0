------------------------------ MODULE MCDCache ------------------------------
(* The data cache for TLC: two tags, so that two lines compete for a set.  *)
EXTENDS DCache

MCTags  == {2, 3}
MCData  == {0, 1}
OneWord == {0}
=============================================================================
