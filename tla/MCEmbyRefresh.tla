--------------------------- MODULE MCEmbyRefresh ---------------------------
(* EmbyRefresh with every item in one library.  *)
EXTENDS EmbyRefresh

MCLibOf == [i \in Item |-> CHOOSE l \in Lib : TRUE]
=============================================================================
