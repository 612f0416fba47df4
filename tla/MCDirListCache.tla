--------------------------- MODULE MCDirListCache ---------------------------
(* DirListCache on small sets.  Callers are interchangeable, and so are items;*)
(* one directory is the root.                                                 *)
EXTENDS DirListCache, TLC

CacheSymmetry == Permutations(Caller) \cup Permutations(Item)

\* Bound: once a mutation has overlapped something and the last one is made,
\* nothing is listed any more.
OneOverlap == apart \/ made < MaxMutations \/ \A c \in Caller : pc[c] \notin ListPc
=============================================================================
