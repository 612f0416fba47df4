--------------------------- MODULE MCAuthRefresh ---------------------------
(* AuthRefresh for TLC: callers are interchangeable. *)
EXTENDS AuthRefresh, TLC

CallerSymmetry == Permutations(Caller)

\* Bound: behaviours are followed as far as TokenKept or TasksFollow claims
\* something of them; the other properties are proved.
Claimed == apart /\ ~(spoilt /\ switched)
=============================================================================
