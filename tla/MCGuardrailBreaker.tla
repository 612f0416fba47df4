------------------------- MODULE MCGuardrailBreaker -------------------------
(* GuardrailBreaker on small sets: the runners, the tasks and the callers are *)
(* each interchangeable.                                                      *)
EXTENDS GuardrailBreaker, TLC

BreakerSymmetry == Permutations(Runner) \cup Permutations(Task) \cup Permutations(Caller)
=============================================================================
