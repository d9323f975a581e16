----------------------------- MODULE MCSessions -----------------------------
(***************************************************************************)
(* Sessions on small instances.                                            *)
(***************************************************************************)
EXTENDS SessionsProps, TLC

Symmetry == Permutations(Handler) \cup Permutations(Sid) \cup Permutations(CallId)
            \cup Permutations(Answer)
=============================================================================
