----------------------------- MODULE MCWebChat -----------------------------
(***************************************************************************)
(* WebChat on small instances.                                             *)
(***************************************************************************)
EXTENDS WebChatProps, TLC

Symmetry == Permutations(Tab) \cup Permutations(Call) \cup Permutations(ConvId)
=============================================================================
