------------------------------ MODULE MCModels ------------------------------
(***************************************************************************)
(* Values for module Models: two upstreams, one model declared for each.   *)
(***************************************************************************)
EXTENDS ModelsProps

CONSTANTS a, b

OneEach == <<{a}, {b}>>
=============================================================================
