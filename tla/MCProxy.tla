------------------------------- MODULE MCProxy -------------------------------
(***************************************************************************)
(* Proxy on small instances.                                               *)
(***************************************************************************)
EXTENDS ProxyProps

CONSTANTS t1, t2

\* One decomposition, into two tasks.
TwoTasks == {<<t1, t2>>}
=============================================================================
