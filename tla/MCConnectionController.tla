----------------------- MODULE MCConnectionController -----------------------
(***************************************************************************)
(* The controller on small instances.  Two callers of destroyResources are *)
(* enough for every role a caller can have (cleanup owner, waiter, timed   *)
(* out); three handles let a failed first attempt, its retry and a         *)
(* reconnect each create one.  Callers are interchangeable.                *)
(***************************************************************************)
EXTENDS ConnectionController, TLC

CallerSymmetry == Permutations(Callers)
=============================================================================
