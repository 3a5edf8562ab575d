----------------------- MODULE SoftEtherSessionPolicy -----------------------
(***************************************************************************)
(* The service's session lifecycle flags and decisions                     *)
(* (SoftEtherSessionPolicy.kt), as fragments of the steps of               *)
(* SoftEtherVpnService.tla.  The class has no lock: its methods are called *)
(* from the main thread and from background coroutines.  wasConnected      *)
(* only selects a notification and is left out.                            *)
(***************************************************************************)
EXTENDS Integers

VARIABLES
    isStopping,         \* teardown of the current session has begun
    isRunning,          \* the current session's connect() returned
    sessionGeneration   \* identity of the current session, 0 before the first

policyVars == <<isStopping, isRunning, sessionGeneration>>

PolicyInit ==
    /\ isStopping = FALSE
    /\ isRunning = FALSE
    /\ sessionGeneration = 0

OnSessionStart ==
    /\ isStopping' = FALSE
    /\ isRunning' = FALSE
    /\ sessionGeneration' = sessionGeneration + 1

\* isCurrentSession, mayStopServiceFor and shouldTearDownOnError.
IsCurrentSession(s) == s = sessionGeneration

OnRunning ==
    /\ isRunning' = TRUE
    /\ UNCHANGED <<isStopping, sessionGeneration>>

\* Mutant: only a connected session is protected from a second start.
AcceptUnlessRunning(resourcesLive) == ~isRunning

\* decideStart says ACCEPT.
AcceptStart(resourcesLive) == ~resourcesLive

\* beginTeardown returns FALSE: stopped already, and nothing is left.
NothingToTearDown(resourcesLive) == isStopping /\ ~resourcesLive

\* beginTeardown returns TRUE.
BeginTeardown ==
    /\ isStopping' = TRUE
    /\ isRunning' = FALSE
    /\ UNCHANGED sessionGeneration
=============================================================================
