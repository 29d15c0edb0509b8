---------------------------- MODULE AccessControl ----------------------------
(***************************************************************************)
(* Who may act and for how long: the admission of requests to the API and  *)
(* the signed authorizations that a runtime presents elsewhere.  The two   *)
(* share nothing but the clock.                                            *)
(***************************************************************************)
EXTENDS DirectoryAccess, RuntimeAuthorization

vars == <<now, directory, graph, access, authorization>>

Init == ClockInit /\ AccessInit /\ AuthorizationInit

Next ==
    \/ Tick /\ UNCHANGED <<directory, graph, access, authorization>>
    \/ (AccessStep \/ DirectoryStep) /\ UNCHANGED <<now, authorization>>
    \/ AuthorizationStep /\ UNCHANGED <<now, directory, graph, access>>

Spec == Init /\ [][Next]_vars
=============================================================================
