------------------------------ MODULE Incidents ------------------------------
(***************************************************************************)
(* The life cycle of an incident (IncidentService): opened, contained,     *)
(* under remediation, closed.  Every command locks the AISystem row before *)
(* it reads the incident, so each is one action; the version it must name  *)
(* is the one it finds.  A promotion that raises the severity writes the   *)
(* row under the same lock.                                                *)
(***************************************************************************)
EXTENDS Integers

CONSTANTS
    Incident,      \* incidents, reported before the behaviour begins
    MaxRevision    \* bound: version at which no command is given

ASSUME MaxRevisionAssumption == MaxRevision \in Nat

VARIABLE incident  \* the incidents table

IncidentStatuses == {"open", "contained", "remediating", "closed"}
IncidentRow == [status: IncidentStatuses, planned: BOOLEAN, version: Nat \ {0}]

AllowedFrom(status) ==
    CASE status = "open" -> {"contained", "remediating"}
      [] status = "contained" -> {"remediating"}
      [] status = "remediating" -> {"closed"}
      [] status = "closed" -> {}

SaveIncident(i, row) == incident' = [incident EXCEPT ![i] = row]

Becomes(i, status, planned) ==
    /\ incident[i].version < MaxRevision
    /\ SaveIncident(i, [status |-> status, planned |-> planned,
                        version |-> incident[i].version + 1])

ContainIncident(i) ==
    /\ "contained" \in AllowedFrom(incident[i].status)
    /\ Becomes(i, "contained", incident[i].planned)

\* A plan may be replaced while the remediation lasts.
SetRemediationPlan(i) ==
    /\ \/ incident[i].status = "remediating"
       \/ "remediating" \in AllowedFrom(incident[i].status)
    /\ Becomes(i, "remediating", TRUE)

CloseIncident(i) ==
    /\ "closed" \in AllowedFrom(incident[i].status)
    /\ incident[i].planned
    /\ Becomes(i, "closed", TRUE)

\* A promotion joins an active incident and raises its severity.
EscalateSeverity(i) ==
    /\ incident[i].status # "closed"
    /\ Becomes(i, incident[i].status, incident[i].planned)

IncidentInit == incident = [i \in Incident |-> [status |-> "open", planned |-> FALSE, version |-> 1]]

IncidentStep ==
    \E i \in Incident :
        \/ ContainIncident(i)
        \/ SetRemediationPlan(i)
        \/ CloseIncident(i)
        \/ EscalateSeverity(i)
=============================================================================
