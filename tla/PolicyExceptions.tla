-------------------------- MODULE PolicyExceptions --------------------------
(***************************************************************************)
(* Temporary exceptions (IncidentService): requested while an incident is  *)
(* active, decided by an administrator other than the requester, revoked   *)
(* or left to expire.  The stored status never changes by the passing of   *)
(* time: what an exception allows is computed when it is read.  Commands   *)
(* hold the AISystem row and name the version they find.                   *)
(***************************************************************************)
EXTENDS Incidents

CONSTANTS
    Exceptions,      \* rows of the policy_exceptions table
    Requesters,      \* the owner of the system and administrators
    Administrators,
    Deadlines        \* expiry times a requester may name

ASSUME DeadlinesAssumption == Deadlines \subseteq Nat

VARIABLE exceptions

NoException == [status |-> "none"]
ExceptionRow ==
    [status: {"pending", "approved", "rejected", "revoked"}, incident: Incident,
     by: Requesters, expires: Deadlines, decidedBy: Administrators \cup {"nobody"}]

\* evaluate_exception_state
ExceptionState(row, time) ==
    IF row.status = "approved"
    THEN IF time < row.expires THEN "active" ELSE "expired"
    ELSE row.status

ExceptionsInit == exceptions = [x \in Exceptions |-> NoException]

SaveException(x, row) == exceptions' = [exceptions EXCEPT ![x] = row]

\* Any deadline passes, one that is over included.
RequestException(x, i, p, deadline) ==
    /\ exceptions[x] = NoException
    /\ incident[i].status # "closed"
    /\ SaveException(x, [status |-> "pending", incident |-> i, by |-> p, expires |-> deadline,
                         decidedBy |-> "nobody"])

ExceptionBecomes(x, status, p) ==
    SaveException(x, [exceptions[x] EXCEPT !.status = status, !.decidedBy = p])

\* Mutation: a decision does not ask for a pending exception.
MayDecideAgain(x, p) == exceptions[x] # NoException /\ exceptions[x].by # p

\* validate_exception_decision
MayDecide(x, p) == exceptions[x].status = "pending" /\ exceptions[x].by # p

DecideException(x, approved, p) ==
    /\ MayDecide(x, p)
    /\ ExceptionBecomes(x, IF approved THEN "approved" ELSE "rejected", p)

\* Of its own requester too, and after it has expired.
RevokeException(x, p) ==
    /\ exceptions[x].status \in {"pending", "approved"}
    /\ ExceptionBecomes(x, "revoked", p)

ExceptionStep ==
    \E x \in Exceptions :
        \/ \E p \in Administrators, approved \in BOOLEAN : DecideException(x, approved, p)
        \/ \E p \in Administrators : RevokeException(x, p)
=============================================================================
