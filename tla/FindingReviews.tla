--------------------------- MODULE FindingReviews ---------------------------
(***************************************************************************)
(* Review of a released finding (ReviewGovernanceFinding): authorized by   *)
(* the initiative, checked against the release registry and recorded in a  *)
(* receipt.  A request is known by its id, and asked again it is given the *)
(* receipt it has; two calls of one request race to insert it, and the     *)
(* unique key on request_id lets the second wait for the first.            *)
(***************************************************************************)
EXTENDS GovernanceIntelligence

CONSTANTS
    Calls,           \* calls of the review, retries included
    ReviewRequests,  \* request ids
    Dispositions

VARIABLES
    call,      \* each call under way
    receipts,  \* the receipts table: rows of committed transactions
    reply      \* the receipt each call was given

reviews == <<call, receipts, reply>>

Binding ==
    [request : ReviewRequests, candidate : CandidateRow, disposition : Dispositions,
     by : People, admin : BOOLEAN]
\* A receipt has an identity of its own, that of the call which made it.
ReceiptRow == [id : Calls, binding : Binding]
NoReceipt == [id |-> "none"]
NoCall == [stage |-> "idle"]

ReviewsInit ==
    /\ call = [c \in Calls |-> NoCall]
    /\ receipts = {}
    /\ reply = [c \in Calls |-> NoReceipt]

-----------------------------------------------------------------------------
Stands(c, stage) == call[c].stage = stage
Moves(c, stage) == call' = [call EXCEPT ![c].stage = stage]
Reply(c, receipt) == reply' = [reply EXCEPT ![c] = receipt]

\* SqlAlchemyInitiativeFindingReviewAuthorizer.can_review
CanReview(p) == p \in Admins \/ p = Owner

\* SqlAlchemyGovernanceFindingReleaseVerifier.was_released
WasReleased(candidate) == Release(candidate.correlation, candidate) \in releases

GetByRequestId(request) == {r \in receipts : r.binding.request = request}
NewReceipt(c) == [id |-> c, binding |-> call[c].binding]

\* A receipt of the request that another call has inserted and not committed.
InsertedElsewhere(c) ==
    \E d \in Calls \ {c} :
        Stands(d, "inserted") /\ call[d].binding.request = call[c].binding.request

\* _validate_request, _authorize, _binding
BeginReview(c, binding) ==
    /\ Stands(c, "idle")
    /\ CanReview(binding.by)
    /\ binding.admin = (binding.by \in Admins)
    /\ call' = [call EXCEPT ![c] = [stage |-> "authorized", binding |-> binding]]
    /\ UNCHANGED <<receipts, reply>>

RequireReleased(c) ==
    /\ Stands(c, "authorized")
    /\ Moves(c, IF WasReleased(call[c].binding.candidate) THEN "released" ELSE "ended")
    /\ UNCHANGED <<receipts, reply>>

NotFound(c) ==
    /\ Stands(c, "released")
    /\ GetByRequestId(call[c].binding.request) = {}
    /\ Moves(c, "saving")
    /\ UNCHANGED <<receipts, reply>>

\* Mutation: a replay compares the request's id only.
SameRequest(receipt, binding) == receipt.binding.request = binding.request

\* _require_idempotent_replay
IsReplay(receipt, binding) == receipt.binding = binding

\* Found at first, or by _recover_concurrent_replay after a conflict.
Replay(c) ==
    /\ call[c].stage \in {"released", "recovering"}
    /\ \E receipt \in GetByRequestId(call[c].binding.request) :
           IF IsReplay(receipt, call[c].binding) THEN Reply(c, receipt) ELSE UNCHANGED reply
    /\ Moves(c, "ended")
    /\ UNCHANGED receipts

\* save: the flush waits for an insertion of the same request.
InsertReceipt(c) ==
    /\ Stands(c, "saving")
    /\ ~InsertedElsewhere(c)
    /\ GetByRequestId(call[c].binding.request) = {}
    /\ Moves(c, "inserted")
    /\ UNCHANGED <<receipts, reply>>

WriteConflict(c) ==
    /\ Stands(c, "saving")
    /\ GetByRequestId(call[c].binding.request) # {}
    /\ Moves(c, "recovering")
    /\ UNCHANGED <<receipts, reply>>

\* The receipt and its audit event.
CommitReceipt(c) ==
    /\ Stands(c, "inserted")
    /\ receipts' = receipts \cup {NewReceipt(c)}
    /\ Reply(c, NewReceipt(c))
    /\ Moves(c, "ended")

CommitUnanswered(c) ==
    /\ Stands(c, "inserted")
    /\ receipts' = receipts \cup {NewReceipt(c)}
    /\ Moves(c, "ended")
    /\ UNCHANGED reply

\* A failure, a cancellation or process death rolls back.
ReviewFails(c) ==
    /\ call[c].stage \in {"authorized", "released", "saving", "inserted", "recovering"}
    /\ Moves(c, "ended")
    /\ UNCHANGED <<receipts, reply>>

ReviewStep ==
    \E c \in Calls :
        \/ \E request \in ReviewRequests, candidate \in Candidates, disposition \in Dispositions,
              p \in People :
               BeginReview(c, [request |-> request, candidate |-> candidate,
                               disposition |-> disposition, by |-> p, admin |-> p \in Admins])
        \/ RequireReleased(c)
        \/ NotFound(c)
        \/ Replay(c)
        \/ InsertReceipt(c)
        \/ WriteConflict(c)
        \/ CommitReceipt(c)
        \/ CommitUnanswered(c)
        \/ ReviewFails(c)

-----------------------------------------------------------------------------
ReviewsTypeOK ==
    /\ \A c \in Calls :
           /\ call[c].stage \in {"idle", "authorized", "released", "saving", "inserted",
                                 "recovering", "ended"}
           /\ call[c] # NoCall => call[c].binding \in Binding
    /\ receipts \subseteq ReceiptRow
    /\ reply \in [Calls -> ReceiptRow \cup {NoReceipt}]

(* One receipt per request, for a finding that was released, of a person   *)
(* who may review it; and every call that is answered is given that        *)
(* receipt, which says what the call itself asked, whichever of its        *)
(* retries made it and whether or not that one was answered                *)
(* (_persist_or_replay, _recover_concurrent_replay).                       *)
ReviewsAreIdempotent ==
    /\ \A r, s \in receipts : r.binding.request = s.binding.request => r = s
    /\ \A r \in receipts : WasReleased(r.binding.candidate) /\ CanReview(r.binding.by)
    /\ \A c \in Calls : reply[c] # NoReceipt =>
           reply[c] \in receipts /\ reply[c].binding = call[c].binding
=============================================================================
