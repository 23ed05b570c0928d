------------------------- MODULE IdempotentDispatch -------------------------
(***************************************************************************)
(* The capability dispatcher's idempotency gate: CapabilityDispatcher      *)
(* .dispatch (core/dispatch.py) over IdempotencyStore (core/idempotency.py)*)
(* for the requests that carry one (tenant, idempotency key).              *)
(*                                                                         *)
(* A request is a coroutine; pc[r] names the await it is suspended at. A   *)
(* database transaction's read and its conditional write are two steps, as *)
(* they are under PostgreSQL's READ COMMITTED; SQLite serialises them and  *)
(* has a subset of these behaviours. A commit and the resumption of the    *)
(* coroutine that waits for it are two steps as well: a client timeout can *)
(* be delivered between them.                                              *)
(***************************************************************************)
EXTENDS FiniteSets

CONSTANTS Request,       \* request ids presented with the key
          NoRequest,     \* no request: an unset owner, response or answer
          CancelPoints,  \* the awaits at which the client's timeout may strike
          SlowHandlers,  \* may a live request outlast the stale-claim lease?
          Faults         \* "crash": the process dies; "storage": a write raises

Awaits == {"lookup", "decide", "claimed", "running", "completing",
           "completed", "auditing"}

ASSUME DispatchAssumption ==
  /\ NoRequest \notin Request
  /\ CancelPoints \subseteq Awaits
  /\ SlowHandlers \in BOOLEAN
  /\ Faults \subseteq {"crash", "storage"}

VARIABLES
  row,       \* the idempotency_records row
  cache,     \* the in-memory cache entry: whose response it holds
  pc,        \* where each request is suspended
  snap,      \* the row as the request's claim transaction read it
  answer,    \* whose response the request's caller was given
  finished   \* history: the requests whose handler ran to its end

vars == <<row, cache, pc, snap, answer, finished>>

RowState == {"ABSENT", "PROCESSING", "COMPLETED", "FAILED"}
Row == [state: RowState, request_id: Request \cup {NoRequest},
        response: Request \cup {NoRequest}, fresh: BOOLEAN]
NoRow == [state |-> "ABSENT", request_id |-> NoRequest,
          response |-> NoRequest, fresh |-> FALSE]

\* Suspended inside dispatch() while it holds, or may hold, the claim.
Holding == {"claimed", "running", "completing", "releasing", "failing"}
\* Suspended after the handler was entered and before the outcome is recorded.
Executing == {"running", "completing"}
\* dispatch() is over: returned, raised, or the process died under it.
Ended == {"returned", "replayed", "rejected", "raised", "unrecorded", "dead"}
Suspended == Awaits \cup Holding \cup {"uncaching"}
Control == {"arrived"} \cup Suspended \cup Ended

TypeOK == /\ row \in Row
          /\ cache \in Request \cup {NoRequest}
          /\ pc \in [Request -> Control]
          /\ snap \in [Request -> Row]
          /\ answer \in [Request -> Request \cup {NoRequest}]
          /\ finished \subseteq Request

Init == /\ row = NoRow
        /\ cache = NoRequest
        /\ pc = [r \in Request |-> "arrived"]
        /\ snap = [r \in Request |-> NoRow]
        /\ answer = [r \in Request |-> NoRequest]
        /\ finished = {}

Goto(r, label) == pc' = [pc EXCEPT ![r] = label]

-----------------------------------------------------------------------------
(* The claim: claim_or_get_execution.                                      *)

\* Tier 1: the in-memory cache is asked before any transaction is opened.
CacheLookup(r) ==
  /\ pc[r] = "arrived"
  /\ IF cache = NoRequest
     THEN Goto(r, "lookup") /\ UNCHANGED answer
     ELSE Goto(r, "replayed") /\ answer' = [answer EXCEPT ![r] = cache]
  /\ UNCHANGED <<row, cache, snap, finished>>

\* The claim transaction selects the row (also the re-query after a collision).
ReadRow(r) ==
  /\ pc[r] = "lookup"
  /\ snap' = [snap EXCEPT ![r] = row]
  /\ Goto(r, "decide")
  /\ UNCHANGED <<row, cache, answer, finished>>

\* No row was read: INSERT it. Losing the unique constraint means a re-query.
InsertClaim(r) ==
  /\ pc[r] = "decide" /\ snap[r].state = "ABSENT"
  /\ \/ /\ row.state = "ABSENT"
        /\ row' = [state |-> "PROCESSING", request_id |-> r,
                   response |-> NoRequest, fresh |-> TRUE]
        /\ Goto(r, "claimed")
     \/ /\ row.state # "ABSENT"
        /\ Goto(r, "lookup")
        /\ UNCHANGED row
  /\ UNCHANGED <<cache, snap, answer, finished>>

\* A COMPLETED row was read: its response is the caller's answer.
ReplayRow(r) ==
  /\ pc[r] = "decide" /\ snap[r].state = "COMPLETED"
  /\ answer' = [answer EXCEPT ![r] = snap[r].response]
  /\ Goto(r, "replayed")
  /\ UNCHANGED <<row, cache, snap, finished>>

\* Mutation: the UPDATE does not re-check the row it read.
SwapUnchecked(r) == \/ snap[r].state = "FAILED"
                    \/ snap[r].state = "PROCESSING" /\ ~snap[r].fresh

\* The compare-and-swap: a FAILED row is retried, a stale PROCESSING row is
\* taken over, and the row must still be what the transaction read.
SwapAllowed(r) ==
  \/ snap[r].state = "FAILED" /\ row.state = "FAILED"
  \/ /\ snap[r].state = "PROCESSING" /\ ~snap[r].fresh
     /\ row.state = "PROCESSING" /\ ~row.fresh

\* A FAILED or PROCESSING row was read: swap it or be turned away.
SwapClaim(r) ==
  /\ pc[r] = "decide" /\ snap[r].state \in {"FAILED", "PROCESSING"}
  /\ IF SwapAllowed(r)
     THEN /\ row' = [row EXCEPT !.state = "PROCESSING", !.request_id = r,
                                !.fresh = TRUE]
          /\ Goto(r, "claimed")
     ELSE Goto(r, "rejected") /\ UNCHANGED row
  /\ UNCHANGED <<cache, snap, answer, finished>>

-----------------------------------------------------------------------------
(* The execution: dispatch() from the handler call to its return.          *)

\* Mutation: the completion is recorded before the handler has run.
EnterHandlerCompleted(r) ==
  /\ pc[r] = "claimed"
  /\ Goto(r, "running")
  /\ row' = [row EXCEPT !.state = "COMPLETED", !.response = r]
  /\ UNCHANGED <<cache, snap, answer, finished>>

\* The claim's result reaches dispatch(), which calls the handler.
EnterHandler(r) ==
  /\ pc[r] = "claimed"
  /\ Goto(r, "running")
  /\ UNCHANGED <<row, cache, snap, answer, finished>>

HandlerReturns(r) ==
  /\ pc[r] = "running"
  /\ finished' = finished \cup {r}
  /\ Goto(r, "completing")
  /\ UNCHANGED <<row, cache, snap, answer>>

HandlerRaises(r) ==
  /\ pc[r] = "running"
  /\ Goto(r, "failing")
  /\ UNCHANGED <<row, cache, snap, answer, finished>>

\* record_completed's transaction: by key alone, whoever owns the row.
RecordCompleted(r) ==
  /\ pc[r] = "completing"
  /\ row' = [row EXCEPT !.state = "COMPLETED", !.response = r, !.fresh = TRUE]
  /\ Goto(r, "completed")
  /\ UNCHANGED <<cache, snap, answer, finished>>

\* record_completed resumes and fills the cache; the SUCCESS audit follows.
FillCache(r) ==
  /\ pc[r] = "completed"
  /\ cache' = r
  /\ Goto(r, "auditing")
  /\ UNCHANGED <<row, snap, answer, finished>>

ReturnResult(r) ==
  /\ pc[r] = "auditing"
  /\ answer' = [answer EXCEPT ![r] = r]
  /\ Goto(r, "returned")
  /\ UNCHANGED <<row, cache, snap, finished>>

-----------------------------------------------------------------------------
(* Failure: a client timeout, an exception, a write that raises, a crash.  *)

\* Mutation: an exception during the claim is re-raised without a release.
HandlerOfNoRelease(label) ==
  IF label \in {"lookup", "decide", "claimed"} THEN "raised" ELSE "failing"

\* Where a BaseException at each await leads: the claim's own handler
\* releases speculatively, the execution's handler records a failure.
HandlerOf(label) ==
  IF label \in {"lookup", "decide", "claimed"} THEN "releasing" ELSE "failing"

\* asyncio.wait_for throws CancelledError into dispatch().
ClientTimeout(r) ==
  /\ pc[r] \in CancelPoints
  /\ Goto(r, HandlerOf(pc[r]))
  /\ UNCHANGED <<row, cache, snap, answer, finished>>

\* Mutation: the release is not scoped to the caller's request_id.
ReleaseAnyClaim(r) ==
  /\ pc[r] = "releasing"
  /\ IF row.state = "PROCESSING"
     THEN /\ row' = [row EXCEPT !.state = "FAILED", !.fresh = TRUE]
          /\ Goto(r, "uncaching")
     ELSE Goto(r, "raised") /\ UNCHANGED row
  /\ UNCHANGED <<cache, snap, answer, finished>>

\* release_claim_if_owned: only this request's own PROCESSING row is released.
ReleaseClaim(r) ==
  /\ pc[r] = "releasing"
  /\ IF row.request_id = r /\ row.state = "PROCESSING"
     THEN /\ row' = [row EXCEPT !.state = "FAILED", !.fresh = TRUE]
          /\ Goto(r, "uncaching")
     ELSE Goto(r, "raised") /\ UNCHANGED row
  /\ UNCHANGED <<cache, snap, answer, finished>>

\* record_failed's transaction: by key alone, whatever the row says.
RecordFailed(r) ==
  /\ pc[r] = "failing"
  /\ row' = [row EXCEPT !.state = "FAILED", !.fresh = TRUE]
  /\ Goto(r, "uncaching")
  /\ UNCHANGED <<cache, snap, answer, finished>>

\* Either failure write resumes, deletes the cache entry and re-raises.
DropCache(r) ==
  /\ pc[r] = "uncaching"
  /\ cache' = NoRequest
  /\ Goto(r, "raised")
  /\ UNCHANGED <<row, snap, answer, finished>>

\* A transaction raises: before the outcome is recorded dispatch() cleans up,
\* a clean-up that raises leaves the row as it is.
StorageError(r) ==
  /\ "storage" \in Faults
  /\ \/ pc[r] \in {"lookup", "decide", "completing"} /\ Goto(r, HandlerOf(pc[r]))
     \/ pc[r] \in {"releasing", "failing"} /\ Goto(r, "unrecorded")
  /\ UNCHANGED <<row, cache, snap, answer, finished>>

\* The process dies and restarts: every suspended dispatch() is gone, and so
\* is the in-memory cache; the row survives.
Crash ==
  /\ "crash" \in Faults
  /\ \E r \in Request : pc[r] \in Suspended
  /\ pc' = [r \in Request |-> IF pc[r] \in Suspended THEN "dead" ELSE pc[r]]
  /\ cache' = NoRequest
  /\ UNCHANGED <<row, snap, answer, finished>>

\* STALE_PROCESSING_LEASE_SECONDS pass since the claim was written.
LeaseExpires ==
  /\ row.state = "PROCESSING" /\ row.fresh
  /\ SlowHandlers \/ pc[row.request_id] \notin Holding
  /\ row' = [row EXCEPT !.fresh = FALSE]
  /\ UNCHANGED <<cache, pc, snap, answer, finished>>

-----------------------------------------------------------------------------
Claim(r) == CacheLookup(r) \/ ReadRow(r) \/ InsertClaim(r) \/ ReplayRow(r)
            \/ SwapClaim(r)
Execute(r) == EnterHandler(r) \/ HandlerReturns(r) \/ HandlerRaises(r)
              \/ RecordCompleted(r) \/ FillCache(r) \/ ReturnResult(r)
Fail(r) == ClientTimeout(r) \/ StorageError(r) \/ ReleaseClaim(r)
           \/ RecordFailed(r) \/ DropCache(r)

Next == \/ \E r \in Request : Claim(r) \/ Execute(r) \/ Fail(r)
        \/ Crash
        \/ LeaseExpires

Spec == Init /\ [][Next]_vars

-----------------------------------------------------------------------------
(* Properties.                                                             *)

\* Two requests with one key are never inside the handler at once, whatever
\* is cancelled, raised or killed, as long as a live request ends within the
\* stale-claim lease (~SlowHandlers).
SingleExecutor ==
  \A r, s \in Request : pc[r] \in Executing /\ pc[s] \in Executing => r = s

\* No PROCESSING row outlives its request unless the process died or the
\* clean-up write itself raised: the two gaps the stale-claim lease is for.
NoStrandedClaim ==
  row.state = "PROCESSING" =>
    pc[row.request_id] \in Holding \cup {"dead", "unrecorded"}

\* A claim becomes retryable only once its owner has left the handler for
\* good: no other request's clean-up marks a running execution FAILED.
RetryableOnlyAfterStop ==
  [][row.state = "PROCESSING" /\ row'.state = "FAILED" =>
       pc'[row.request_id] \notin Executing \cup {"claimed"}]_vars

\* A claim follows its owner: it is kept as long as the owner may still execute
\* (no handler outlasts the lease, ~SlowHandlers), and freed once it has stopped.
ClaimFollowsOwner == []NoStrandedClaim /\ RetryableOnlyAfterStop

\* Every answer, cached, stored or delivered, is what a handler returned for
\* this key: nothing is ever replayed that was not executed.
ReplayIsReal ==
  /\ {cache, row.response} \subseteq finished \cup {NoRequest}
  /\ \A r \in Request : answer[r] \in finished \cup {NoRequest}
  /\ row.state = "COMPLETED" => row.response # NoRequest

\* The abstract promise: the durable answer is decided once and every caller
\* is given that one (no timeout after the COMPLETED commit, ~SlowHandlers).
Promise == INSTANCE SingleAnswer
  WITH decided <- IF row.state = "COMPLETED" THEN row.response ELSE NoRequest
PromiseKept == Promise!ASpec
=============================================================================
