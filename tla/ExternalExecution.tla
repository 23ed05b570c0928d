-------------------------- MODULE ExternalExecution --------------------------
(***************************************************************************)
(* Governed external executions: ExternalExecutionManager                  *)
(* (workflow/executor.py) over ExternalExecutionStore                      *)
(* (workflow/persistence.py), with the approval ticket that gates an       *)
(* execution and the boot scans of WorkflowEngine.start.                   *)
(*                                                                         *)
(* Per request there are at most three coroutines: the caller of           *)
(* execute_operation, the handler of the one workflow.approval.decided     *)
(* event of its ticket (Approval: a ticket is announced at most once), and *)
(* a caller of cancel_execution. The dispatch loop runs inside the caller  *)
(* of an ungated request and inside the handler of a gated one; the event  *)
(* engine awaits its handlers, so the decision's own caller waits for it.  *)
(***************************************************************************)
EXTENDS Naturals, FiniteSets

CONSTANTS Request,      \* requests; their ids are the execution ids
          Gated,        \* requests with requires_approval
          Keyed,        \* requests that carry one common idempotency key
          Cancellable,  \* requests that some user may cancel
          MaxAttempts,  \* retry_policy.max_attempts
          MaxCrashes,   \* bound on the crashes of a behaviour
          Early,        \* requests of recovered workflows, which may call while
                        \* the boot scans run
          Faults        \* "timeout": a client's; "storage": a write raises

ASSUME ExecutionAssumption ==
  /\ Gated \subseteq Request /\ Cancellable \subseteq Request
  /\ Keyed \subseteq Request /\ Early \subseteq Request
  /\ MaxAttempts \in Nat \ {0} /\ MaxCrashes \in Nat
  /\ Faults \subseteq {"timeout", "storage"}

VARIABLES
  status,      \* external_executions.status, "ABSENT" before the INSERT
  interrupted, \* the rows whose error message is the boot recovery's
  ticket,      \* the state of the request's approval ticket
  caller,      \* where execute_operation is suspended
  handler,     \* where on_approval_decided is suspended
  canceller,   \* where the user's cancel_execution is suspended
  loop,        \* where the request's dispatch loop is
  tries,       \* attempts the running loop has made
  dispatched,  \* history: how often the target was dispatched at all
  boot,        \* which part of start() runs, "up" when it is over
  scan,        \* the rows the running boot scan has still to visit
  crashes

rows == <<status, interrupted, ticket>>
calls == <<caller, handler, canceller>>
work == <<loop, tries, dispatched>>
system == <<boot, scan, crashes>>
vars == <<rows, calls, work, system>>

Terminal == {"COMPLETED", "FAILED", "TIMED_OUT", "CANCELLED"}
Status == {"ABSENT", "WAITING_APPROVAL", "RUNNING"} \cup Terminal
TicketState == {"ABSENT", "PENDING", "APPROVED", "REJECTED", "EXPIRED"}
Suspended == {"creating", "saving", "announcing", "resuming", "cancelling",
              "writing"}
\* "dispatching": what is left of the call is the request's dispatch loop.
Ended == {"returned", "replayed", "ignored", "confirmed", "dispatching",
          "raised", "dead"}
Control == {"idle"} \cup Suspended \cup Ended
Looping == {"attempting", "succeeded", "exhausted"}
LoopState == {"idle", "recorded", "cut", "unrecorded", "dead"} \cup Looping

TypeOK == /\ status \in [Request -> Status]
          /\ interrupted \subseteq Request
          /\ ticket \in [Request -> TicketState]
          /\ caller \in [Request -> Control]
          /\ handler \in [Request -> Control]
          /\ canceller \in [Request -> Control]
          /\ loop \in [Request -> LoopState]
          /\ tries \in [Request -> 0..MaxAttempts]
          /\ dispatched \in [Request -> Nat]
          /\ boot \in {"listing", "failing", "reconciling", "up"}
          /\ scan \subseteq Request
          /\ crashes \in 0..MaxCrashes

Init == /\ status = [r \in Request |-> "ABSENT"]
        /\ interrupted = {}
        /\ ticket = [r \in Request |-> "ABSENT"]
        /\ caller = [r \in Request |-> "idle"]
        /\ handler = [r \in Request |-> "idle"]
        /\ canceller = [r \in Request |-> "idle"]
        /\ loop = [r \in Request |-> "idle"]
        /\ tries = [r \in Request |-> 0]
        /\ dispatched = [r \in Request |-> 0]
        /\ boot = "up" /\ scan = {} /\ crashes = 0

Write(r, s) == status' = [status EXCEPT ![r] = s]
Call(r, label) == caller' = [caller EXCEPT ![r] = label]
Handle(r, label) == handler' = [handler EXCEPT ![r] = label]
Loop(r, label) == loop' = [loop EXCEPT ![r] = label]

-----------------------------------------------------------------------------
(* execute_operation.                                                      *)

Calling(r) == boot = "up" \/ r \in Early
KeyTaken(r) == r \in Keyed /\ \E s \in Keyed : status[s] # "ABSENT"
StorageFails == "storage" \in Faults

\* Mutation: no replay guard and no unique constraint.
InsertDuplicate(r, s) == Write(r, s)

\* An INSERT under the unique constraint on (tenant_id, idempotency_key).
Insert(r, s) == ~KeyTaken(r) /\ Write(r, s)

\* Step 0: an existing row with the key is the caller's answer.
Submit(r) ==
  /\ Calling(r) /\ caller[r] = "idle"
  /\ Call(r, IF KeyTaken(r) THEN "replayed" ELSE "creating")
  /\ UNCHANGED <<rows, handler, canceller, work, system>>

\* Step 1, gated: the approval ticket is created in its own transaction ...
CreateTicket(r) ==
  /\ caller[r] = "creating" /\ r \in Gated
  /\ ticket' = [ticket EXCEPT ![r] = "PENDING"]
  /\ Call(r, "saving")
  /\ UNCHANGED <<status, interrupted, handler, canceller, work, system>>

\* ... and then the WAITING_APPROVAL row; a lost race for the key raises.
SaveWaiting(r) ==
  /\ caller[r] = "saving"
  /\ \/ Insert(r, "WAITING_APPROVAL") /\ Call(r, "returned")
     \/ (KeyTaken(r) \/ StorageFails) /\ Call(r, "raised") /\ UNCHANGED status
  /\ UNCHANGED <<interrupted, ticket, handler, canceller, work, system>>

\* Step 2, ungated: the RUNNING row, and the dispatch loop begins.
StartUngated(r) ==
  /\ caller[r] = "creating" /\ r \notin Gated
  /\ \/ /\ Insert(r, "RUNNING")
        /\ Call(r, "dispatching") /\ Loop(r, "attempting")
        /\ tries' = [tries EXCEPT ![r] = 0]
     \/ /\ KeyTaken(r) \/ StorageFails
        /\ Call(r, "raised")
        /\ UNCHANGED <<status, loop, tries>>
  /\ UNCHANGED <<interrupted, ticket, handler, canceller, dispatched, system>>

-----------------------------------------------------------------------------
(* _run_dispatch_and_record.                                               *)

\* A failed attempt, the last of those made so far, is retried or was the last.
AfterFailure(r, made) ==
  Loop(r, IF made < MaxAttempts THEN "attempting" ELSE "exhausted")

\* One attempt: the target is dispatched, and returns, raises or times out.
Attempt(r) ==
  /\ loop[r] = "attempting"
  /\ tries' = [tries EXCEPT ![r] = @ + 1]
  /\ dispatched' = [dispatched EXCEPT ![r] = @ + 1]
  /\ Loop(r, "succeeded") \/ AfterFailure(r, tries[r] + 1)
  /\ UNCHANGED <<rows, calls, system>>

\* COMPLETED is recorded; the write is inside the try block, so a write that
\* raises counts as a failed attempt.
RecordSuccess(r) ==
  /\ loop[r] = "succeeded"
  /\ \/ Write(r, "COMPLETED") /\ Loop(r, "recorded")
     \/ /\ StorageFails
        /\ AfterFailure(r, tries[r])
        /\ UNCHANGED status
  /\ UNCHANGED <<interrupted, ticket, calls, tries, dispatched, system>>

\* FAILED or TIMED_OUT is recorded, or the write raises and nothing is.
RecordFailure(r) ==
  /\ loop[r] = "exhausted"
  /\ \/ /\ \E s \in {"FAILED", "TIMED_OUT"} : Write(r, s)
        /\ Loop(r, "recorded")
     \/ StorageFails /\ Loop(r, "unrecorded") /\ UNCHANGED status
  /\ UNCHANGED <<interrupted, ticket, calls, tries, dispatched, system>>

-----------------------------------------------------------------------------
(* The ticket's outcome and on_approval_decided.                           *)

\* A decision or an expiry is committed (module Approval); its event follows.
Settle(r, outcome) ==
  /\ boot = "up" /\ ticket[r] = "PENDING"
  /\ ticket' = [ticket EXCEPT ![r] = outcome]
  /\ Handle(r, "announcing")
  /\ UNCHANGED <<status, interrupted, caller, canceller, work, system>>

\* Only an approval resumes, anything else cancels.
Resumes(r) == ticket[r] = "APPROVED"

\* The handler reads the row: not waiting, nothing to do; otherwise resume or
\* cancel, by the event's decision.
ReadEvent(r) ==
  /\ handler[r] = "announcing"
  /\ Handle(r, IF status[r] # "WAITING_APPROVAL" THEN "ignored"
               ELSE IF Resumes(r) THEN "resuming" ELSE "cancelling")
  /\ UNCHANGED <<rows, caller, canceller, work, system>>

\* A call that raises is logged and dropped: the event is not redelivered.
HandlerFails(r) ==
  /\ StorageFails /\ handler[r] \in Suspended
  /\ Handle(r, "raised")
  /\ UNCHANGED <<rows, caller, canceller, work, system>>

\* The dispatch context is loaded and the RUNNING row is written over
\* whatever the row says by now.
Resume(r) ==
  /\ handler[r] = "resuming"
  /\ Write(r, "RUNNING")
  /\ Handle(r, "dispatching") /\ Loop(r, "attempting")
  /\ tries' = [tries EXCEPT ![r] = 0]
  /\ UNCHANGED <<interrupted, ticket, caller, canceller, dispatched, system>>

\* cancel_execution called by the handler: the row is read again ...
HandlerCancels(r) ==
  /\ handler[r] = "cancelling"
  /\ Handle(r, IF status[r] = "WAITING_APPROVAL" THEN "writing" ELSE "raised")
  /\ UNCHANGED <<rows, caller, canceller, work, system>>

\* ... and CANCELLED written over whatever it says by now.
HandlerWritesCancelled(r) ==
  /\ handler[r] = "writing"
  /\ Write(r, "CANCELLED")
  /\ Handle(r, "returned")
  /\ UNCHANGED <<interrupted, ticket, caller, canceller, work, system>>

-----------------------------------------------------------------------------
(* A user's cancel_execution.                                              *)

CancelRead(r) ==
  /\ boot = "up" /\ r \in Cancellable /\ canceller[r] = "idle"
  /\ status[r] # "ABSENT"
  /\ canceller' = [canceller EXCEPT ![r] =
                     IF status[r] = "WAITING_APPROVAL" THEN "writing"
                                                       ELSE "raised"]
  /\ UNCHANGED <<rows, caller, handler, work, system>>

CancelWrite(r) ==
  /\ canceller[r] = "writing"
  /\ Write(r, "CANCELLED")
  /\ canceller' = [canceller EXCEPT ![r] = "confirmed"]
  /\ UNCHANGED <<interrupted, ticket, caller, handler, work, system>>

-----------------------------------------------------------------------------
(* Client timeouts, crashes and the next boot.                             *)

\* The API's wait_for cancels a coroutine at the await it is suspended on; a
\* CancelledError is no Exception, so the loop ends and records nothing.
ClientTimeout(r) ==
  /\ "timeout" \in Faults
  /\ \/ /\ caller[r] \in Suspended /\ Call(r, "raised")
        /\ UNCHANGED <<handler, canceller, loop>>
     \/ /\ handler[r] \in Suspended /\ Handle(r, "raised")
        /\ UNCHANGED <<caller, canceller, loop>>
     \/ /\ canceller[r] \in Suspended
        /\ canceller' = [canceller EXCEPT ![r] = "raised"]
        /\ UNCHANGED <<caller, handler, loop>>
     \/ /\ loop[r] \in Looping /\ Loop(r, "cut")
        /\ UNCHANGED <<calls>>
  /\ UNCHANGED <<rows, tries, dispatched, system>>

Kill(pc) == [r \in Request |-> IF pc[r] \in Suspended THEN "dead" ELSE pc[r]]

\* The process dies with every coroutine in it, and start() begins anew.
Crash ==
  /\ crashes < MaxCrashes
  /\ crashes' = crashes + 1
  /\ caller' = Kill(caller) /\ handler' = Kill(handler)
  /\ canceller' = Kill(canceller)
  /\ loop' = [r \in Request |-> IF loop[r] \in Looping THEN "dead"
                                                       ELSE loop[r]]
  /\ boot' = "listing" /\ scan' = {}
  /\ UNCHANGED <<rows, tries, dispatched>>

RowsIn(s) == {r \in Request : status[r] = s}

\* recover_stranded_executions lists the RUNNING rows ...
ListStranded ==
  /\ boot = "listing"
  /\ boot' = "failing" /\ scan' = RowsIn("RUNNING")
  /\ UNCHANGED <<rows, calls, work, crashes>>

\* Mutation: the scan resumes a stranded row instead of failing it.
RestartStranded(r) ==
  /\ boot = "failing" /\ r \in scan
  /\ scan' = scan \ {r}
  /\ Loop(r, "attempting") /\ tries' = [tries EXCEPT ![r] = 0]
  /\ UNCHANGED <<rows, calls, dispatched, boot, crashes>>

\* Mutation: a row without an approval ticket is retried, never failed.
FailGatedStranded(r) ==
  /\ boot = "failing" /\ r \in scan /\ r \in Gated
  /\ Write(r, "FAILED")
  /\ interrupted' = interrupted \cup {r}
  /\ scan' = scan \ {r}
  /\ UNCHANGED <<ticket, calls, work, boot, crashes>>

\* Mutation: the scan ends with the first row.
FailFirstStranded(r) ==
  /\ boot = "failing" /\ r \in scan
  /\ Write(r, "FAILED")
  /\ interrupted' = interrupted \cup {r}
  /\ scan' = {}
  /\ UNCHANGED <<ticket, calls, work, boot, crashes>>

\* ... and fails each of them, whatever it says by now.
FailStranded(r) ==
  /\ boot = "failing" /\ r \in scan
  /\ Write(r, "FAILED")
  /\ interrupted' = interrupted \cup {r}
  /\ scan' = scan \ {r}
  /\ UNCHANGED <<ticket, calls, work, boot, crashes>>

\* Then reconcile_stranded_waiting_approvals lists the waiting rows ...
ListWaiting ==
  /\ boot = "failing" /\ scan = {}
  /\ boot' = "reconciling" /\ scan' = RowsIn("WAITING_APPROVAL")
  /\ UNCHANGED <<rows, calls, work, crashes>>

\* ... and cancels those whose ticket was lost, rejected or has expired. A
\* pending one goes on waiting; an approved one is logged and left alone.
Reconcile(r) ==
  /\ boot = "reconciling" /\ r \in scan
  /\ scan' = scan \ {r}
  /\ IF /\ ticket[r] \in {"ABSENT", "REJECTED", "EXPIRED"}
        /\ status[r] = "WAITING_APPROVAL"
     THEN Write(r, "CANCELLED") ELSE UNCHANGED status
  /\ UNCHANGED <<interrupted, ticket, calls, work, boot, crashes>>

FinishBoot ==
  /\ boot = "reconciling" /\ scan = {}
  /\ boot' = "up"
  /\ UNCHANGED <<rows, calls, work, scan, crashes>>

-----------------------------------------------------------------------------
CallerStep(r) == CreateTicket(r) \/ SaveWaiting(r) \/ StartUngated(r)
LoopStep(r) == Attempt(r) \/ RecordSuccess(r) \/ RecordFailure(r)
HandlerStep(r) == \/ ReadEvent(r) \/ HandlerFails(r) \/ Resume(r)
                  \/ HandlerCancels(r) \/ HandlerWritesCancelled(r)
BootStep == \/ ListStranded \/ ListWaiting \/ FinishBoot
            \/ \E r \in Request : FailStranded(r) \/ Reconcile(r)

Next == \/ \E r \in Request :
             \/ Submit(r) \/ CallerStep(r) \/ LoopStep(r) \/ HandlerStep(r)
             \/ \E outcome \in {"APPROVED", "REJECTED", "EXPIRED"} :
                  Settle(r, outcome)
             \/ CancelRead(r) \/ CancelWrite(r) \/ ClientTimeout(r)
        \/ BootStep \/ Crash

Spec == Init /\ [][Next]_vars

\* The event loop runs every coroutine that is ready; nobody has to submit,
\* decide, cancel or crash.
FairSpec == /\ Spec /\ WF_vars(BootStep)
            /\ \A r \in Request : /\ WF_vars(CallerStep(r))
                                  /\ WF_vars(LoopStep(r))
                                  /\ WF_vars(HandlerStep(r))
                                  /\ WF_vars(CancelWrite(r))

-----------------------------------------------------------------------------
(* Safety.                                                                 *)

\* The replay guard and the unique constraint together: of the requests that
\* carry one idempotency key, gated or not, at most one is ever dispatched.
OneExecutionPerKey ==
  \A r, s \in Keyed : dispatched[r] > 0 /\ dispatched[s] > 0 => r = s

\* After the boot scans a RUNNING row is in the hands of its dispatch loop, or
\* of one that a client's timeout or a failed write cut short in this process;
\* no row of a dead process is left behind as RUNNING.
RunningIsOwned ==
  \A r \in Request :
    boot = "up" /\ status[r] = "RUNNING" =>
      loop[r] \in Looping \cup {"cut", "unrecorded"}

\* Whatever is dispatched has one owner: a single request for its key, and a
\* single loop for its row.
OneOwner == OneExecutionPerKey /\ RunningIsOwned

-----------------------------------------------------------------------------
(* The abstract specification.                                             *)

PhaseOf(s) == CASE s = "ABSENT" -> "none"
                [] s = "WAITING_APPROVAL" -> "held"
                [] s = "RUNNING" -> "released"
                [] OTHER -> "closed"

Undisturbed == Request \ (Cancellable \cup Early)

Effect == INSTANCE GovernedEffect WITH
            Request <- Undisturbed,
            Gated <- Gated \cap Undisturbed,
            Bound <- MaxAttempts,
            consent <- {r \in Gated \cap Undisturbed : ticket[r] = "APPROVED"},
            phase <- [r \in Undisturbed |-> PhaseOf(status[r])],
            effects <- [r \in Undisturbed |-> dispatched[r]]

\* Towards every request that no user cancels and that does not come from a
\* recovered workflow before the boot scans are over, the manager implements
\* GovernedEffect, whatever happens to the other requests: it is held, released
\* with consent, dispatched while it is released and closed once and for all.
PromiseKept == Effect!Spec

-----------------------------------------------------------------------------
(* Liveness.                                                               *)

\* A RUNNING row ends, in its loop or in the recovery scan of the next boot,
\* unless a client's timeout or a failed write cuts its loop short: then it
\* waits for a boot that may never come.
RunningEnds ==
  \A r \in Request : status[r] = "RUNNING"
                    ~> status[r] \in Terminal \/ loop[r] \in {"cut", "unrecorded"}
=============================================================================
