--------------------------- MODULE WorkflowInstance ---------------------------
(***************************************************************************)
(* One workflow instance: WorkflowEngine (workflow/engine.py) with its     *)
(* StepEvaluator, WorkflowStateMachine and WorkflowStore, from the moment  *)
(* start_workflow has saved it and created the task that runs its steps.   *)
(*                                                                         *)
(* The instance lives twice: as a row, and as one object in memory that    *)
(* all tasks share. Runners (_run_instance_steps), user calls (decide,     *)
(* resume, cancel) and the hydration at boot change the object between two *)
(* awaits and write it with a compare-and-swap on its version. A write     *)
(* takes state and version when it is issued, but step index and           *)
(* compensation stack when its transaction runs. Steps are 1..Steps, the   *)
(* code's index plus one; index Steps + 1 is past the end.                 *)
(***************************************************************************)
EXTENDS Naturals, Sequences, FiniteSets

CONSTANTS Steps,      \* the number of steps of the definition
          Gates,      \* those with is_approval_step
          Undoable,   \* those with a compensation_action
          Lenient,    \* those with on_failure_continue
          Runner,     \* tasks that may run the steps
          Caller,     \* user calls
          Boot,       \* the hydration of WorkflowEngine.start
          NoTask,
          Serial,     \* are transactions run in the order of their issue?
          Failures,   \* "storage": a transaction raises; "timeout": a call is cut
          MaxCrashes, \* bound on the crashes of a behaviour
          MaxResumes  \* bound on the resume_workflow calls of users

ASSUME InstanceAssumption ==
  /\ Steps \in Nat \ {0}
  /\ Gates \subseteq 1..Steps
  /\ Undoable \subseteq (1..Steps) \ Gates /\ Lenient \subseteq (1..Steps) \ Gates
  /\ Runner \cap Caller = {} /\ Boot \notin Runner \cup Caller
  /\ NoTask \notin Runner \cup Caller \cup {Boot} /\ Serial \in BOOLEAN
  /\ Failures \subseteq {"storage", "timeout"}
  /\ MaxCrashes \in Nat /\ MaxResumes \in Nat

Step == 1..Steps
Task == Runner \cup Caller \cup {Boot}

VARIABLES
  row,      \* the instance's row
  tickets,  \* the approval tickets of a gate, in the order of their creation
  mem,      \* the object in _instances, in state "NONE" when not loaded
  pc,       \* the await a task is at
  buf,      \* the state and version a pending write was issued with
  queue,    \* the tasks with a pending write, in the order of their issue
  step,     \* the step a runner has taken up
  tracked,  \* _running_tasks: the runner a cancellation would stop
  original, \* the runner start_workflow created, whose end clears tracked
  ran,      \* history: how often the execution of a step was begun
  undone,   \* history: how often its compensation was dispatched
  crashes, resumes

writes == <<buf, queue>>
proc == <<mem, pc, writes, step, tracked, original>>
ledger == <<ran, undone>>
limits == <<crashes, resumes>>
instanceVars == <<row, tickets, proc, ledger, limits>>

Active == {"RUNNING", "WAITING", "APPROVED"}
Terminal == {"COMPLETED", "FAILED", "CANCELLED"}

\* Where a task waits for a write: record_* bumps the version of the object
\* as the write is issued, update_instance once it has succeeded.
Recording == {"advancing", "parking", "closing"}
Updating == {"reentering", "completing", "cancelling", "stepping", "resuming",
             "refusing", "reviving", "abandoning"}
Waits == Recording \cup Updating \cup
           {"down", "idle", "top", "working", "asking", "asked", "unwinding",
            "approved", "refused", "resolving"}

Instance == [state : Active \cup Terminal, index : Nat \ {0}, at : 0..Steps,
             stack : Seq(Undoable), version : Nat]
Unloaded == [state |-> "NONE", index |-> 1, at |-> 0, stack |-> <<>>,
             version |-> 0]
Empty == [state |-> "NONE", version |-> 0]

InstanceTypeOK ==
  /\ row \in Instance
  /\ mem \in Instance \cup {Unloaded}
  /\ tickets \in [Gates -> Seq({"PENDING", "APPROVED", "REJECTED"})]
  /\ pc \in [Task -> Waits]
  /\ buf \in [Task -> [state : Active \cup Terminal \cup {"NONE"},
                       version : Nat]]
  /\ queue \in Seq(Task)
  /\ step \in [Task -> 0..Steps]
  /\ tracked \in Runner \cup {NoTask}
  /\ original \in Runner \cup {NoTask}
  /\ ran \in [Step -> Nat] /\ undone \in [Undoable -> Nat]
  /\ crashes \in 0..MaxCrashes /\ resumes \in 0..MaxResumes

Started == [state |-> "RUNNING", index |-> 1, at |-> 0, stack |-> <<>>,
            version |-> 1]

InstanceInit ==
  /\ row = Started /\ mem = Started
  /\ tickets = [g \in Gates |-> <<>>]
  /\ original \in Runner /\ tracked = original
  /\ pc = [t \in Task |-> IF t = original THEN "top" ELSE "idle"]
  /\ buf = [t \in Task |-> Empty] /\ queue = <<>>
  /\ step = [t \in Task |-> 0]
  /\ ran = [i \in Step |-> 0] /\ undone = [i \in Undoable |-> 0]
  /\ crashes = 0 /\ resumes = 0

-----------------------------------------------------------------------------
(* Tasks and their writes.                                                 *)

Goto(t, where) == pc' = [pc EXCEPT ![t] = where]

\* A task has one pending write at most.
Without(t) ==
  IF \E n \in DOMAIN queue : queue[n] = t
  THEN LET n == CHOOSE k \in DOMAIN queue : queue[k] = t
       IN SubSeq(queue, 1, n - 1) \o SubSeq(queue, n + 1, Len(queue))
  ELSE queue

Written(t) == buf' = [buf EXCEPT ![t] = Empty] /\ queue' = Without(t)

Ends(t) == /\ Goto(t, "idle")
           /\ Written(t)
           /\ step' = [step EXCEPT ![t] = 0]
           /\ tracked' = IF t \in {tracked, original} THEN NoTask ELSE tracked
           /\ original' = IF t = original THEN NoTask ELSE original

\* The write waits for the lock of a SQLite session (core/db.py), which is
\* given in order; PostgreSQL has none.
Issue(t, where, state, version) ==
  /\ Goto(t, where)
  /\ buf' = [buf EXCEPT ![t] = [state |-> state, version |-> version]]
  /\ queue' = Append(queue, t)

Turn(t) == Serial => Head(queue) = t

\* update_instance, and the two record_step_complete_and_..., of object m.
Update(t, where, m) == /\ mem' = m
                       /\ Issue(t, where, m.state, m.version)
RecordStep(t, where, m) ==
  /\ mem' = [m EXCEPT !.version = @ + 1]
  /\ Issue(t, where, m.state, m.version)

Current(t) == row.version = buf[t].version

Stored(t) == [mem EXCEPT !.state = buf[t].state, !.version = buf[t].version + 1]

Commit(t) == Turn(t) /\ Current(t) /\ row' = Stored(t)

Spawn(r) == /\ pc[r] = "idle"
            /\ tracked' = r
            /\ UNCHANGED original

\* Mutation: an action stays on the stack while it is dispatched.
UnwindKeeping(t, m) ==
  IF m.stack # <<>>
  THEN /\ mem' = m
       /\ undone' = [undone EXCEPT ![m.stack[Len(m.stack)]] = @ + 1]
       /\ Goto(t, "unwinding")
       /\ Written(t)
       /\ UNCHANGED <<step, tracked, original>>
  ELSE /\ UNCHANGED undone
       /\ IF t \in Runner
          THEN RecordStep(t, "closing", m) /\ UNCHANGED <<step, tracked, original>>
          ELSE mem' = m /\ Ends(t)

\* The compensation stack, popped before each dispatch; a runner then writes
\* FAILED, the other tasks end.
Unwind(t, m) ==
  IF m.stack # <<>>
  THEN LET n == Len(m.stack)
       IN /\ mem' = [m EXCEPT !.stack = SubSeq(@, 1, n - 1)]
          /\ undone' = [undone EXCEPT ![m.stack[n]] = @ + 1]
          /\ Goto(t, "unwinding")
          /\ Written(t)
          /\ UNCHANGED <<step, tracked, original>>
  ELSE /\ UNCHANGED undone
       /\ IF t \in Runner
          THEN RecordStep(t, "closing", m) /\ UNCHANGED <<step, tracked, original>>
          ELSE mem' = m /\ Ends(t)

Compensate(t) == /\ pc[t] = "unwinding"
                 /\ Unwind(t, mem)
                 /\ UNCHANGED <<row, tickets, ran, limits>>

\* A conflict is raised, and ends the task.
Conflict(t) == /\ pc[t] \in Recording \cup Updating /\ Turn(t) /\ ~Current(t)
               /\ Ends(t)
               /\ UNCHANGED <<row, tickets, mem, ledger, limits>>

\* A transaction raises: a write, the INSERT of a ticket, the read of the
\* definition or, at boot, of the instances.
Raises(t) == /\ "storage" \in Failures
             /\ pc[t] \in Recording \cup Updating \cup {"asking", "resolving", "down"}
             /\ Ends(t)
             /\ UNCHANGED <<row, tickets, mem, ledger, limits>>

-----------------------------------------------------------------------------
(* A runner: _run_instance_steps and execute_step.                         *)

Begin(r, i) == /\ Goto(r, IF i \in Gates THEN "asking" ELSE "working")
               /\ ran' = [ran EXCEPT ![i] = @ + 1]

TakeStep(r) ==
  /\ pc[r] = "top" /\ mem.index \in Step /\ mem.state = "RUNNING"
  /\ mem' = [mem EXCEPT !.at = mem.index]
  /\ step' = [step EXCEPT ![r] = mem.index]
  /\ Begin(r, mem.index)
  /\ UNCHANGED <<row, tickets, writes, tracked, original, undone, limits>>

Reenter(r) ==
  /\ pc[r] = "top" /\ mem.index \in Step /\ mem.state = "APPROVED"
  /\ step' = [step EXCEPT ![r] = mem.index]
  /\ Update(r, "reentering",
            [mem EXCEPT !.at = mem.index, !.state = "RUNNING"])
  /\ UNCHANGED <<row, tickets, tracked, original, ledger, limits>>

Acknowledged(t) == mem' = [mem EXCEPT !.version = buf[t].version + 1]

Reentered(r) ==
  /\ pc[r] = "reentering" /\ Commit(r) /\ Acknowledged(r)
  /\ Begin(r, step[r]) /\ Written(r)
  /\ UNCHANGED <<tickets, step, tracked, original, undone, limits>>

Complete(r) ==
  /\ pc[r] = "top" /\ mem.index \notin Step /\ mem.state = "RUNNING"
  /\ Update(r, "completing", [mem EXCEPT !.state = "COMPLETED"])
  /\ UNCHANGED <<row, tickets, step, tracked, original, ledger, limits>>

\* The loop breaks in any other state; past the end only RUNNING completes.
Leave(r) ==
  /\ pc[r] = "top"
  /\ mem.state # "RUNNING"
  /\ mem.index \in Step => mem.state # "APPROVED"
  /\ Ends(r)
  /\ UNCHANGED <<row, tickets, mem, ledger, limits>>

\* Mutation: the index is not advanced with the record of the step.
WorkForgotten(r) ==
  /\ pc[r] = "working"
  /\ RecordStep(r, IF mem.state = "WAITING" THEN "parking" ELSE "advancing", mem)
  /\ UNCHANGED <<row, tickets, step, tracked, original, ledger, limits>>

\* The capability call of a step returns, or fails for good in a step that
\* may fail. The instance advances unless another task made it wait.
Work(r) ==
  /\ pc[r] = "working"
  /\ \E success \in (IF step[r] \in Lenient THEN BOOLEAN ELSE {TRUE}) :
       LET m == IF success /\ step[r] \in Undoable
                THEN [mem EXCEPT !.stack = Append(@, step[r])] ELSE mem
       IN IF mem.state = "WAITING"
          THEN RecordStep(r, "parking", m)
          ELSE RecordStep(r, "advancing", [m EXCEPT !.index = @ + 1])
  /\ UNCHANGED <<row, tickets, step, tracked, original, ledger, limits>>

Advanced(r) ==
  /\ pc[r] = "advancing" /\ Commit(r)
  /\ Goto(r, "top") /\ Written(r)
  /\ UNCHANGED <<tickets, mem, step, tracked, original, ledger, limits>>

\* Every attempt failed: FAILED, where the state machine allows it.
WorkFails(r) ==
  /\ pc[r] = "working" /\ step[r] \notin Lenient
  /\ mem.state \in Active \cup {"FAILED"}
  /\ Unwind(r, [mem EXCEPT !.state = "FAILED"])
  /\ UNCHANGED <<row, tickets, ran, limits>>

\* A transition the state machine forbids raises, and ends the runner.
Forbidden(r) ==
  /\ \/ /\ pc[r] = "working" /\ step[r] \notin Lenient
        /\ mem.state \in {"COMPLETED", "CANCELLED"}
     \/ pc[r] = "asked" /\ mem.state \notin {"RUNNING", "WAITING"}
  /\ Ends(r)
  /\ UNCHANGED <<row, tickets, mem, ledger, limits>>

Ask(r) ==
  /\ pc[r] = "asking"
  /\ tickets' = [tickets EXCEPT ![step[r]] = Append(@, "PENDING")]
  /\ Goto(r, "asked")
  /\ UNCHANGED <<row, mem, writes, step, tracked, original, ledger, limits>>

\* Mutation: the runner goes on without waiting.
WaitSkipped(r) ==
  /\ pc[r] = "asked" /\ mem.state \in {"RUNNING", "WAITING"}
  /\ RecordStep(r, "advancing", [mem EXCEPT !.index = @ + 1])
  /\ UNCHANGED <<row, tickets, step, tracked, original, ledger, limits>>

Wait(r) ==
  /\ pc[r] = "asked" /\ mem.state \in {"RUNNING", "WAITING"}
  /\ RecordStep(r, "parking", [mem EXCEPT !.state = "WAITING"])
  /\ UNCHANGED <<row, tickets, step, tracked, original, ledger, limits>>

\* The last write of a runner: WAITING, FAILED or COMPLETED.
Settled(r) ==
  /\ pc[r] \in {"parking", "closing", "completing"} /\ Commit(r)
  /\ IF pc[r] = "completing" THEN Acknowledged(r) ELSE UNCHANGED mem
  /\ Ends(r)
  /\ UNCHANGED <<tickets, ledger, limits>>

-----------------------------------------------------------------------------
(* User calls.                                                             *)

Up == pc[Boot] = "idle"

\* get_instance_durable reads through to the row.
Known == IF mem.state = "NONE" THEN row ELSE mem

\* submit_decision commits the decision (module Approval); the call goes on.
Decide(c, g, n, verdict) ==
  /\ Up /\ pc[c] = "idle"
  /\ tickets[g][n] = "PENDING"
  /\ tickets' = [tickets EXCEPT ![g][n] = verdict]
  /\ Goto(c, IF verdict = "APPROVED" THEN "approved" ELSE "refused")
  /\ UNCHANGED <<row, mem, writes, step, tracked, original, ledger, limits>>

\* _advance_workflow_after_approval counts the gate's step as done, whatever
\* the state.
StepOver(c) ==
  /\ pc[c] = "approved"
  /\ Update(c, "stepping", [Known EXCEPT !.index = @ + 1])
  /\ UNCHANGED <<row, tickets, step, tracked, original, ledger, limits>>

\* resume_workflow up to the read of the definition.
Resuming(c, m) == /\ m.state \in Active
                  /\ mem' = [m EXCEPT !.state = IF @ = "WAITING"
                                                THEN "APPROVED" ELSE @]
                  /\ Goto(c, "resolving")
                  /\ Written(c)
                  /\ UNCHANGED <<step, tracked, original>>

SteppedOver(c) ==
  /\ pc[c] = "stepping" /\ Commit(c)
  /\ LET m == [mem EXCEPT !.version = buf[c].version + 1]
     IN IF m.state \in Active THEN Resuming(c, m) ELSE mem' = m /\ Ends(c)
  /\ UNCHANGED <<tickets, ledger, limits>>

ResumeByHand(c) ==
  /\ Up /\ pc[c] = "idle" /\ resumes < MaxResumes
  /\ Resuming(c, Known)
  /\ resumes' = resumes + 1
  /\ UNCHANGED <<row, tickets, ledger, crashes>>

Resolved(c) ==
  /\ pc[c] = "resolving"
  /\ Update(c, "resuming", mem)
  /\ UNCHANGED <<row, tickets, step, tracked, original, ledger, limits>>

\* The write is done and the steps are run by a new task.
Resumed(t) ==
  /\ pc[t] \in {"resuming", "reviving"} /\ Commit(t) /\ Acknowledged(t)
  /\ \E r \in Runner : /\ Spawn(r)
                       /\ pc' = [pc EXCEPT ![t] = "idle", ![r] = "top"]
  /\ Written(t)
  /\ UNCHANGED <<tickets, step, ledger, limits>>

\* Mutation: the rejection does not ask the state machine.
RefuseAlways(c) ==
  /\ pc[c] = "refused"
  /\ Update(c, "refusing", [Known EXCEPT !.state = "FAILED"])
  /\ UNCHANGED <<row, tickets, step, tracked, original, ledger, limits>>

Refuse(c) ==
  /\ pc[c] = "refused"
  /\ IF Known.state \in Active \cup {"FAILED"}
     THEN /\ Update(c, "refusing", [Known EXCEPT !.state = "FAILED"])
          /\ UNCHANGED <<step, tracked, original>>
     ELSE mem' = Known /\ Ends(c)
  /\ UNCHANGED <<row, tickets, ledger, limits>>

Refused(t) ==
  /\ pc[t] = "refusing" /\ Commit(t)
  /\ Unwind(t, [mem EXCEPT !.version = buf[t].version + 1])
  /\ UNCHANGED <<tickets, ran, limits>>

\* cancel_workflow stops the tracked runner at its await, where a pending
\* transaction has or has not been committed.
StopTracked(committed) ==
  IF tracked # NoTask /\ committed
  THEN \/ /\ pc[tracked] \in Recording \cup Updating /\ Commit(tracked)
          /\ UNCHANGED tickets
       \/ /\ pc[tracked] = "asking"
          /\ tickets' = [tickets EXCEPT ![step[tracked]] = Append(@, "PENDING")]
          /\ UNCHANGED row
  ELSE ~committed /\ UNCHANGED <<row, tickets>>

Cancel(c) ==
  /\ Up /\ pc[c] = "idle" /\ Known.state \in Active
  /\ \E committed \in BOOLEAN : StopTracked(committed)
  /\ mem' = [Known EXCEPT !.state = "CANCELLED"]
  /\ pc' = [t \in Task |-> IF t = c THEN "cancelling"
                           ELSE IF t = tracked THEN "idle" ELSE pc[t]]
  /\ buf' = [t \in Task |->
               IF t = c THEN [state |-> "CANCELLED", version |-> Known.version]
               ELSE IF t = tracked THEN Empty ELSE buf[t]]
  /\ queue' = Append(Without(tracked), c)
  /\ step' = [t \in Task |-> IF t = tracked THEN 0 ELSE step[t]]
  /\ tracked' = NoTask
  /\ original' = IF original = tracked THEN NoTask ELSE original
  /\ UNCHANGED <<ledger, limits>>

Cancelled(c) ==
  /\ pc[c] = "cancelling" /\ Commit(c) /\ Acknowledged(c)
  /\ Ends(c)
  /\ UNCHANGED <<tickets, ledger, limits>>

\* The client's timeout cuts a call at its await; a pending write has or has
\* not been committed.
CutOff(c) ==
  /\ "timeout" \in Failures /\ pc[c] # "idle"
  /\ \/ UNCHANGED row
     \/ pc[c] \in Updating /\ Commit(c)
  /\ Ends(c)
  /\ UNCHANGED <<tickets, mem, ledger, limits>>

-----------------------------------------------------------------------------
(* A crash, or a stop, of the process and the next start.                  *)

ProcessCrash ==
  /\ crashes < MaxCrashes
  /\ crashes' = crashes + 1
  /\ mem' = Unloaded
  /\ pc' = [t \in Task |-> IF t = Boot THEN "down" ELSE "idle"]
  /\ buf' = [t \in Task |-> Empty] /\ queue' = <<>>
  /\ step' = [t \in Task |-> 0]
  /\ tracked' = NoTask /\ original' = NoTask
  /\ UNCHANGED <<row, tickets, ledger, resumes>>

\* hydrate_and_recover, before the process serves calls: what the boot finds
\* at the gate a row waits at.
Latest == IF row.at \notin Gates THEN "NO GATE"
          ELSE IF tickets[row.at] = <<>> THEN "NO TICKET"
          ELSE tickets[row.at][Len(tickets[row.at])]

Hydrate ==
  /\ pc[Boot] = "down"
  /\ \/ /\ row.state \in Terminal
        /\ Goto(Boot, "idle")
        /\ UNCHANGED <<tickets, mem, writes, tracked, original>>
     \/ /\ row.state \in {"RUNNING", "APPROVED"}
        /\ mem' = row
        /\ \E r \in Runner :
             Spawn(r) /\ pc' = [pc EXCEPT ![Boot] = "idle", ![r] = "top"]
        /\ UNCHANGED <<tickets, writes>>
     \/ /\ row.state = "WAITING"
        /\ Latest \in {"NO GATE", "NO TICKET", "PENDING"}
        /\ mem' = row
        /\ tickets' = IF Latest = "NO TICKET"
                      THEN [tickets EXCEPT ![row.at] = <<"PENDING">>]
                      ELSE tickets
        /\ Goto(Boot, "idle")
        /\ UNCHANGED <<writes, tracked, original>>
     \/ /\ row.state = "WAITING" /\ Latest = "APPROVED"
        /\ Update(Boot, "reviving", [row EXCEPT !.index = @ + 1])
        /\ UNCHANGED <<tickets, tracked, original>>
     \/ /\ row.state = "WAITING" /\ Latest = "REJECTED"
        /\ Update(Boot, "refusing", [row EXCEPT !.state = "FAILED"])
        /\ UNCHANGED <<tickets, tracked, original>>
  /\ UNCHANGED <<row, step, ledger, limits>>

\* The boot cannot read the definition of an instance: it fails the instance,
\* with its compensation stack as it is.
FailAtBoot ==
  /\ "storage" \in Failures
  /\ pc[Boot] = "down" /\ row.state \in Active
  /\ Update(Boot, "abandoning", [row EXCEPT !.state = "FAILED"])
  /\ UNCHANGED <<row, tickets, step, tracked, original, ledger, limits>>

FailedAtBoot ==
  /\ pc[Boot] = "abandoning" /\ Commit(Boot) /\ Acknowledged(Boot)
  /\ Ends(Boot)
  /\ UNCHANGED <<tickets, ledger, limits>>

-----------------------------------------------------------------------------
RunnerStep(r) ==
  \/ TakeStep(r) \/ Reenter(r) \/ Reentered(r) \/ Complete(r) \/ Leave(r)
  \/ Work(r) \/ Advanced(r) \/ WorkFails(r) \/ Forbidden(r)
  \/ Ask(r) \/ Wait(r) \/ Settled(r)

CallStep(c) ==
  \/ \E g \in Gates : \E n \in DOMAIN tickets[g] :
       \E verdict \in {"APPROVED", "REJECTED"} : Decide(c, g, n, verdict)
  \/ StepOver(c) \/ SteppedOver(c) \/ ResumeByHand(c) \/ Resolved(c)
  \/ Refuse(c) \/ Cancel(c) \/ Cancelled(c) \/ CutOff(c)

InstanceNext ==
  \/ \E r \in Runner : RunnerStep(r)
  \/ \E c \in Caller : CallStep(c)
  \/ \E t \in Task : Compensate(t) \/ Conflict(t) \/ Raises(t)
  \/ \E t \in Caller \cup {Boot} : Resumed(t) \/ Refused(t)
  \/ ProcessCrash \/ Hydrate \/ FailAtBoot \/ FailedAtBoot

InstanceSpec == InstanceInit /\ [][InstanceNext]_instanceVars

-----------------------------------------------------------------------------
(* Properties.                                                             *)

Approved(g) == \E n \in DOMAIN tickets[g] : tickets[g][n] = "APPROVED"

\* Neither restarted nor resumed by hand: only decisions, cancellations, cut
\* calls and failing writes disturb the run.
Calm == crashes = 0 /\ resumes = 0

\* A row that reached a terminal state keeps it: no write issued before, no
\* second runner, no late decision and no restart brings the instance back
\* (hydrate_and_recover: "Terminal states ... are NEVER resurrected").
TerminalFinal ==
  [][row.state \in Terminal => row'.state = row.state]_instanceVars

\* A step was begun only when every earlier step was, once, and every earlier
\* gate was approved.
InOrder == \A j \in Step : ran[j] > 0 =>
             \A i \in 1..(j - 1) : ran[i] = 1 /\ (i \in Gates => Approved(i))
RepeatsBounded == \A j \in Step : ran[j] <= 1 + crashes + resumes

\* Without a restart or a manual resume the steps are begun in their order, a
\* gate is passed only once it is approved, and no step is begun twice, though
\* a decision may start a second runner while the first has not yet left. A
\* restart or a manual resume repeats a step once at most.
StepsInOrder == (Calm => InOrder) /\ RepeatsBounded

\* Without a restart, a compensation is dispatched only for an instance that
\* has failed, and at most once for each time its step was run, however many
\* tasks unwind the stack.
CompensatedOnFailure ==
  crashes = 0 => \A i \in Undoable : undone[i] > 0 =>
                   mem.state = "FAILED" /\ undone[i] <= ran[i]

=============================================================================
