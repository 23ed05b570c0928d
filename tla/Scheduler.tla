------------------------------ MODULE Scheduler ------------------------------
(***************************************************************************)
(* The durable workflow scheduler: DurableWorkflowScheduler                *)
(* (workflow/scheduler.py) over SchedulerStore (workflow/persistence.py).  *)
(*                                                                         *)
(* A ticker is the poller of one process: hydrate_and_recover_schedules at *)
(* boot, then the background loop, one tick after the other. Several       *)
(* processes share the table, and users pause, cancel, resume and trigger  *)
(* schedules meanwhile. Every transaction is one step; between two         *)
(* transactions of a call anything may happen. A schedule is a fixed       *)
(* instant (ONCE) or a recurrence (INTERVAL, CRON: the next run computed   *)
(* from the present lies ahead). A tick's LIMIT exceeds the schedules here.*)
(***************************************************************************)
EXTENDS Naturals, FiniteSets

CONSTANTS Schedule,    \* the schedules
          Ticker,      \* the scheduler processes
          MaxRuns,     \* max_runs of the recurrent schedules
          Faults,      \* "crash"; a transaction ("storage"), a "start" raises
          MaxFaults,   \* bound on the faults of a behaviour
          MaxFires,    \* bound on the instants that pass, per schedule
          MaxCalls     \* bound on the resumes and triggers of a behaviour

ASSUME SchedulerAssumption ==
  /\ IsFiniteSet(Ticker)
  /\ MaxRuns \in Nat \ {0}
  /\ Faults \subseteq {"crash", "storage", "start"}
  /\ MaxFaults \in Nat /\ MaxFires \in Nat /\ MaxCalls \in Nat

VARIABLES
  status,  \* workflow_schedules.status, "ABSENT" before the INSERT
  once,    \* the schedules of type ONCE
  runs,    \* run_count
  armed,   \* the schedules whose next_run_at is not NULL
  due,     \* the schedules whose (next) instant has passed
  stale,   \* the claimed rows whose lease is over
  at,      \* where a ticker is
  looping, \* the tickers whose background loop was started
  past,    \* its candidates whose instant is still the one that had passed
  todo,    \* the candidates a ticker has still to claim
  mine,    \* the claims of a ticker that it has not yet dealt with
  begun,   \* the claim whose instance it started and has to record
  seen,    \* the run_count of a claim as it was claimed
  call,    \* where a user's resume or trigger of a schedule is
  read,    \* the status and run_count that call has read
  started, \* history: the instances the tickers started
  lost,    \* history: those among them never recorded
  overrun, \* history: the schedules whose lease ended under a live claim
  quiet,   \* history: paused or cancelled with no call and no tick under way
  byHand,  \* history: the schedules that were resumed or triggered
  faults, fires, calls

rows == <<status, once, runs, armed, due, stale>>
work == <<at, looping, todo, mine, begun, seen>>
ticks == <<past, work>>
users == <<call, read>>
history == <<started, lost, overrun, quiet, byHand>>
bounds == <<faults, fires, calls>>
vars == <<rows, ticks, users, history, bounds>>

Status == {"ACTIVE", "TRIGGERING", "PAUSED", "DISABLED", "COMPLETED"}

TypeOK == /\ status \in [Schedule -> Status \cup {"ABSENT"}]
          /\ once \subseteq Schedule /\ runs \in [Schedule -> Nat]
          /\ armed \subseteq Schedule /\ due \subseteq Schedule
          /\ stale \subseteq Schedule
          /\ at \in [Ticker -> {"off", "idle", "selecting", "claiming"}]
          /\ looping \subseteq Ticker
          /\ past \in [Ticker -> SUBSET Schedule]
          /\ todo \in [Ticker -> SUBSET Schedule]
          /\ mine \in [Ticker -> SUBSET Schedule]
          /\ begun \in [Ticker -> SUBSET Schedule]
          /\ seen \in [Ticker -> [Schedule -> Nat]]
          /\ call \in [Schedule ->
                         {"none", "resuming", "triggering", "started"}]
          /\ read \in [Schedule -> [status : Status, runs : Nat]]
          /\ started \in [Schedule -> Nat] /\ lost \in [Schedule -> Nat]
          /\ overrun \subseteq Schedule /\ quiet \subseteq Schedule
          /\ byHand \subseteq Schedule
          /\ faults \in 0..MaxFaults /\ calls \in 0..MaxCalls
          /\ fires \in [Schedule -> 0..MaxFires]

Nobody == [status |-> "ACTIVE", runs |-> 0]

Init == /\ status = [s \in Schedule |-> "ABSENT"]
        /\ once = {} /\ runs = [s \in Schedule |-> 0]
        /\ armed = {} /\ due = {} /\ stale = {}
        /\ at = [t \in Ticker |-> "idle"] /\ looping = {}
        /\ past = [t \in Ticker |-> {}]
        /\ todo = [t \in Ticker |-> {}]
        /\ mine = [t \in Ticker |-> {}]
        /\ begun = [t \in Ticker |-> {}]
        /\ seen = [t \in Ticker |-> [s \in Schedule |-> 0]]
        /\ call = [s \in Schedule |-> "none"]
        /\ read = [s \in Schedule |-> Nobody]
        /\ started = [s \in Schedule |-> 0]
        /\ lost = [s \in Schedule |-> 0]
        /\ overrun = {} /\ quiet = {} /\ byHand = {}
        /\ faults = 0 /\ calls = 0 /\ fires = [s \in Schedule |-> 0]

-----------------------------------------------------------------------------
(* The row.                                                                *)

\* Every write renews updated_at, and with it the lease of a claim.
Write(s, st) == status' = [status EXCEPT ![s] = st] /\ stale' = stale \ {s}

\* _compute_next_run: the fixed instant again, or a new one that lies ahead.
Rearm(s) == /\ armed' = armed \cup {s}
            /\ IF s \in once
               THEN UNCHANGED <<due, past>>
               ELSE /\ due' = due \ {s}
                    /\ past' = [t \in Ticker |-> past[t] \ {s}]

Disarm(s) == armed' = armed \ {s} /\ UNCHANGED <<due, past>>

Create(s) ==
  /\ status[s] = "ABSENT"
  /\ Write(s, "ACTIVE") /\ Rearm(s)
  /\ once' \in {once, once \cup {s}}
  /\ UNCHANGED <<runs, work, users, history, bounds>>

\* The instant of the next run, or the one of a ONCE schedule, passes.
InstantPasses(s) ==
  /\ s \in (armed \cup once) \ due /\ fires[s] < MaxFires
  /\ due' = due \cup {s}
  /\ fires' = [fires EXCEPT ![s] = @ + 1]
  /\ UNCHANGED <<status, once, runs, armed, stale, ticks, users, history, faults,
                 calls>>

Held(s) == {t \in Ticker : s \in mine[t]}

\* A claim grows SCHEDULE_CLAIM_LEASE_SECONDS old. Most often its ticker is
\* dead or has given it up by then, but no start renews the lease of the rest.
LeaseExpires(s) ==
  /\ status[s] = "TRIGGERING" /\ s \notin stale
  /\ stale' = stale \cup {s}
  /\ overrun' = IF Held(s) = {} THEN overrun ELSE overrun \cup {s}
  /\ UNCHANGED <<status, once, runs, armed, due, ticks, users, started, lost,
                 quiet, byHand, bounds>>

-----------------------------------------------------------------------------
(* tick and hydrate_and_recover_schedules.                                 *)

Fault(f) == f \in Faults /\ faults < MaxFaults /\ faults' = faults + 1

\* Mutation: the reset ignores the lease.
AbandonedAtOnce == {s \in Schedule : status[s] = "TRIGGERING"}

\* Mutation: no reset.
NothingAbandoned == {}

Abandoned == {s \in stale : status[s] = "TRIGGERING"}

ResetTo == "ACTIVE"

\* claim_due_schedules first resets the abandoned claims ...
StartTick(t) ==
  /\ at[t] = "idle"
  /\ at' = [at EXCEPT ![t] = "selecting"]
  /\ status' = [s \in Schedule |-> IF s \in Abandoned THEN ResetTo
                                                      ELSE status[s]]
  /\ stale' = stale \ Abandoned
  /\ past' = [past EXCEPT ![t] = due]
  /\ UNCHANGED <<once, runs, armed, due, looping, todo, mine, begun, seen, users,
                 history, bounds>>

\* The row is active and its instant had passed as the tick began.
Claimable(t, s) == status[s] = "ACTIVE" /\ s \in armed \cap past[t]

\* ... selects the candidates ...
Select(t) ==
  /\ at[t] = "selecting"
  /\ at' = [at EXCEPT ![t] = "claiming"]
  /\ todo' = [todo EXCEPT ![t] = {s \in Schedule : Claimable(t, s)}]
  /\ past' = [past EXCEPT ![t] = {s \in Schedule : Claimable(t, s)}]
  /\ UNCHANGED <<rows, looping, mine, begun, seen, users, history, bounds>>

\* Mutation: the claim looks at the instant only.
WinsIfDue(t, s) == s \in armed \cap past[t]

\* The compare-and-swap: the row is still active and due.
Wins(t, s) == Claimable(t, s)

\* ... and claims them one by one; one that another caller took is dropped.
Claim(t, s) ==
  /\ s \in todo[t]
  /\ todo' = [todo EXCEPT ![t] = @ \ {s}]
  /\ \/ /\ Wins(t, s)
        /\ Write(s, "TRIGGERING")
        /\ mine' = [mine EXCEPT ![t] = @ \cup {s}]
        /\ seen' = [seen EXCEPT ![t][s] = runs[s]]
        /\ UNCHANGED past
     \/ /\ ~Wins(t, s)
        /\ past' = [past EXCEPT ![t] = @ \ {s}]
        /\ UNCHANGED <<status, stale, mine, seen>>
  /\ UNCHANGED <<once, runs, armed, due, at, looping, begun, users, started,
                 lost, overrun, quiet, byHand, bounds>>

Drop(t, s) == /\ mine' = [mine EXCEPT ![t] = @ \ {s}]
              /\ seen' = [seen EXCEPT ![t][s] = 0]
              /\ begun' = [begun EXCEPT ![t] = {}]

\* Then the claims are executed, one after the other.
Executing(t) == at[t] = "claiming" /\ todo[t] = {}

StartInstance(t, s) ==
  /\ Executing(t) /\ begun[t] = {} /\ s \in mine[t]
  /\ begun' = [begun EXCEPT ![t] = {s}]
  /\ started' = [started EXCEPT ![s] = @ + 1]
  /\ UNCHANGED <<rows, at, looping, past, todo, mine, seen, users, lost,
                 overrun, quiet, byHand, bounds>>

\* start_workflow raises: the row stays claimed until its lease is over.
StartRaises(t, s) ==
  /\ Executing(t) /\ begun[t] = {} /\ s \in mine[t] /\ Fault("start")
  /\ Drop(t, s)
  /\ UNCHANGED <<rows, at, looping, past, todo, users, history, fires, calls>>

LastRun(s, n) == s \in once \/ n >= MaxRuns

\* record_schedule_tick, whatever the row says by now.
Record(t, s) ==
  /\ s \in begun[t]
  /\ runs' = [runs EXCEPT ![s] = seen[t][s] + 1]
  /\ \/ LastRun(s, seen[t][s] + 1) /\ Write(s, "COMPLETED") /\ Disarm(s)
     \/ ~LastRun(s, seen[t][s] + 1) /\ Write(s, "ACTIVE") /\ Rearm(s)
  /\ Drop(t, s)
  /\ UNCHANGED <<once, at, looping, todo, users, started, lost, overrun, quiet, byHand,
                 bounds>>

\* The record raises: the instance runs and the row stays claimed.
RecordRaises(t, s) ==
  /\ s \in begun[t] /\ Fault("storage")
  /\ lost' = [lost EXCEPT ![s] = @ + 1]
  /\ Drop(t, s)
  /\ UNCHANGED <<rows, at, looping, past, todo, users, started, overrun, quiet, byHand,
                 fires, calls>>

\* The boot's tick is over and the loop starts, or the loop's next tick is due.
EndTick(t) ==
  /\ Executing(t) /\ mine[t] = {}
  /\ at' = [at EXCEPT ![t] = "idle"]
  /\ looping' = looping \cup {t}
  /\ past' = [past EXCEPT ![t] = {}]
  /\ UNCHANGED <<rows, todo, mine, begun, seen, users, history, bounds>>

Forget(t) == /\ past' = [past EXCEPT ![t] = {}]
             /\ todo' = [todo EXCEPT ![t] = {}]
             /\ mine' = [mine EXCEPT ![t] = {}]
             /\ begun' = [begun EXCEPT ![t] = {}]
             /\ seen' = [seen EXCEPT ![t] = [s \in Schedule |-> 0]]

\* A transaction of claim_due_schedules raises. The claims already made are
\* forgotten; a loop goes on, but start() skips the loop if it is the boot's.
TickRaises(t) ==
  /\ at[t] = "selecting" \/ (at[t] = "claiming" /\ todo[t] # {})
  /\ Fault("storage")
  /\ at' = [at EXCEPT ![t] = IF t \in looping THEN "idle" ELSE "off"]
  /\ Forget(t)
  /\ UNCHANGED <<rows, looping, users, history, fires, calls>>

\* The process dies and boots again.
Crash(t) ==
  /\ Fault("crash")
  /\ at' = [at EXCEPT ![t] = "idle"] /\ looping' = looping \ {t}
  /\ Forget(t)
  /\ lost' = [s \in Schedule |-> IF s \in begun[t] THEN lost[s] + 1
                                                   ELSE lost[s]]
  /\ UNCHANGED <<rows, users, started, overrun, quiet, byHand, fires, calls>>

-----------------------------------------------------------------------------
(* The users' calls.                                                       *)

\* pause_schedule and cancel_schedule write their status over any other.
Stop(s, st) ==
  /\ status[s] # "ABSENT"
  /\ Write(s, st)
  /\ quiet' = IF Held(s) = {} /\ call[s] = "none" THEN quiet \cup {s}
                                                  ELSE quiet
  /\ UNCHANGED <<once, runs, armed, due, ticks, users, started, lost, overrun,
                 byHand, bounds>>

\* resume_schedule and trigger_schedule begin by reading the row.
ReadRow(s, next) ==
  /\ status[s] # "ABSENT" /\ call[s] = "none" /\ calls < MaxCalls
  /\ call' = [call EXCEPT ![s] = next]
  /\ read' = [read EXCEPT ![s] = [status |-> status[s], runs |-> runs[s]]]
  /\ quiet' = quiet \ {s} /\ byHand' = byHand \cup {s}
  /\ calls' = calls + 1
  /\ UNCHANGED <<rows, ticks, started, lost, overrun, faults, fires>>

BeginResume(s) == ReadRow(s, "resuming")
BeginTrigger(s) == ReadRow(s, "triggering")

Return(s) == /\ call' = [call EXCEPT ![s] = "none"]
             /\ read' = [read EXCEPT ![s] = Nobody]

\* save_schedule writes every column as it was read, but active and re-armed.
Resume(s) ==
  /\ call[s] = "resuming"
  /\ Write(s, "ACTIVE") /\ Rearm(s)
  /\ runs' = [runs EXCEPT ![s] = read[s].runs]
  /\ Return(s)
  /\ UNCHANGED <<once, work, started, lost, overrun, quiet, byHand, bounds>>

TriggerStart(s) ==
  /\ call[s] = "triggering"
  /\ call' = [call EXCEPT ![s] = "started"]
  /\ UNCHANGED <<rows, ticks, read, history, bounds>>

\* The trigger's record: the count and the status as they were read.
TriggerRecord(s) ==
  /\ call[s] = "started"
  /\ runs' = [runs EXCEPT ![s] = read[s].runs + 1]
  /\ \/ /\ s \notin once /\ read[s].runs + 1 >= MaxRuns
        /\ Write(s, "COMPLETED") /\ Disarm(s)
     \/ /\ s \in once \/ read[s].runs + 1 < MaxRuns
        /\ Write(s, read[s].status)
        /\ IF read[s].status = "COMPLETED" THEN Disarm(s) ELSE Rearm(s)
  /\ Return(s)
  /\ UNCHANGED <<once, work, started, lost, overrun, quiet, byHand, bounds>>

\* A call raises, times out or dies with its process between two transactions.
CallFails(s) ==
  /\ call[s] # "none"
  /\ Return(s)
  /\ UNCHANGED <<rows, ticks, history, bounds>>

-----------------------------------------------------------------------------
TickStep(t) == \/ StartTick(t) \/ Select(t) \/ EndTick(t)
               \/ \E s \in Schedule : \/ Claim(t, s) \/ StartInstance(t, s)
                                      \/ Record(t, s)

Fails(t) == \/ TickRaises(t) \/ Crash(t)
            \/ \E s \in Schedule : StartRaises(t, s) \/ RecordRaises(t, s)

UserStep(s) == \/ \E st \in {"PAUSED", "DISABLED"} : Stop(s, st)
               \/ BeginResume(s) \/ Resume(s)
               \/ BeginTrigger(s) \/ TriggerStart(s) \/ TriggerRecord(s)
               \/ CallFails(s)

Next == \/ \E t \in Ticker : TickStep(t) \/ Fails(t)
        \/ \E s \in Schedule : \/ Create(s) \/ InstantPasses(s)
                               \/ LeaseExpires(s) \/ UserStep(s)

Spec == Init /\ [][Next]_vars

\* The pollers run, and time goes on for the leases; nobody has to create,
\* stop, resume or trigger a schedule, and a fault need not happen.
FairSpec == /\ Spec
            /\ \A t \in Ticker : WF_vars(TickStep(t))
            /\ \A s \in Schedule : WF_vars(LeaseExpires(s))

-----------------------------------------------------------------------------
(* Safety.                                                                 *)

\* claim_due_schedules, "so two concurrent scheduler ticks can never both start
\* a workflow instance for the same due fire": no two live tickers hold a claim
\* of one instant, whatever users stop, resume and trigger meanwhile, unless the
\* lease of a claim ended under its ticker. A ONCE schedule keeps its instant,
\* so there it takes that nobody re-arms it.
OneHolder ==
  \A s \in Schedule \ overrun :
    (s \in once => s \notin byHand)
      => Cardinality({t \in Held(s) : s \in past[t]}) <= 1

\* run_count of a schedule that nobody resumes or triggers, and no claim of
\* which outlived its lease under a live ticker, is right: the
\* instances started for it are those counted, those about to be and those
\* whose record a crash or a storage error lost. Pauses and cancellations in
\* the middle of a tick, abandoned claims and their reclaim change no count.
RunsAccounted ==
  \A s \in Schedule \ (byHand \cup overrun) :
    started[s] = runs[s] + lost[s]
                   + Cardinality({t \in Ticker : s \in begun[t]})

\* A pause or cancellation that finds no tick and no other call at work on the
\* schedule holds: no ticker ever claims the schedule again, not even one that
\* selected it before, until a user resumes or triggers it.
StopHolds == \A s \in quiet : Held(s) = {}

-----------------------------------------------------------------------------
(* Liveness.                                                               *)

\* An active schedule whose instant has passed is served: it is started and the
\* start recorded, or a user moves it on or stops it. A crash, a start that
\* raises and a lost record only delay that, and so does a claim that outlives
\* its lease, as long as some poller is left: a storage error at boot costs a
\* process its poller.
FireServed ==
  \A s \in Schedule :
    status[s] \in {"ACTIVE", "TRIGGERING"} /\ s \in armed \cap due
      ~> \/ s \notin armed \cap due
         \/ status[s] \in {"PAUSED", "DISABLED", "COMPLETED"}
         \/ \A t \in Ticker : at[t] = "off"
=============================================================================
