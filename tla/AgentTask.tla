----------------------------- MODULE AgentTask -----------------------------
(***************************************************************************)
(* One agent task: the reasoning loop of engines/ai/agent.py, the stored   *)
(* row it shares with other coroutines (ai/persistence.py), and the        *)
(* engine's handlers around it (ai/engine.py).  The model proposes batches *)
(* of tool calls, numbered 1, 2, ...  A batch in Gated waits for a ticket  *)
(* of the workflow engine; a batch in Browser is a browser call, carried   *)
(* out by a desktop application (browser_bridge.rs) under a grant, while   *)
(* the task is paused once more.                                           *)
(*                                                                         *)
(* A coroutine stands at one of its awaits.  What it computes between the  *)
(* model's answer and its next write is local, so that the answer and the  *)
(* write are one action.                                                   *)
(***************************************************************************)
EXTENDS Naturals, Sequences, FiniteSets

CONSTANTS MaxBatches,   \* bound: the batches the model proposes
          Gated,        \* the batches that need approval
          Browser,      \* the batches that are a browser call
          Slots,        \* agent slots of the tenant
          Desk,         \* desktop tasks that handle a notice of a grant
          MaxGrants,    \* bound: the grants minted
          MaxCalls,     \* bound: the client's calls to resume the task
          MaxArrivals,  \* bound: other agent runs that take a slot
          MaxFaults     \* bound: crashes, timeouts, raised errors, lost answers

Batch == 1..MaxBatches
Grant == 1..MaxGrants

ASSUME AgentAssumption ==
  /\ MaxBatches \in Nat /\ MaxGrants \in Nat /\ Slots \in Nat
  /\ MaxCalls \in Nat /\ MaxArrivals \in Nat /\ MaxFaults \in Nat
  /\ Gated \subseteq Batch /\ Browser \subseteq Batch

\* Who runs the loop: the client's call, the background resume of a browser
\* outcome, the handler of a decision on the ticket of a batch.
Call == <<"call", 0>>
Resume == <<"browser", 0>>
Handler(p) == <<"event", p>>
Actor == {Call, Resume} \cup {Handler(p) : p \in Gated}

VARIABLES
  row,       \* the stored task
  asked,     \* how many batches the model has proposed
  ticket,    \* of each gated batch
  events,    \* the decisions still to be delivered
  tokens,    \* the batches whose resume token verifies
  co,        \* the coroutines
  others,    \* slots other agent runs of the tenant hold
  arrivals,  \* how many of those there were
  calls,     \* how often the client has called to resume
  grants,    \* the grants minted, with what the model was told of each
  desk,      \* the desktop's tasks
  sweep,     \* the engine's sweep of browser pauses
  ran,       \* how often each batch took effect
  byToken,   \* does the client resume the task with its token?
  faults

ticketVars == <<ticket, events, tokens>>
slotVars == <<others, arrivals, calls>>
worldVars == <<grants, desk, ran>>
agentVars == <<row, asked, ticketVars, co, slotVars, worldVars, sweep, byToken, faults>>

Paused == {"PAUSED_FOR_APPROVAL", "PAUSED_FOR_BROWSER_EXECUTION"}
Ended == {"COMPLETED", "FAILED", "CANCELLED"}
Status == {"ABSENT", "RUNNING", "RESUMING"} \cup Paused \cup Ended
Outcome == {"none", "yes", "no", "unknown"}

Idle == [pc |-> "idle", ver |-> 0, batch |-> 0]
Resting == [pc |-> "idle", grant |-> 0, ver |-> 0, outcome |-> "none"]
Waiting == [pc |-> "idle", ver |-> 0, claimed |-> FALSE]

AgentInit ==
  /\ row = [status |-> "ABSENT", ver |-> 0, batch |-> 0, grant |-> 0,
            claimed |-> FALSE, report |-> "none"]
  /\ asked = 0
  /\ ticket = [p \in Gated |-> "none"]
  /\ events = {} /\ tokens = {}
  /\ co = [a \in Actor |-> Idle]
  /\ others = 0 /\ arrivals = 0 /\ calls = 0
  /\ grants = <<>>
  /\ desk = [h \in Desk |-> Resting]
  /\ sweep = Waiting
  /\ ran = [p \in Batch |-> 0]
  /\ byToken \in BOOLEAN
  /\ faults = 0

----------------------------------------------------------------------------
(* The parts the actions share. *)

Fault == faults < MaxFaults /\ faults' = faults + 1

\* The coroutines that run the reasoning loop.
Looping(a) == co[a].pc \in {"step", "turn", "pausing", "batch"}
\* The coroutines that hold one of the tenant's slots.
Holding == {a \in Actor : co[a].pc \in {"reread", "claim"} \/ Looping(a)}
SlotFree == Cardinality(Holding) + others < Slots

Moves(a, pc, ver, batch) == co' = [co EXCEPT ![a] = [pc |-> pc, ver |-> ver, batch |-> batch]]
Goes(a, pc) == co' = [co EXCEPT ![a].pc = pc]
Stops(a) == co' = [co EXCEPT ![a] = Idle]

\* update_task: the record of the loop over whatever the row says.
Writes(a, status, batch, grant) ==
  row' = [status |-> status, ver |-> co[a].ver + 1, batch |-> batch, grant |-> grant,
          claimed |-> FALSE, report |-> "none"]

\* cancel_task: of any state but the final ones.
Cancels ==
  row' = IF row.status \in {"RUNNING", "RESUMING"} \cup Paused
         THEN [row EXCEPT !.status = "CANCELLED", !.ver = @ + 1] ELSE row

\* compare_and_update_task: the row is as it was read.
Unchanged(ver) == row.status = "PAUSED_FOR_BROWSER_EXECUTION" /\ row.ver = ver

\* _schedule_browser_resume: one background task at a time.
Schedules == co' = IF co[Resume] = Idle THEN [co EXCEPT ![Resume].pc = "scheduled"] ELSE co

----------------------------------------------------------------------------
(* The loop. *)

StartTask ==
  /\ row.status = "ABSENT" /\ co[Call] = Idle /\ SlotFree
  /\ row' = [row EXCEPT !.status = "RUNNING", !.ver = 1]
  /\ Moves(Call, "step", 1, 0)
  /\ UNCHANGED <<asked, ticketVars, slotVars, worldVars, sweep, byToken, faults>>

\* The context of the next step is assembled, then the model is called.
BuildContext(a) ==
  /\ co[a].pc = "step"
  /\ Moves(a, "turn", co[a].ver, 0)
  /\ UNCHANGED <<row, asked, ticketVars, slotVars, worldVars, sweep, byToken, faults>>

\* The model answers without a call, or a limit, a timeout, a tool that is not
\* allowed or a repeated batch ends the task.
EndTask(a) ==
  /\ co[a].pc = "turn"
  /\ \E s \in {"COMPLETED", "FAILED"} : Writes(a, s, 0, 0)
  /\ Stops(a)
  /\ UNCHANGED <<asked, ticketVars, slotVars, worldVars, sweep, byToken, faults>>

\* The policy stages the ticket before the pause is stored; an error of the
\* ticket's creation is logged and the task pauses without one.
Ask(a) ==
  /\ co[a].pc = "turn" /\ asked + 1 \in Gated
  /\ asked' = asked + 1
  /\ Moves(a, "pausing", co[a].ver, asked + 1)
  /\ \/ ticket' = [ticket EXCEPT ![asked + 1] = "PENDING"] /\ UNCHANGED faults
     \/ Fault /\ UNCHANGED ticket
  /\ UNCHANGED <<row, events, tokens, slotVars, worldVars, sweep, byToken>>

PauseForApproval(a) ==
  /\ co[a].pc = "pausing"
  /\ Writes(a, "PAUSED_FOR_APPROVAL", co[a].batch, 0)
  /\ tokens' = tokens \cup {co[a].batch}
  /\ Stops(a)
  /\ UNCHANGED <<asked, ticket, events, slotVars, worldVars, sweep, byToken, faults>>

Propose(a) ==
  /\ co[a].pc = "turn" /\ asked + 1 \in Batch \ Gated
  /\ asked' = asked + 1
  /\ Moves(a, "batch", co[a].ver, asked + 1)
  /\ UNCHANGED <<row, ticketVars, slotVars, worldVars, sweep, byToken, faults>>

InvokeTools(a) ==
  /\ co[a].pc = "batch"
  /\ IF co[a].batch \in Browser THEN UNCHANGED ran  \* no grant was minted
     ELSE ran' = [ran EXCEPT ![co[a].batch] = @ + 1]
  /\ Goes(a, "step")
  /\ UNCHANGED <<row, asked, ticketVars, slotVars, grants, desk, sweep, byToken, faults>>

PauseForBrowserExecution(a) ==
  /\ co[a].pc = "batch" /\ co[a].batch \in Browser /\ Len(grants) < MaxGrants
  /\ grants' = Append(grants, [batch |-> co[a].batch, age |-> "fresh",
                               redeemed |-> FALSE, done |-> FALSE, told |-> "none"])
  /\ Writes(a, "PAUSED_FOR_BROWSER_EXECUTION", co[a].batch, Len(grants) + 1)
  /\ Stops(a)
  /\ UNCHANGED <<asked, ticketVars, slotVars, desk, ran, sweep, byToken, faults>>

\* A raised error, or the timeout of the request the coroutine runs in, ends it
\* and leaves the row as it is; a write that was under way may have committed
\* (then its action came first).
Fail(a) ==
  /\ co[a] # Idle /\ Fault
  /\ Stops(a)
  /\ UNCHANGED <<row, asked, ticketVars, slotVars, worldVars, sweep, byToken>>

----------------------------------------------------------------------------
(* Approval: the ticket, the event of its decision, the resumption. *)

Decide(p) ==
  /\ ticket[p] = "PENDING"
  /\ \E d \in {"APPROVED", "REFUSED"} : ticket' = [ticket EXCEPT ![p] = d]  \* or expired
  /\ events' = events \cup {p}
  /\ UNCHANGED <<row, asked, tokens, co, slotVars, worldVars, sweep, byToken, faults>>

\* Batches of one kind have one fingerprint.
SameAction(p, q) == p \in Browser <=> q \in Browser

\* Mutation: the decision is not looked at.
ReactionToAny(p) ==
  CASE row.status # "PAUSED_FOR_APPROVAL" -> "idle"
    [] row.status = "PAUSED_FOR_APPROVAL" /\ ~ SameAction(p, row.batch) -> "cancel"
    [] OTHER -> IF SlotFree /\ row.batch \in tokens THEN "reread" ELSE "idle"

\* What a decision on batch p makes of the row it finds.
Reaction(p) ==
  CASE row.status # "PAUSED_FOR_APPROVAL" -> "idle"
    [] row.status = "PAUSED_FOR_APPROVAL"
       /\ (ticket[p] # "APPROVED" \/ ~ SameAction(p, row.batch)) -> "cancel"
    [] OTHER -> IF SlotFree /\ row.batch \in tokens THEN "reread" ELSE "idle"

\* A token may turn out to have expired: it lives shorter than the ticket.
OnApprovalDecided(p) ==
  /\ p \in events
  /\ events' = events \ {p}
  /\ \/ Reaction(p) = "idle" /\ UNCHANGED <<co, tokens>>
     \/ /\ Reaction(p) # "idle"
        /\ Moves(Handler(p), Reaction(p), 0, row.batch) /\ UNCHANGED tokens
     \/ Reaction(p) = "reread" /\ tokens' = tokens \ {row.batch} /\ UNCHANGED co
  /\ UNCHANGED <<row, asked, ticket, slotVars, worldVars, sweep, byToken, faults>>

CancelRefused(p) ==
  /\ co[Handler(p)].pc = "cancel"
  /\ Cancels
  /\ Stops(Handler(p))
  /\ UNCHANGED <<asked, ticketVars, slotVars, worldVars, sweep, byToken, faults>>

\* resume_agent, with the token of a pause.
ResumeByToken(p) ==
  /\ byToken /\ co[Call] = Idle /\ SlotFree /\ p \in tokens
  /\ calls < MaxCalls /\ calls' = calls + 1
  /\ Moves(Call, "reread", 0, p)
  /\ UNCHANGED <<row, asked, ticketVars, others, arrivals, worldVars, sweep, byToken, faults>>

\* The pause an actor resumes from.
Expected(a) == IF a = Resume THEN "PAUSED_FOR_BROWSER_EXECUTION" ELSE "PAUSED_FOR_APPROVAL"

Reread(a) ==
  /\ co[a].pc = "reread"
  /\ IF row.status = Expected(a) /\ (a = Resume => row.report # "none")
     THEN Moves(a, "claim", row.ver, co[a].batch)
     ELSE Stops(a)
  /\ UNCHANGED <<row, asked, ticketVars, slotVars, worldVars, sweep, byToken, faults>>

\* Mutation: the row is taken without comparing it with what was read.
ClaimByUpdate(a) ==
  /\ co[a].pc = "claim"
  /\ row' = [row EXCEPT !.status = "RESUMING", !.ver = co[a].ver + 1]
  /\ Moves(a, IF a = Resume THEN "step" ELSE "batch", co[a].ver + 1, co[a].batch)
  /\ UNCHANGED <<asked, ticketVars, slotVars, worldVars, sweep, byToken, faults>>

\* claim_task_for_resumption; a browser outcome is told to the model, an approved
\* batch is still to be carried out.
Claim(a) ==
  /\ co[a].pc = "claim"
  /\ IF row.status = Expected(a) /\ row.ver = co[a].ver
     THEN /\ row' = [row EXCEPT !.status = "RESUMING", !.ver = @ + 1]
          /\ IF a = Resume
             THEN /\ grants' = [grants EXCEPT ![row.grant].told = row.report]
                  /\ Moves(a, "step", row.ver + 1, row.batch)
             ELSE Moves(a, "batch", row.ver + 1, co[a].batch) /\ UNCHANGED grants
     ELSE Stops(a) /\ UNCHANGED <<row, grants>>
  /\ UNCHANGED <<asked, ticketVars, slotVars, desk, ran, sweep, byToken, faults>>

\* The user cancels; the engine hands no cancellation token to a running loop.
CancelTask ==
  /\ row.status \notin Ended \cup {"ABSENT"}
  /\ Cancels
  /\ UNCHANGED <<asked, ticketVars, co, slotVars, worldVars, sweep, byToken, faults>>

----------------------------------------------------------------------------
(* A browser call: claimed, executed and reported by a desktop. *)

\* now >= grant_expires_at, and later now > report_deadline.  The age of a grant
\* that neither the row nor a desktop holds is not read again.
GrantAges(g) ==
  /\ g \in DOMAIN grants /\ grants[g].age # "over"
  /\ g \in {row.grant} \cup {desk[h].grant : h \in Desk}
  /\ grants' = [grants EXCEPT ![g].age = IF @ = "fresh" THEN "lapsed" ELSE "over"]
  /\ UNCHANGED <<row, asked, ticketVars, co, slotVars, desk, ran, sweep, byToken, faults>>

LoadBrowserPause(h) ==
  /\ desk[h].pc = "idle"
  /\ row.status = "PAUSED_FOR_BROWSER_EXECUTION"
  /\ ~ row.claimed /\ grants[row.grant].age = "fresh"
  /\ desk' = [desk EXCEPT ![h] = [pc |-> "claim", grant |-> row.grant, ver |-> row.ver,
                                  outcome |-> "none"]]
  /\ UNCHANGED <<row, asked, ticketVars, co, slotVars, grants, ran, sweep, byToken, faults>>

\* The answer may be lost: the grant is then claimed and nobody holds it.
ClaimBrowserExecution(h) ==
  /\ desk[h].pc = "claim"
  /\ IF Unchanged(desk[h].ver)
     THEN /\ row' = [row EXCEPT !.claimed = TRUE, !.ver = @ + 1]
          /\ \/ desk' = [desk EXCEPT ![h].pc = "act"] /\ UNCHANGED faults
             \/ Fault /\ desk' = [desk EXCEPT ![h] = Resting]
     ELSE desk' = [desk EXCEPT ![h] = Resting] /\ UNCHANGED <<row, faults>>
  /\ UNCHANGED <<asked, ticketVars, co, slotVars, grants, ran, sweep, byToken>>

\* The desktop executes a grant that is fresh, and at most once.
ExecuteGrantedAction(h) ==
  LET g == desk[h].grant
      usable == grants[g].age = "fresh" /\ ~ grants[g].redeemed
  IN  /\ desk[h].pc = "act"
      /\ \E done \in BOOLEAN, o \in {"yes", "no", "unknown"} :
           /\ o = "yes" => done
           /\ o = "no" => ~ done
           /\ ~ usable => o = "no"
           /\ desk' = [desk EXCEPT ![h] = [@ EXCEPT !.pc = "report", !.outcome = o]]
           /\ grants' = [grants EXCEPT ![g].redeemed = @ \/ usable, ![g].done = @ \/ done]
           /\ ran' = IF done THEN [ran EXCEPT ![grants[g].batch] = @ + 1] ELSE ran
      /\ UNCHANGED <<row, asked, ticketVars, co, slotVars, sweep, byToken, faults>>

\* The report is refused unless the task is still paused on this very grant,
\* claimed, without an outcome, before the deadline.
ReportExecution(h) ==
  /\ desk[h].pc = "report"
  /\ desk' = IF /\ row.status = "PAUSED_FOR_BROWSER_EXECUTION"
                /\ row.grant = desk[h].grant /\ row.claimed
                /\ row.report = "none" /\ grants[row.grant].age # "over"
             THEN [desk EXCEPT ![h].pc = "record", ![h].ver = row.ver]
             ELSE [desk EXCEPT ![h] = Resting]
  /\ UNCHANGED <<row, asked, ticketVars, co, slotVars, grants, ran, sweep, byToken, faults>>

\* Mutation: the record that was read is written back with the outcome.
RecordByUpdate(h) ==
  /\ desk[h].pc = "record"
  /\ row' = [row EXCEPT !.status = "PAUSED_FOR_BROWSER_EXECUTION",
                        !.report = desk[h].outcome, !.ver = desk[h].ver + 1]
  /\ Schedules
  /\ desk' = [desk EXCEPT ![h] = Resting]
  /\ UNCHANGED <<asked, ticketVars, slotVars, grants, ran, sweep, byToken, faults>>

\* A desktop whose answer is lost sends the same outcome again.
RecordReport(h) ==
  /\ desk[h].pc = "record"
  /\ IF Unchanged(desk[h].ver)
     THEN row' = [row EXCEPT !.report = desk[h].outcome, !.ver = @ + 1] /\ Schedules
     ELSE UNCHANGED <<row, co>>
  /\ \/ desk' = [desk EXCEPT ![h] = Resting] /\ UNCHANGED faults
     \/ Fault /\ desk' = [desk EXCEPT ![h].pc = "report"]
  /\ UNCHANGED <<asked, ticketVars, slotVars, grants, ran, sweep, byToken>>

\* No transport attempt of the report succeeds, or the desktop ends.
ReportUndelivered(h) ==
  /\ desk[h].pc \in {"act", "report"} /\ Fault
  /\ desk' = [desk EXCEPT ![h] = Resting]
  /\ UNCHANGED <<row, asked, ticketVars, co, slotVars, grants, ran, sweep, byToken>>

\* At the tenant's cap the outcome waits in the row for the next sweep.
ResumeBrowserTask ==
  /\ co[Resume].pc = "scheduled"
  /\ IF row.report # "none" /\ SlotFree THEN Goes(Resume, "reread") ELSE Stops(Resume)
  /\ UNCHANGED <<row, asked, ticketVars, slotVars, worldVars, sweep, byToken, faults>>

\* Until when the paused call can still complete.
PastDeadline == grants[row.grant].age \in IF row.claimed THEN {"over"} ELSE {"lapsed", "over"}

\* Mutation: a recorded outcome that found no slot is not taken up again.
SweepUnreported ==
  /\ sweep = Waiting /\ row.status = "PAUSED_FOR_BROWSER_EXECUTION"
  /\ row.report = "none" /\ PastDeadline
  /\ sweep' = [pc |-> "expire", ver |-> row.ver, claimed |-> row.claimed]
  /\ UNCHANGED <<row, asked, ticketVars, co, slotVars, worldVars, byToken, faults>>

SweepBrowserExecutions ==
  /\ sweep = Waiting /\ row.status = "PAUSED_FOR_BROWSER_EXECUTION"
  /\ \/ row.report # "none" /\ Schedules /\ UNCHANGED sweep
     \/ /\ row.report = "none" /\ PastDeadline
        /\ sweep' = [pc |-> "expire", ver |-> row.ver, claimed |-> row.claimed]
        /\ UNCHANGED co
  /\ UNCHANGED <<row, asked, ticketVars, slotVars, worldVars, byToken, faults>>

\* Mutation: whatever was not reported was not executed.
NeverExecuted(claimed) == "no"

\* What the trace says of a call that was expired.
ExpiredResult(claimed) == IF claimed THEN "unknown" ELSE "no"

\* Mutation: the final record over whatever the row says by now.
ExpireByUpdate ==
  /\ sweep.pc = "expire"
  /\ row' = [row EXCEPT !.status = "CANCELLED", !.ver = sweep.ver + 1]
  /\ grants' = [grants EXCEPT ![Len(grants)].told = ExpiredResult(sweep.claimed)]
  /\ sweep' = Waiting
  /\ UNCHANGED <<asked, ticketVars, co, slotVars, desk, ran, byToken, faults>>

ExpireBrowserExecution ==
  /\ sweep.pc = "expire"
  /\ IF Unchanged(sweep.ver)
     THEN /\ row' = [row EXCEPT !.status = "CANCELLED", !.ver = @ + 1]
          /\ grants' = [grants EXCEPT ![row.grant].told = ExpiredResult(sweep.claimed)]
     ELSE UNCHANGED <<row, grants>>
  /\ sweep' = Waiting
  /\ UNCHANGED <<asked, ticketVars, co, slotVars, desk, ran, byToken, faults>>

----------------------------------------------------------------------------
(* The surroundings. *)

OtherArrives ==
  /\ SlotFree /\ arrivals < MaxArrivals
  /\ others' = others + 1 /\ arrivals' = arrivals + 1
  /\ UNCHANGED <<calls, row, asked, ticketVars, co, worldVars, sweep, byToken, faults>>

OtherEnds ==
  /\ others > 0
  /\ others' = others - 1
  /\ UNCHANGED <<row, asked, ticketVars, co, arrivals, calls, worldVars, sweep, byToken, faults>>

\* The secret that signs the tokens is drawn when the process starts; a desktop
\* outlives the backend, and sends a report that was under way again.
Crash ==
  /\ Fault
  /\ co' = [a \in Actor |-> Idle]
  /\ events' = {} /\ tokens' = {}
  /\ others' = 0
  /\ sweep' = Waiting
  /\ desk' = [h \in Desk |-> CASE desk[h].pc = "claim" -> Resting
                               [] desk[h].pc = "record" -> [desk[h] EXCEPT !.pc = "report"]
                               [] OTHER -> desk[h]]
  /\ UNCHANGED <<row, asked, ticket, arrivals, calls, grants, ran, byToken>>

Runs(a) == BuildContext(a) \/ EndTask(a) \/ Ask(a) \/ PauseForApproval(a) \/ Propose(a)
           \/ InvokeTools(a) \/ PauseForBrowserExecution(a) \/ Reread(a) \/ Claim(a)

Resumes(p) == OnApprovalDecided(p) \/ CancelRefused(p)

Carries(h) == LoadBrowserPause(h) \/ ClaimBrowserExecution(h) \/ ExecuteGrantedAction(h)
              \/ ReportExecution(h) \/ RecordReport(h) \/ ReportUndelivered(h)

AgentNext ==
  \/ StartTask \/ CancelTask \/ Crash
  \/ \E a \in Actor : Runs(a) \/ Fail(a)
  \/ \E p \in Gated : Decide(p) \/ Resumes(p) \/ ResumeByToken(p)
  \/ \E h \in Desk : Carries(h)
  \/ \E g \in Grant : GrantAges(g)
  \/ ResumeBrowserTask \/ SweepBrowserExecutions \/ ExpireBrowserExecution
  \/ OtherArrives \/ OtherEnds

AgentSpec == AgentInit /\ [][AgentNext]_agentVars

\* A coroutine of the event loop is resumed, a loop's await is bounded by its
\* timeout, time passes, the sweep daemon comes round, other runs end.  Nothing
\* is assumed of users, approvers and desktops.
AgentFairness ==
  /\ \A a \in Actor : WF_agentVars(Runs(a))
  /\ \A p \in Gated : WF_agentVars(Resumes(p))
  /\ \A g \in Grant : WF_agentVars(GrantAges(g))
  /\ WF_agentVars(ResumeBrowserTask) /\ WF_agentVars(SweepBrowserExecutions)
  /\ WF_agentVars(ExpireBrowserExecution) /\ WF_agentVars(OtherEnds)

FairAgentSpec == AgentSpec /\ AgentFairness

----------------------------------------------------------------------------
(* Properties. *)

\* Types, and the pause the row describes: a task that is paused for the browser
\* names a grant that was minted for its batch.
AgentTypeOK ==
  /\ row \in [status : Status, ver : Nat, batch : 0..MaxBatches, grant : 0..MaxGrants,
              claimed : BOOLEAN, report : Outcome]
  /\ row.status = "PAUSED_FOR_APPROVAL" => row.batch \in Gated
  /\ row.status = "PAUSED_FOR_BROWSER_EXECUTION" =>
       /\ row.grant \in DOMAIN grants
       /\ grants[row.grant].batch = row.batch
  /\ asked \in 0..MaxBatches
  /\ ticket \in [Gated -> {"none", "PENDING", "APPROVED", "REFUSED"}]
  /\ events \subseteq Gated /\ tokens \subseteq Gated
  /\ co \in [Actor -> [pc : {"idle", "scheduled", "reread", "claim", "batch", "step",
                             "turn", "pausing", "cancel"},
                       ver : Nat, batch : 0..MaxBatches]]
  /\ others \in Nat /\ arrivals \in Nat /\ calls \in Nat /\ faults \in Nat
  /\ grants \in Seq([batch : Browser, age : {"fresh", "lapsed", "over"}, redeemed : BOOLEAN,
                     done : BOOLEAN, told : Outcome])
  /\ Len(grants) <= MaxGrants
  /\ desk \in [Desk -> [pc : {"idle", "claim", "act", "report", "record"},
                        grant : 0..MaxGrants, ver : Nat, outcome : Outcome]]
  /\ sweep \in [pc : {"idle", "expire"}, ver : Nat, claimed : BOOLEAN]
  /\ ran \in [Batch -> Nat]
  /\ byToken \in BOOLEAN

\* However client, decisions, reports and the sweep race, one coroutine at a time
\* runs the task's loop, and none while the stored task is paused or ended.
OneLoop ==
  /\ \A a, b \in Actor : Looping(a) /\ Looping(b) => a = b
  /\ \A a \in Actor : Looping(a) => row.status \in {"RUNNING", "RESUMING", "CANCELLED"}

\* What the trace tells the model of a browser call is true for good: "no" of a
\* call that never took effect, "yes" of one that did.
ToldIsTrue ==
  \A g \in DOMAIN grants : /\ grants[g].told = "no" => ~ grants[g].done
                           /\ grants[g].told = "yes" => grants[g].done

\* A recorded outcome is the one the model is told: neither the sweep nor a second
\* report puts another in its place.
OutcomeKept ==
  [][row.status = "PAUSED_FOR_BROWSER_EXECUTION" /\ row.report # "none"
     => /\ grants'[row.grant].told \in {"none", row.report}
        /\ row'.grant = row.grant => row'.report = row.report]_agentVars

\* What the model is told of a browser call is what happened, and what was
\* recorded of it first.
ToldAsRecorded == []ToldIsTrue /\ OutcomeKept

\* Once no loop is running a cancelled task stays cancelled: no resumption, claim,
\* report or expiry that was under way brings it back.
CancelHolds ==
  [][row.status = "CANCELLED" /\ (\A a \in Actor : ~ Looping(a))
     => row'.status = "CANCELLED"]_agentVars

\* A task that is paused for the browser does not stay so, whether or not a
\* desktop ever answers.
BrowserPauseEnds ==
  row.status = "PAUSED_FOR_BROWSER_EXECUTION" ~> row.status # "PAUSED_FOR_BROWSER_EXECUTION"

----------------------------------------------------------------------------
(* What the approver is promised, unless the client resumes by token. *)

Held(p) == \/ row.status = "PAUSED_FOR_APPROVAL" /\ row.batch = p
           \/ \E a \in Actor : co[a].pc = "pausing" /\ co[a].batch = p

Released(p) ==
  \/ row.status = "PAUSED_FOR_BROWSER_EXECUTION" /\ row.batch = p
  \/ \E a \in Actor : co[a].pc \in {"batch", "step"} /\ co[a].batch = p
  \/ \E h \in Desk : /\ desk[h].pc \in {"act", "report", "record"}
                     /\ grants[desk[h].grant].batch = p

Phase(p) == CASE byToken \/ p > asked -> "none"
              [] ~ byToken /\ p <= asked /\ Held(p) -> "held"
              [] ~ byToken /\ p <= asked /\ ~ Held(p) /\ Released(p) -> "released"
              [] OTHER -> "closed"

Governed == INSTANCE GovernedEffect WITH
  Request <- Batch, Gated <- Gated, Bound <- 1,
  phase <- [p \in Batch |-> Phase(p)],
  consent <- IF byToken THEN {} ELSE {p \in Gated : ticket[p] = "APPROVED"},
  effects <- [p \in Batch |-> IF byToken THEN 0 ELSE ran[p]]

\* A gated batch takes effect after its ticket was approved, once, and never again
\* when its pause was cancelled, expired or passed.
GatedPromise == Governed!Spec
=============================================================================
