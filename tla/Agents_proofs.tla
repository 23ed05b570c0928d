--------------------------- MODULE Agents_proofs ----------------------------
(***************************************************************************)
(* Theorems about the two kinds of agent: AgentTask, for any batches,      *)
(* slots, desktops and bounds, and DesktopGateway, for any agents,         *)
(* tenants, commands, sessions and faults.                                 *)
(*                                                                         *)
(* The argument for the gateway: a command is in one place, its session's  *)
(* queue, the worker's queue or what was run (Located), and each of these, *)
(* for one agent, is in the order of acceptance, the earlier places after  *)
(* the later ones (InOrder). Only the stream an agent is on adds to the    *)
(* worker's queue, and what the worker holds when the stream changes was   *)
(* accepted before anything of the next one. A revoked session pushes      *)
(* nothing, so what it accepts stays with it (Stranded).                   *)
(*                                                                         *)
(* The argument for the promise to the approver: while the ticket of a     *)
(* batch is open, decided or about to be acted on, its task stands before  *)
(* the batch (Halts), so that what the handler claims is the pause of that *)
(* batch and no other; and what waits, or is about to be carried out, was  *)
(* not carried out before (Untouched, OneGrant).                           *)
(***************************************************************************)
EXTENDS AgentTask, DesktopGateway, SequenceTheorems, TLAPS

-----------------------------------------------------------------------------
(* The agent task *)

Row == [status : Status, ver : Nat, batch : 0..MaxBatches, grant : 0..MaxGrants,
        claimed : BOOLEAN, report : Outcome]
Pc == {"idle", "scheduled", "reread", "claim", "batch", "step", "turn", "pausing",
       "cancel"}
Co == [pc : Pc, ver : Nat, batch : 0..MaxBatches]
GrantRecord == [batch : Browser, age : {"fresh", "lapsed", "over"}, redeemed : BOOLEAN,
                done : BOOLEAN, told : Outcome]
DeskTask == [pc : {"idle", "claim", "act", "report", "record"}, grant : 0..MaxGrants,
             ver : Nat, outcome : Outcome]

(* What a step makes of one coroutine; the others stay where they are.     *)
LEMMA Moving ==
  ASSUME co \in [Actor -> Co], NEW a \in Actor, NEW pc \in Pc, NEW ver \in Nat,
         NEW batch \in 0..MaxBatches, Moves(a, pc, ver, batch)
  PROVE  /\ co' \in [Actor -> Co]
         /\ co'[a] = [pc |-> pc, ver |-> ver, batch |-> batch]
         /\ \A b \in Actor : b # a => co'[b] = co[b]
BY DEF Moves, Co

LEMMA Going ==
  ASSUME co \in [Actor -> Co], NEW a \in Actor, NEW pc \in Pc, Goes(a, pc)
  PROVE  /\ co' \in [Actor -> Co]
         /\ co'[a] = [co[a] EXCEPT !.pc = pc]
         /\ \A b \in Actor : b # a => co'[b] = co[b]
BY DEF Goes, Co

LEMMA Stopping ==
  ASSUME co \in [Actor -> Co], NEW a \in Actor, Stops(a), AgentAssumption
  PROVE  /\ co' \in [Actor -> Co]
         /\ co'[a] = Idle
         /\ \A b \in Actor : b # a => co'[b] = co[b]
BY DEF Stops, Co, Idle, Pc, AgentAssumption

(* A sequence keeps its type when an entry that exists is replaced.        *)
LEMMA Entry ==
  ASSUME NEW S, NEW s \in Seq(S), NEW i, NEW e, i \in DOMAIN s => e \in S
  PROVE  /\ [s EXCEPT ![i] = e] \in Seq(S)
         /\ Len([s EXCEPT ![i] = e]) = Len(s)
         /\ DOMAIN [s EXCEPT ![i] = e] = DOMAIN s
<1>0. DOMAIN s = 1..Len(s) /\ s \in [1..Len(s) -> S]
  BY LenProperties
<1>1. CASE i \in 1..Len(s)
  BY <1>0, <1>1, ExceptSeq, LenProperties
<1>2. CASE i \notin 1..Len(s)
  <2>1. [s EXCEPT ![i] = e] = s
    BY <1>0, <1>2
  <2>2. QED
    BY <2>1
<1>3. QED
  BY <1>1, <1>2

WorldTyped == /\ grants \in Seq(GrantRecord) /\ Len(grants) <= MaxGrants
              /\ desk \in [Desk -> DeskTask]
              /\ sweep \in [pc : {"idle", "expire"}, ver : Nat, claimed : BOOLEAN]
              /\ ran \in [Batch -> Nat]
CoTyped == co \in [Actor -> Co]
RowTyped == row \in Row
Small == /\ asked \in 0..MaxBatches
         /\ ticket \in [Gated -> {"none", "PENDING", "APPROVED", "REFUSED"}]
         /\ events \subseteq Gated /\ tokens \subseteq Gated
         /\ others \in Nat /\ arrivals \in Nat /\ calls \in Nat /\ faults \in Nat
         /\ byToken \in BOOLEAN
PausingGated == \A a \in Actor : co[a].pc = "pausing" => co[a].batch \in Gated

(* The coroutines keep their type.                                         *)
LEMMA CoStep ==
  ASSUME CoTyped, RowTyped, Small, AgentNext PROVE CoTyped'
<1> USE AgentAssumption
<1>0. /\ Call \in Actor /\ Resume \in Actor /\ \A p \in Gated : Handler(p) \in Actor
      /\ Idle \in Co /\ Gated \subseteq 0..MaxBatches
  BY DEF Actor, Idle, Co, Pc, AgentAssumption, Batch
<1>1. CASE StartTask
  <2>1. Moves(Call, "step", 1, 0) /\ "step" \in Pc /\ 1 \in Nat /\ 0 \in 0..MaxBatches
    BY <1>1 DEF StartTask, Pc, AgentAssumption
  <2>2. QED
    BY ONLY <1>0, <2>1, Moving, CoTyped DEF CoTyped
<1>2. CASE Crash
  BY <1>0, <1>2 DEF Crash, CoTyped
<1>3. ASSUME NEW a \in Actor, Runs(a) PROVE CoTyped'
  <2>0. /\ co[a] \in Co /\ co[a].ver \in Nat /\ co[a].batch \in 0..MaxBatches
        /\ row.ver \in Nat /\ row.batch \in 0..MaxBatches /\ 0 \in 0..MaxBatches
    BY DEF CoTyped, Co, RowTyped, Row, AgentAssumption
  <2>1. CASE BuildContext(a)
    BY <2>0, <2>1, Moving DEF BuildContext, CoTyped, Pc
  <2>2. CASE Ask(a)
    BY <1>0, <2>0, <2>2, Moving DEF Ask, CoTyped, Pc
  <2>3. CASE Propose(a)
    <3>1. asked + 1 \in 0..MaxBatches
      BY <2>3 DEF Propose, Batch
    <3>2. QED
      BY <3>1, <2>0, <2>3, Moving DEF Propose, CoTyped, Pc
  <2>4. CASE InvokeTools(a)
    BY <2>4, Going DEF InvokeTools, CoTyped, Pc
  <2>5. CASE EndTask(a) \/ PauseForApproval(a) \/ PauseForBrowserExecution(a)
    BY <2>5, Stopping DEF EndTask, PauseForApproval, PauseForBrowserExecution, CoTyped
  <2>6. CASE Reread(a)
    BY <2>0, <2>6, Moving, Stopping DEF Reread, CoTyped, Pc
  <2>7. CASE Claim(a)
    <3>1. row.ver + 1 \in Nat
      BY <2>0
    <3>2. QED
      BY <3>1, <2>0, <2>7, Moving, Stopping DEF Claim, CoTyped, Pc
  <2>8. QED
    BY <1>3, <2>1, <2>2, <2>3, <2>4, <2>5, <2>6, <2>7 DEF Runs
<1>4. ASSUME NEW a \in Actor, Fail(a) PROVE CoTyped'
  BY <1>4, Stopping DEF Fail, CoTyped
<1>5. ASSUME NEW p \in Gated, Resumes(p) PROVE CoTyped'
  <2>0. /\ row.batch \in 0..MaxBatches /\ Reaction(p) \in {"idle", "cancel", "reread"}
    BY DEF RowTyped, Row, Reaction
  <2>1. CASE OnApprovalDecided(p)
    <3>1. \/ co' = co
          \/ Moves(Handler(p), Reaction(p), 0, row.batch)
      BY <2>1 DEF OnApprovalDecided
    <3>2. Reaction(p) \in Pc /\ 0 \in Nat
      BY <2>0 DEF Pc
    <3>3. CASE Moves(Handler(p), Reaction(p), 0, row.batch)
      BY ONLY <1>0, <2>0, <3>2, <3>3, Moving, CoTyped DEF CoTyped
    <3>4. QED
      BY <3>1, <3>3 DEF CoTyped
  <2>2. CASE CancelRefused(p)
    BY <1>0, <2>2, Stopping DEF CancelRefused, CoTyped
  <2>3. QED
    BY <1>5, <2>1, <2>2 DEF Resumes
<1>6. ASSUME NEW p \in Gated, ResumeByToken(p) PROVE CoTyped'
  BY <1>0, <1>6, Moving DEF ResumeByToken, CoTyped, Pc
<1>7. CASE ResumeBrowserTask
  BY <1>0, <1>7, Going, Stopping DEF ResumeBrowserTask, CoTyped, Pc
<1>8. ASSUME Schedules PROVE CoTyped'
  BY <1>0, <1>8 DEF Schedules, CoTyped, Co, Pc
<1>9. CASE SweepBrowserExecutions
  BY <1>8, <1>9, SMTT(30) DEF SweepBrowserExecutions, CoTyped
<1>10. ASSUME NEW h \in Desk, Carries(h) PROVE CoTyped'
  BY <1>8, <1>10 DEF Carries, LoadBrowserPause, ClaimBrowserExecution,
     ExecuteGrantedAction, ReportExecution, RecordReport, ReportUndelivered, CoTyped
<1>11. CASE CancelTask \/ ExpireBrowserExecution \/ OtherArrives \/ OtherEnds
  BY <1>11 DEF CancelTask, ExpireBrowserExecution, OtherArrives, OtherEnds, CoTyped
<1>12. ASSUME NEW p \in Gated, Decide(p) PROVE CoTyped'
  BY <1>12 DEF Decide, CoTyped
<1>13. ASSUME NEW g \in Grant, GrantAges(g) PROVE CoTyped'
  BY <1>13 DEF GrantAges, CoTyped
<1>14. QED
  BY <1>1, <1>2, <1>3, <1>4, <1>5, <1>6, <1>7, <1>9, <1>10, <1>11, <1>12, <1>13
  DEF AgentNext

(* The stored task and the small variables keep their types.               *)
LEMMA RowStep ==
  ASSUME CoTyped, RowTyped, WorldTyped, AgentNext PROVE RowTyped'
<1> USE AgentAssumption
<1>0. /\ row \in Row /\ row.ver \in Nat /\ row.ver + 1 \in Nat /\ 0 \in 0..MaxBatches
      /\ 0 \in 0..MaxGrants /\ 1 \in Nat
  BY DEF RowTyped, Row, AgentAssumption
<1>1. ASSUME Cancels PROVE RowTyped'
  BY <1>0, <1>1 DEF Cancels, RowTyped, Row, Status, Ended
<1>2. ASSUME NEW a \in Actor, NEW s \in Status, NEW b \in 0..MaxBatches, NEW g \in 0..MaxGrants,
             Writes(a, s, b, g)
      PROVE RowTyped'
  BY <1>2 DEF Writes, RowTyped, Row, CoTyped, Co, Outcome
<1>3. ASSUME NEW a \in Actor, Runs(a) PROVE RowTyped'
  <2>0. co[a].batch \in 0..MaxBatches
    BY DEF CoTyped, Co
  <2>1. CASE EndTask(a)
    BY <1>0, <1>2, <2>1 DEF EndTask, Status, Ended
  <2>2. CASE PauseForApproval(a)
    BY <1>0, <2>0, <1>2, <2>2 DEF PauseForApproval, Status, Paused
  <2>3. CASE PauseForBrowserExecution(a)
    <3>1. Len(grants) + 1 \in 0..MaxGrants
      BY <2>3, LenProperties DEF PauseForBrowserExecution, WorldTyped, AgentAssumption
    <3>2. QED
      BY <2>0, <1>2, <2>3, <3>1 DEF PauseForBrowserExecution, Status, Paused
  <2>4. CASE Claim(a)
    BY <1>0, <2>4, ZenonT(60) DEF Claim, RowTyped, Row, Status
  <2>5. QED
    BY <1>3, <2>1, <2>2, <2>3, <2>4
    DEF Runs, BuildContext, Ask, Propose, InvokeTools, Reread, RowTyped
<1>4. CASE StartTask
  BY <1>0, <1>4 DEF StartTask, RowTyped, Row, Status
<1>5. ASSUME NEW h \in Desk, Carries(h) PROVE RowTyped'
  <2>1. CASE ClaimBrowserExecution(h)
    BY <1>0, <2>1 DEF ClaimBrowserExecution, RowTyped, Row
  <2>2. CASE RecordReport(h)
    <3>1. desk[h].outcome \in Outcome
      BY DEF WorldTyped, DeskTask
    <3>2. QED
      BY <1>0, <2>2, <3>1 DEF RecordReport, RowTyped, Row
  <2>3. QED
    BY <1>5, <2>1, <2>2 DEF Carries, LoadBrowserPause, ExecuteGrantedAction,
       ReportExecution, ReportUndelivered, RowTyped
<1>6. ASSUME NEW p \in Gated, Resumes(p) PROVE RowTyped'
  BY <1>1, <1>6 DEF Resumes, OnApprovalDecided, CancelRefused, RowTyped
<1>7. CASE ExpireBrowserExecution
  BY <1>0, <1>7 DEF ExpireBrowserExecution, RowTyped, Row, Status, Ended
<1>8. CASE CancelTask
  BY <1>1, <1>8 DEF CancelTask
<1>9. QED
  BY <1>3, <1>4, <1>5, <1>6, <1>7, <1>8
  DEF AgentNext, Crash, Fail, Decide, ResumeByToken, GrantAges, ResumeBrowserTask,
      SweepBrowserExecutions, OtherArrives, OtherEnds, RowTyped

LEMMA SmallStep ==
  ASSUME CoTyped, RowTyped, Small, PausingGated, AgentNext PROVE Small'
<1> USE AgentAssumption
<1>1. ASSUME NEW a \in Actor, Runs(a) PROVE Small'
  <2>1. CASE Ask(a)
    <3>1. asked' \in 0..MaxBatches
      <4>1. asked' \in 1..MaxBatches
        BY <2>1 DEF Ask, AgentAssumption, Batch
      <4>2. QED
        BY <4>1
    <3>2. faults' \in Nat
      BY <2>1 DEF Ask, Small, Fault
    <3>3. ticket' \in [Gated -> {"none", "PENDING", "APPROVED", "REFUSED"}]
      BY <2>1 DEF Ask, Small
    <3>4. QED
      BY <2>1, <3>1, <3>2, <3>3 DEF Ask, Small, slotVars
  <2>2. CASE Propose(a)
    BY <2>2 DEF Propose, Small, ticketVars, slotVars, Batch
  <2>3. CASE PauseForApproval(a)
    BY <2>3 DEF PauseForApproval, Small, slotVars, PausingGated
  <2>4. QED
    BY <1>1, <2>1, <2>2, <2>3
    DEF Runs, BuildContext, EndTask, InvokeTools, PauseForBrowserExecution, Reread, Claim,
        Small, ticketVars, slotVars
<1>2. ASSUME NEW p \in Gated, Decide(p) \/ Resumes(p) \/ ResumeByToken(p) PROVE Small'
  BY <1>2 DEF Decide, Resumes, OnApprovalDecided, CancelRefused, ResumeByToken, Small,
              ticketVars, slotVars
<1>3. ASSUME NEW h \in Desk, Carries(h) PROVE Small'
  <2>1. UNCHANGED <<asked, ticketVars, slotVars, byToken>>
    BY <1>3, ZenonT(60) DEF Carries, LoadBrowserPause, ClaimBrowserExecution, ExecuteGrantedAction,
       ReportExecution, RecordReport, ReportUndelivered
  <2>2. UNCHANGED faults \/ faults' = faults + 1
    BY <1>3 DEF Carries, LoadBrowserPause, ClaimBrowserExecution, ExecuteGrantedAction,
       ReportExecution, RecordReport, ReportUndelivered, Fault
  <2>3. QED
    BY <2>1, <2>2, SMTT(30) DEF Small, ticketVars, slotVars
<1>4. QED
  BY <1>1, <1>2, <1>3
  DEF AgentNext, StartTask, CancelTask, Crash, Fail, GrantAges, ResumeBrowserTask,
      SweepBrowserExecutions, ExpireBrowserExecution, OtherArrives, OtherEnds,
      Small, ticketVars, slotVars, Fault

(* The entries of the grants that exist, and what an update does to one.   *)
LEMMA GrantTyped ==
  ASSUME WorldTyped, NEW g \in DOMAIN grants
  PROVE  g \in 1..Len(grants) /\ g \in 0..MaxGrants /\ grants[g] \in GrantRecord
<1>1. DOMAIN grants = 1..Len(grants) /\ Len(grants) \in Nat
  BY LenProperties DEF WorldTyped
<1>2. QED
  BY <1>1, ElementOfSeq, AgentAssumption DEF WorldTyped, AgentAssumption

(* Grants, desktop tasks, the sweep and the effects keep their types.      *)
LEMMA WorldStep ==
  ASSUME CoTyped, RowTyped, WorldTyped, AgentNext PROVE WorldTyped'
<1> USE AgentAssumption
<1>0. /\ DOMAIN grants = 1..Len(grants) /\ Len(grants) \in Nat
      /\ \A g \in DOMAIN grants : grants[g] \in GrantRecord
  BY LenProperties, GrantTyped DEF WorldTyped
<1>1. Resting \in DeskTask /\ Waiting \in [pc : {"idle", "expire"}, ver : Nat, claimed : BOOLEAN]
  <2>1. 0 \in 0..MaxGrants /\ 0 \in Nat /\ "none" \in Outcome
    BY DEF Outcome, AgentAssumption
  <2>2. Resting \in DeskTask
    BY <2>1 DEF Resting, DeskTask
  <2>3. Waiting \in [pc : {"idle", "expire"}, ver : Nat, claimed : BOOLEAN]
    BY SMTT(30) DEF Waiting
  <2>4. QED
    BY <2>2, <2>3
<1>2. grants' \in Seq(GrantRecord) /\ Len(grants') <= MaxGrants
  <2>1. ASSUME NEW i, NEW e, i \in DOMAIN grants => e \in GrantRecord,
               grants' = [grants EXCEPT ![i] = e]
        PROVE  grants' \in Seq(GrantRecord) /\ Len(grants') <= MaxGrants
    BY <2>1, Entry DEF WorldTyped
  <2>2. ASSUME NEW a \in Actor, PauseForBrowserExecution(a)
        PROVE  grants' \in Seq(GrantRecord) /\ Len(grants') <= MaxGrants
    <3>1. [batch |-> co[a].batch, age |-> "fresh", redeemed |-> FALSE, done |-> FALSE,
           told |-> "none"] \in GrantRecord
      BY <2>2 DEF PauseForBrowserExecution, GrantRecord, Outcome
    <3>2. QED
      BY <1>0, <2>2, <3>1, AppendProperties DEF PauseForBrowserExecution, WorldTyped, AgentAssumption
  <2>3. ASSUME NEW a \in Actor, Claim(a)
        PROVE  grants' \in Seq(GrantRecord) /\ Len(grants') <= MaxGrants
    <3>1. row.grant \in DOMAIN grants => [grants[row.grant] EXCEPT !.told = row.report] \in GrantRecord
      BY <1>0 DEF GrantRecord, RowTyped, Row
    <3>2. QED
      BY <2>1, <2>3, <3>1 DEF Claim, WorldTyped
  <2>4. CASE ExpireBrowserExecution
    <3>1. row.grant \in DOMAIN grants =>
            [grants[row.grant] EXCEPT !.told = ExpiredResult(sweep.claimed)] \in GrantRecord
      BY <1>0 DEF GrantRecord, ExpiredResult, Outcome
    <3>2. QED
      BY <2>1, <2>4, <3>1 DEF ExpireBrowserExecution, WorldTyped
  <2>5. ASSUME NEW g \in Grant, GrantAges(g)
        PROVE  grants' \in Seq(GrantRecord) /\ Len(grants') <= MaxGrants
    <3>1. [grants[g] EXCEPT !.age = IF @ = "fresh" THEN "lapsed" ELSE "over"] \in GrantRecord
      <4>1. grants[g] \in GrantRecord
        BY <1>0, <2>5 DEF GrantAges
      <4>2. QED
        BY <4>1 DEF GrantRecord
    <3>2. QED
      BY <2>1, <2>5, <3>1 DEF GrantAges
  <2>6. ASSUME NEW h \in Desk, ExecuteGrantedAction(h)
        PROVE  grants' \in Seq(GrantRecord) /\ Len(grants') <= MaxGrants
    <3> DEFINE g == desk[h].grant
               usable == grants[g].age = "fresh" /\ ~ grants[g].redeemed
    <3>1. PICK done \in BOOLEAN :
            grants' = [grants EXCEPT ![g].redeemed = @ \/ usable, ![g].done = @ \/ done]
      BY <2>6 DEF ExecuteGrantedAction
    <3>2. ASSUME g \in DOMAIN grants
          PROVE  [grants[g] EXCEPT !.redeemed = @ \/ usable, !.done = @ \/ done] \in GrantRecord
      <4>1. grants[g].redeemed \in BOOLEAN /\ grants[g].done \in BOOLEAN /\ grants[g] \in GrantRecord
        BY <1>0, <3>2 DEF GrantRecord
      <4>2. (grants[g].redeemed \/ usable) \in BOOLEAN /\ (grants[g].done \/ done) \in BOOLEAN
        OBVIOUS
      <4>3. QED
        BY <4>1, <4>2 DEF GrantRecord
    <3>3. grants' = [grants EXCEPT ![g] = [grants[g] EXCEPT !.redeemed = grants[g].redeemed \/ usable,
                                                          !.done = grants[g].done \/ done]]
      BY <1>0, <3>1, Zenon DEF WorldTyped
    <3>4. QED
      BY <2>1, <3>2, <3>3
  <2>7. QED
    BY <2>2, <2>3, <2>4, <2>5, <2>6
    DEF AgentNext, Runs, Carries, Resumes, StartTask, CancelTask, Crash, BuildContext, EndTask, Ask,
        PauseForApproval, Propose, InvokeTools, Reread, Fail, Decide, OnApprovalDecided,
        CancelRefused, ResumeByToken, LoadBrowserPause, ClaimBrowserExecution, ReportExecution,
        RecordReport, ReportUndelivered, ResumeBrowserTask, SweepBrowserExecutions,
        OtherArrives, OtherEnds, worldVars, WorldTyped
<1>3. desk' \in [Desk -> DeskTask]
  <2>1. ASSUME NEW h \in Desk, Carries(h) PROVE desk' \in [Desk -> DeskTask]
    <3>0. desk[h] \in DeskTask /\ row.ver \in Nat /\ row.grant \in 0..MaxGrants
      BY DEF WorldTyped, RowTyped, Row
    <3>1. ASSUME NEW d \in DeskTask, desk' = [desk EXCEPT ![h] = d]
          PROVE  desk' \in [Desk -> DeskTask]
      BY <3>1 DEF WorldTyped
    <3>2. CASE LoadBrowserPause(h)
      BY <3>0, <3>1, <3>2 DEF LoadBrowserPause, DeskTask, Outcome
    <3>3. CASE ClaimBrowserExecution(h)
      BY <1>1, <3>0, <3>1, <3>3 DEF ClaimBrowserExecution, DeskTask
    <3>4. CASE ExecuteGrantedAction(h)
      BY <3>0, <3>1, <3>4 DEF ExecuteGrantedAction, DeskTask, Outcome
    <3>5. CASE ReportExecution(h)
      <4>1. [desk[h] EXCEPT !.pc = "record", !.ver = row.ver] \in DeskTask
        BY <3>0 DEF DeskTask
      <4>2. desk' = [desk EXCEPT ![h] = [desk[h] EXCEPT !.pc = "record", !.ver = row.ver]]
            \/ desk' = [desk EXCEPT ![h] = Resting]
        BY <3>5 DEF ReportExecution
      <4>3. QED
        BY <1>1, <3>1, <4>1, <4>2
    <3>6. CASE RecordReport(h)
      BY <1>1, <3>0, <3>1, <3>6 DEF RecordReport, DeskTask
    <3>7. CASE ReportUndelivered(h)
      BY <1>1, <3>1, <3>7 DEF ReportUndelivered
    <3>8. QED
      BY <2>1, <3>2, <3>3, <3>4, <3>5, <3>6, <3>7 DEF Carries
  <2>2. CASE Crash
    <3>1. ASSUME NEW h \in Desk
          PROVE  (CASE desk[h].pc = "claim" -> Resting
                    [] desk[h].pc = "record" -> [desk[h] EXCEPT !.pc = "report"]
                    [] OTHER -> desk[h]) \in DeskTask
      <4>1. desk[h] \in DeskTask
        BY DEF WorldTyped
      <4>2. [desk[h] EXCEPT !.pc = "report"] \in DeskTask
        BY <4>1, SMTT(30) DEF DeskTask
      <4>3. QED
        BY <1>1, <4>1, <4>2
    <3>2. QED
      BY <2>2, <3>1 DEF Crash
  <2>3. QED
    BY <2>1, <2>2
    DEF AgentNext, Runs, Resumes, StartTask, CancelTask, BuildContext, EndTask, Ask,
        PauseForApproval, Propose, InvokeTools, PauseForBrowserExecution, Reread, Claim, Fail,
        Decide, OnApprovalDecided, CancelRefused, ResumeByToken, GrantAges, ResumeBrowserTask,
        SweepBrowserExecutions, ExpireBrowserExecution, OtherArrives, OtherEnds, worldVars,
        WorldTyped
<1>4. sweep' \in [pc : {"idle", "expire"}, ver : Nat, claimed : BOOLEAN]
  <2>1. row.ver \in Nat /\ row.claimed \in BOOLEAN
    BY DEF RowTyped, Row
  <2>2. CASE Crash \/ ExpireBrowserExecution
    BY <1>1, <2>2 DEF Crash, ExpireBrowserExecution
  <2>3. CASE SweepBrowserExecutions
    BY <2>1, <2>3 DEF SweepBrowserExecutions, WorldTyped
  <2>4. ASSUME sweep' = sweep PROVE sweep' \in [pc : {"idle", "expire"}, ver : Nat, claimed : BOOLEAN]
    BY <2>4 DEF WorldTyped
  <2>5. QED
    BY <2>2, <2>3, <2>4, ZenonT(60)
    DEF AgentNext, Runs, Carries, Resumes, StartTask, CancelTask, BuildContext, EndTask, Ask,
        PauseForApproval, Propose, InvokeTools, PauseForBrowserExecution, Reread, Claim, Fail,
        Decide, OnApprovalDecided, CancelRefused, ResumeByToken, GrantAges, LoadBrowserPause,
        ClaimBrowserExecution, ExecuteGrantedAction, ReportExecution, RecordReport,
        ReportUndelivered, ResumeBrowserTask, OtherArrives, OtherEnds
<1>5. ran' \in [Batch -> Nat]
  <2>1. ASSUME NEW b, ran' = [ran EXCEPT ![b] = @ + 1] PROVE ran' \in [Batch -> Nat]
    <3>1. CASE b \in Batch
      BY <2>1, <3>1 DEF WorldTyped
    <3>2. CASE b \notin Batch
      BY <2>1, <3>2 DEF WorldTyped
    <3>3. QED
      BY <3>1, <3>2
  <2>2. ASSUME NEW h \in Desk, ExecuteGrantedAction(h) PROVE ran' \in [Batch -> Nat]
    BY <2>1, <2>2 DEF ExecuteGrantedAction, WorldTyped
  <2>3. ASSUME NEW a \in Actor, InvokeTools(a) PROVE ran' \in [Batch -> Nat]
    BY <2>1, <2>3 DEF InvokeTools, WorldTyped
  <2>4. QED
    BY <2>2, <2>3
    DEF AgentNext, Runs, Carries, Resumes, StartTask, CancelTask, Crash, BuildContext, EndTask, Ask,
        PauseForApproval, Propose, PauseForBrowserExecution, Reread, Claim, Fail, Decide,
        OnApprovalDecided, CancelRefused, ResumeByToken, GrantAges, LoadBrowserPause,
        ClaimBrowserExecution, ReportExecution, RecordReport, ReportUndelivered,
        ResumeBrowserTask, SweepBrowserExecutions, ExpireBrowserExecution, OtherArrives,
        OtherEnds, worldVars, WorldTyped
<1>6. QED
  BY <1>2, <1>3, <1>4, <1>5 DEF WorldTyped

-----------------------------------------------------------------------------
(* How the coroutines move.                                                *)

Internal(a) == BuildContext(a) \/ Ask(a) \/ Propose(a) \/ InvokeTools(a)
Claims(a) == Claim(a) /\ row.status \in Paused

(* What a step does to a coroutine: nothing, it is or ends outside the     *)
(* loop, it is within the loop, or enters it by the start or by a claim.   *)
LEMMA Coroutine ==
  ASSUME CoTyped, RowTyped, AgentNext, NEW a \in Actor
  PROVE  \/ co'[a] = co[a]
         \/ co'[a].pc \notin {"step", "turn", "pausing", "batch"}
         \/ /\ Internal(a) /\ Looping(a) /\ co'[a].ver = co[a].ver
            /\ co'[a].pc = "pausing" => co'[a].batch \in Gated
         \/ /\ StartTask /\ row.status = "ABSENT" /\ row'.status = "RUNNING"
            /\ a = Call /\ co'[a].pc = "step" /\ co'[a].ver = 1
         \/ /\ Claims(a) /\ row'.status = "RESUMING"
            /\ co'[a].pc \in {"step", "batch"} /\ co'[a].ver = row.ver + 1
<1> DEFINE Goal(b) == \/ co'[b] = co[b]
                      \/ co'[b].pc \notin {"step", "turn", "pausing", "batch"}
                      \/ /\ Internal(b) /\ Looping(b) /\ co'[b].ver = co[b].ver
                         /\ co'[b].pc = "pausing" => co'[b].batch \in Gated
                      \/ /\ StartTask /\ row.status = "ABSENT" /\ row'.status = "RUNNING"
                         /\ b = Call /\ co'[b].pc = "step" /\ co'[b].ver = 1
                      \/ /\ Claims(b) /\ row'.status = "RESUMING"
                         /\ co'[b].pc \in {"step", "batch"} /\ co'[b].ver = row.ver + 1
<1>0. /\ Call \in Actor /\ Resume \in Actor /\ \A p \in Gated : Handler(p) \in Actor
      /\ co[a] \in Co /\ row \in Row
  BY DEF Actor, CoTyped, RowTyped
<1>1. ASSUME NEW b \in Actor, NEW c, co' = [co EXCEPT ![b] = c], c.pc \notin {"step", "turn", "pausing", "batch"}
      PROVE  Goal(a)
  BY <1>1 DEF CoTyped
<1>2. ASSUME NEW b \in Actor, Stops(b) PROVE Goal(a)
  BY <1>1, <1>2 DEF Stops, Idle
<1>3. CASE StartTask
  <2>1. row.status = "ABSENT" /\ row'.status = "RUNNING"
    BY <1>0, <1>3 DEF StartTask, Row
  <2>2. QED
    BY <1>0, <1>3, <2>1 DEF StartTask, Moves, CoTyped
<1>4. CASE Crash
  BY <1>4 DEF Crash, Idle
<1>5. ASSUME NEW b \in Actor, Internal(b) PROVE Goal(a)
  <2>1. CASE a # b
    BY <1>5, <2>1 DEF Internal, BuildContext, Ask, Propose, InvokeTools, Moves, Goes, CoTyped
  <2>2. CASE a = b
    BY <1>0, <1>5, <2>2 DEF Internal, BuildContext, Ask, Propose, InvokeTools, Moves, Goes, CoTyped,
                      Looping, Co
  <2>3. QED
    BY <2>1, <2>2
<1>6. ASSUME NEW b \in Actor, Claim(b) PROVE Goal(a)
  <2>1. CASE row.status = Expected(b)
    <3>1. row.status \in Paused
      BY <2>1 DEF Expected, Paused
    <3>2. CASE a = b
      <4>1. CASE row.ver = co[b].ver
        <5>1. row'.status = "RESUMING" /\ Claims(b)
          BY <1>0, <1>6, <2>1, <3>1, <4>1 DEF Claim, Claims, Row
        <5>2. QED
          BY <1>6, <2>1, <3>2, <4>1, <5>1 DEF Claim, Moves, CoTyped
      <4>2. QED
        BY <1>2, <1>6, <4>1 DEF Claim
    <3>3. CASE a # b
      BY <1>2, <1>6, <3>1, <3>3 DEF Claim, Moves, CoTyped
    <3>4. QED
      BY <3>2, <3>3
  <2>2. QED
    BY <1>2, <1>6, <2>1 DEF Claim
<1>7. ASSUME NEW b \in Actor, Reread(b) PROVE Goal(a)
  BY <1>1, <1>2, <1>7 DEF Reread, Moves
<1>8. ASSUME NEW b \in Actor, Runs(b) \/ Fail(b) PROVE Goal(a)
  BY <1>2, <1>5, <1>6, <1>7, <1>8
  DEF Runs, Internal, EndTask, PauseForApproval, PauseForBrowserExecution, Fail
<1>9. ASSUME NEW p \in Gated, Resumes(p) PROVE Goal(a)
  <2>1. CASE CancelRefused(p)
    BY <1>0, <1>2, <2>1 DEF CancelRefused
  <2>2. CASE OnApprovalDecided(p)
    <3>1. Reaction(p) \notin {"step", "turn", "pausing", "batch"}
      BY DEF Reaction
    <3>2. QED
      BY <1>0, <1>1, <2>2, <3>1 DEF OnApprovalDecided, Moves
  <2>3. QED
    BY <1>9, <2>1, <2>2 DEF Resumes
<1>10. ASSUME NEW p \in Gated, ResumeByToken(p) PROVE Goal(a)
  BY <1>0, <1>1, <1>10 DEF ResumeByToken, Moves
<1>11. ASSUME Schedules PROVE Goal(a)
  BY <1>0, <1>11 DEF Schedules, CoTyped, Co
<1>12. CASE ResumeBrowserTask
  BY <1>0, <1>2, <1>12 DEF ResumeBrowserTask, Goes, CoTyped, Co
<1>13. CASE SweepBrowserExecutions
  BY <1>11, <1>13, SMTT(30) DEF SweepBrowserExecutions
<1>14. ASSUME NEW h \in Desk, Carries(h) PROVE Goal(a)
  BY <1>11, <1>14 DEF Carries, LoadBrowserPause, ClaimBrowserExecution, ExecuteGrantedAction,
     ReportExecution, RecordReport, ReportUndelivered
<1>15. CASE CancelTask \/ ExpireBrowserExecution \/ OtherArrives \/ OtherEnds
            \/ (\E p \in Gated : Decide(p)) \/ (\E g \in Grant : GrantAges(g))
  BY <1>15 DEF CancelTask, ExpireBrowserExecution, OtherArrives, OtherEnds, Decide, GrantAges
<1>16. QED
  BY <1>3, <1>4, <1>8, <1>9, <1>10, <1>12, <1>13, <1>14, <1>15 DEF AgentNext

(* A pause for approval stands at a gated batch.                           *)
LEMMA PausingStep ==
  ASSUME CoTyped, RowTyped, PausingGated, AgentNext PROVE PausingGated'
<1>1. SUFFICES ASSUME NEW a \in Actor, co'[a].pc = "pausing" PROVE co'[a].batch \in Gated
  BY SMTT(30) DEF PausingGated
<1>2. QED
  BY <1>1, Coroutine DEF PausingGated

(* How the stored task moves.                                              *)
LEMMA StoredTask ==
  ASSUME CoTyped, RowTyped, WorldTyped, AgentNext
  PROVE  \/ row' = row
         \/ StartTask /\ row.status = "ABSENT" /\ row'.status = "RUNNING"
         \/ row'.status = "CANCELLED" /\ row'.report = row.report
         \/ \E a \in Actor : EndTask(a) /\ co[a].pc = "turn" /\ row'.status \in Ended
         \/ \E a \in Actor : /\ PauseForApproval(a) /\ co[a].pc = "pausing"
                             /\ row'.status = "PAUSED_FOR_APPROVAL"
                             /\ row'.ver = co[a].ver + 1 /\ row'.batch = co[a].batch
         \/ \E a \in Actor : /\ PauseForBrowserExecution(a) /\ co[a].pc = "batch"
                             /\ row'.status = "PAUSED_FOR_BROWSER_EXECUTION"
                             /\ row'.ver = co[a].ver + 1 /\ row'.batch = co[a].batch
                             /\ row'.grant = Len(grants) + 1
                             /\ ~ row'.claimed /\ row'.report = "none"
         \/ \E a \in Actor : /\ Claims(a) /\ row.status = Expected(a)
                             /\ row' = [row EXCEPT !.status = "RESUMING", !.ver = @ + 1]
         \/ \E h \in Desk : /\ ClaimBrowserExecution(h) /\ desk[h].pc = "claim"
                            /\ Unchanged(desk[h].ver)
                            /\ row' = [row EXCEPT !.claimed = TRUE, !.ver = @ + 1]
         \/ \E h \in Desk : /\ RecordReport(h) /\ desk[h].pc = "record"
                            /\ Unchanged(desk[h].ver)
                            /\ row' = [row EXCEPT !.report = desk[h].outcome, !.ver = @ + 1]
<1>0. row \in Row
  BY DEF RowTyped
<1>1. ASSUME Cancels PROVE row' = row \/ (row'.status = "CANCELLED" /\ row'.report = row.report)
  BY <1>0, <1>1 DEF Cancels, Row, Ended
<1>2. CASE StartTask
  BY <1>0, <1>2 DEF StartTask, Row
<1>3. ASSUME NEW a \in Actor, EndTask(a) PROVE co[a].pc = "turn" /\ row'.status \in Ended
  BY <1>3 DEF EndTask, Writes, Ended
<1>4. ASSUME NEW a \in Actor, PauseForApproval(a)
      PROVE  /\ co[a].pc = "pausing" /\ row'.status = "PAUSED_FOR_APPROVAL"
             /\ row'.ver = co[a].ver + 1 /\ row'.batch = co[a].batch
  BY <1>4 DEF PauseForApproval, Writes
<1>5. ASSUME NEW a \in Actor, PauseForBrowserExecution(a)
      PROVE  /\ co[a].pc = "batch" /\ row'.status = "PAUSED_FOR_BROWSER_EXECUTION"
             /\ row'.ver = co[a].ver + 1 /\ row'.batch = co[a].batch
             /\ row'.grant = Len(grants) + 1 /\ ~ row'.claimed /\ row'.report = "none"
  BY <1>5 DEF PauseForBrowserExecution, Writes
<1>6. ASSUME NEW a \in Actor, Claim(a)
      PROVE  \/ row' = row
             \/ /\ Claims(a) /\ row.status = Expected(a)
                /\ row' = [row EXCEPT !.status = "RESUMING", !.ver = @ + 1]
  BY <1>6 DEF Claim, Claims, Expected, Paused
<1>7. CASE ExpireBrowserExecution
  BY <1>0, <1>7, ZenonT(60) DEF ExpireBrowserExecution, Row, Ended
<1>8. ASSUME NEW h \in Desk, ClaimBrowserExecution(h)
      PROVE  \/ row' = row
             \/ /\ desk[h].pc = "claim" /\ Unchanged(desk[h].ver)
                /\ row' = [row EXCEPT !.claimed = TRUE, !.ver = @ + 1]
  BY <1>8 DEF ClaimBrowserExecution
<1>9. ASSUME NEW h \in Desk, RecordReport(h)
      PROVE  \/ row' = row
             \/ /\ desk[h].pc = "record" /\ Unchanged(desk[h].ver)
                /\ row' = [row EXCEPT !.report = desk[h].outcome, !.ver = @ + 1]
  BY <1>9 DEF RecordReport
<1>10. ASSUME NEW h \in Desk, Carries(h)
       PROVE  row' = row \/ ClaimBrowserExecution(h) \/ RecordReport(h)
  BY <1>10 DEF Carries, LoadBrowserPause, ExecuteGrantedAction, ReportExecution, ReportUndelivered
<1>11. ASSUME NEW a \in Actor, Runs(a) \/ Fail(a)
       PROVE  row' = row \/ EndTask(a) \/ PauseForApproval(a) \/ PauseForBrowserExecution(a) \/ Claim(a)
  BY <1>11 DEF Runs, Fail, BuildContext, Ask, Propose, InvokeTools, Reread
<1>12. ASSUME NEW p \in Gated, Decide(p) \/ Resumes(p) \/ ResumeByToken(p)
       PROVE  row' = row \/ Cancels
  BY <1>12 DEF Decide, Resumes, OnApprovalDecided, CancelRefused, ResumeByToken
<1>13. CASE \E a \in Actor : Runs(a) \/ Fail(a)
  BY <1>3, <1>4, <1>5, <1>6, <1>11, <1>13
<1>14. CASE \E h \in Desk : Carries(h)
  BY <1>8, <1>9, <1>10, <1>14
<1>15. CASE \E p \in Gated : Decide(p) \/ Resumes(p) \/ ResumeByToken(p)
  BY <1>1, <1>12, <1>15
<1>16. CASE CancelTask
  BY <1>1, <1>16, ZenonT(60) DEF CancelTask
<1>17. CASE Crash \/ ResumeBrowserTask \/ SweepBrowserExecutions \/ OtherArrives \/ OtherEnds
             \/ \E g \in Grant : GrantAges(g)
  BY <1>17, ZenonT(60)
     DEF Crash, ResumeBrowserTask, SweepBrowserExecutions, OtherArrives, OtherEnds, GrantAges
<1>18. QED
  BY <1>2, <1>7, <1>13, <1>14, <1>15, <1>16, <1>17 DEF AgentNext, StartTask

(* How the grants move: a grant's effect comes from a desktop that executes*)
(* it, what is told of it from a claim or an expiry of the task it stops.  *)
LEMMA Grants ==
  ASSUME CoTyped, RowTyped, WorldTyped, AgentNext, NEW g \in DOMAIN grants
  PROVE  /\ g \in DOMAIN grants' /\ grants'[g].batch = grants[g].batch
         /\ grants[g].done => grants'[g].done
         /\ \/ grants'[g].done = grants[g].done
            \/ \E h \in Desk : ExecuteGrantedAction(h) /\ desk[h].grant = g
         /\ \/ grants'[g].told = grants[g].told
            \/ /\ \E a \in Actor : Claims(a)
               /\ row.status = "PAUSED_FOR_BROWSER_EXECUTION" /\ row.grant = g
               /\ grants'[g].told = row.report /\ row'.status = "RESUMING"
            \/ /\ ExpireBrowserExecution /\ sweep.pc = "expire" /\ Unchanged(sweep.ver)
               /\ row.grant = g /\ grants'[g].told = ExpiredResult(sweep.claimed)
               /\ row'.status = "CANCELLED"
<1> DEFINE Goal == /\ g \in DOMAIN grants' /\ grants'[g].batch = grants[g].batch
                   /\ grants[g].done => grants'[g].done
                   /\ \/ grants'[g].done = grants[g].done
                      \/ \E h \in Desk : ExecuteGrantedAction(h) /\ desk[h].grant = g
                   /\ \/ grants'[g].told = grants[g].told
                      \/ /\ \E a \in Actor : Claims(a)
                         /\ row.status = "PAUSED_FOR_BROWSER_EXECUTION" /\ row.grant = g
                         /\ grants'[g].told = row.report /\ row'.status = "RESUMING"
                      \/ /\ ExpireBrowserExecution /\ sweep.pc = "expire" /\ Unchanged(sweep.ver)
                         /\ row.grant = g /\ grants'[g].told = ExpiredResult(sweep.claimed)
                         /\ row'.status = "CANCELLED"
<1>0. /\ grants \in Seq(GrantRecord) /\ g \in 1..Len(grants) /\ grants[g] \in GrantRecord
      /\ DOMAIN grants = 1..Len(grants) /\ Len(grants) \in Nat
  BY GrantTyped, LenProperties DEF WorldTyped
<1>1. ASSUME NEW i, NEW e, grants' = [grants EXCEPT ![i] = e]
      PROVE  g \in DOMAIN grants' /\ grants'[g] = IF i = g THEN e ELSE grants[g]
  <2>1. grants \in [1..Len(grants) -> GrantRecord]
    BY <1>0, LenProperties
  <2>2. QED
    BY <1>0, <1>1, <2>1
<1>2. ASSUME grants' = grants PROVE Goal
  BY <1>2
<1>3. ASSUME NEW a \in Actor, PauseForBrowserExecution(a) PROVE Goal
  <2>1. PICK e \in GrantRecord : grants' = Append(grants, e)
    BY <1>3 DEF PauseForBrowserExecution, GrantRecord, Outcome
  <2>2. g \in DOMAIN grants' /\ grants'[g] = grants[g]
    BY <1>0, <2>1, AppendProperties
  <2>3. QED
    BY <2>2
<1>4. ASSUME NEW a \in Actor, Claim(a) PROVE Goal
  <2>1. CASE grants' = [grants EXCEPT ![row.grant].told = row.report] /\ a = Resume
             /\ row.status = Expected(a)
    <3>0. row' = [row EXCEPT !.status = "RESUMING", !.ver = @ + 1] \/ UNCHANGED <<row, grants>>
      BY <1>4 DEF Claim
    <3>1. /\ Claims(a) /\ row.status = "PAUSED_FOR_BROWSER_EXECUTION"
          /\ row'.status = "RESUMING" \/ grants' = grants
      BY <1>4, <2>1, <3>0 DEF Claims, Expected, Paused, RowTyped, Row
    <3>2. grants' = [grants EXCEPT ![row.grant] = [grants[row.grant] EXCEPT !.told = row.report]]
      BY <2>1
    <3>3. g \in DOMAIN grants' /\ grants'[g] = IF row.grant = g
                                 THEN [grants[row.grant] EXCEPT !.told = row.report] ELSE grants[g]
      BY <1>1, <3>2
    <3>4. QED
      BY <1>0, <1>2, <3>1, <3>3 DEF GrantRecord
  <2>2. QED
    BY <1>2, <1>4, <2>1 DEF Claim
<1>5. CASE ExpireBrowserExecution
  <2>1. CASE Unchanged(sweep.ver)
    <3>1. grants' = [grants EXCEPT ![row.grant] =
                       [grants[row.grant] EXCEPT !.told = ExpiredResult(sweep.claimed)]]
      BY <1>5, <2>1 DEF ExpireBrowserExecution
    <3>2. g \in DOMAIN grants' /\ grants'[g] = IF row.grant = g
            THEN [grants[row.grant] EXCEPT !.told = ExpiredResult(sweep.claimed)] ELSE grants[g]
      BY <1>1, <3>1
    <3>3. sweep.pc = "expire" /\ row'.status = "CANCELLED"
      BY <1>5, <2>1 DEF ExpireBrowserExecution, RowTyped, Row
    <3>4. QED
      BY <1>0, <1>5, <2>1, <3>2, <3>3 DEF GrantRecord
  <2>2. QED
    BY <1>2, <1>5, <2>1 DEF ExpireBrowserExecution
<1>6. ASSUME NEW i \in Grant, GrantAges(i) PROVE Goal
  <2>1. PICK n : grants' = [grants EXCEPT ![i] = [grants[i] EXCEPT !.age = n]]
    BY <1>6 DEF GrantAges
  <2>2. g \in DOMAIN grants' /\ grants'[g] = IF i = g THEN [grants[i] EXCEPT !.age = n] ELSE grants[g]
    BY <1>1, <2>1
  <2>3. QED
    BY <1>0, <2>2 DEF GrantRecord
<1>7. ASSUME NEW h \in Desk, ExecuteGrantedAction(h) PROVE Goal
  <2>1. PICK x, y : /\ grants' = [grants EXCEPT ![desk[h].grant].redeemed = x,
                                            ![desk[h].grant].done = y]
                    /\ grants[desk[h].grant].done => y
    BY <1>7, ZenonT(60) DEF ExecuteGrantedAction
  <2>2. grants' = [grants EXCEPT ![desk[h].grant] =
                     [grants[desk[h].grant] EXCEPT !.redeemed = x, !.done = y]]
    BY <1>0, <2>1, Zenon
  <2>3. g \in DOMAIN grants' /\ grants'[g] = IF desk[h].grant = g
          THEN [grants[desk[h].grant] EXCEPT !.redeemed = x, !.done = y] ELSE grants[g]
    BY <1>1, <2>2
  <2>4. desk[h].grant = g => grants'[g] = [grants[g] EXCEPT !.redeemed = x, !.done = y]
    BY <2>3
  <2>5. QED
    BY <1>0, <1>7, <2>1, <2>3, <2>4 DEF GrantRecord
<1>8. QED
  BY <1>2, <1>3, <1>4, <1>5, <1>6, <1>7
  DEF AgentNext, Runs, Carries, Resumes, StartTask, CancelTask, Crash, BuildContext, EndTask, Ask,
      PauseForApproval, Propose, InvokeTools, Reread, Fail, Decide, OnApprovalDecided,
      CancelRefused, ResumeByToken, LoadBrowserPause, ClaimBrowserExecution, ReportExecution,
      RecordReport, ReportUndelivered, ResumeBrowserTask, SweepBrowserExecutions, OtherArrives,
      OtherEnds, worldVars

(* How a task of the desktop moves.                                        *)
PausedForBrowser == row.status = "PAUSED_FOR_BROWSER_EXECUTION"

LEMMA DeskTasks ==
  ASSUME RowTyped, WorldTyped, AgentNext, NEW h \in Desk
  PROVE  \/ desk'[h] = desk[h]
         \/ desk'[h].pc = "idle"
         \/ /\ PausedForBrowser /\ row' = row /\ ~ row.claimed
            /\ desk'[h].pc = "claim" /\ desk'[h].ver = row.ver /\ desk'[h].grant = row.grant
         \/ /\ ClaimBrowserExecution(h) /\ desk[h].pc = "claim" /\ Unchanged(desk[h].ver)
            /\ row'.claimed /\ grants' = grants /\ desk'[h].pc = "act"
            /\ desk'[h].grant = desk[h].grant
            /\ \A i \in Desk : i # h => desk'[i] = desk[i]
         \/ /\ ExecuteGrantedAction(h) /\ desk[h].pc = "act" /\ desk'[h].pc = "report"
            /\ desk'[h].grant = desk[h].grant
            /\ desk[h].grant \in DOMAIN grants =>
                 /\ desk'[h].outcome = "yes" => grants'[desk[h].grant].done
                 /\ desk'[h].outcome = "no" => grants'[desk[h].grant].done = grants[desk[h].grant].done
         \/ /\ desk[h].pc = "report" /\ desk'[h].pc = "record" /\ row' = row
            /\ PausedForBrowser /\ row.grant = desk[h].grant /\ row.claimed /\ row.report = "none"
            /\ desk'[h].ver = row.ver /\ desk'[h].grant = desk[h].grant
            /\ desk'[h].outcome = desk[h].outcome
         \/ /\ desk[h].pc = "record" /\ desk'[h].pc = "report"
            /\ desk'[h].grant = desk[h].grant /\ desk'[h].outcome = desk[h].outcome
<1> DEFINE Goal == \/ desk'[h] = desk[h]
                   \/ desk'[h].pc = "idle"
                   \/ /\ PausedForBrowser /\ row' = row /\ ~ row.claimed
                      /\ desk'[h].pc = "claim" /\ desk'[h].ver = row.ver
                      /\ desk'[h].grant = row.grant
                   \/ /\ ClaimBrowserExecution(h) /\ desk[h].pc = "claim"
                      /\ Unchanged(desk[h].ver) /\ row'.claimed /\ grants' = grants
                      /\ desk'[h].pc = "act" /\ desk'[h].grant = desk[h].grant
                      /\ \A i \in Desk : i # h => desk'[i] = desk[i]
                   \/ /\ ExecuteGrantedAction(h) /\ desk[h].pc = "act" /\ desk'[h].pc = "report"
                      /\ desk'[h].grant = desk[h].grant
                      /\ desk[h].grant \in DOMAIN grants =>
                           /\ desk'[h].outcome = "yes" => grants'[desk[h].grant].done
                           /\ desk'[h].outcome = "no" =>
                                 grants'[desk[h].grant].done = grants[desk[h].grant].done
                   \/ /\ desk[h].pc = "report" /\ desk'[h].pc = "record" /\ row' = row
                      /\ PausedForBrowser /\ row.grant = desk[h].grant /\ row.claimed
                      /\ row.report = "none" /\ desk'[h].ver = row.ver
                      /\ desk'[h].grant = desk[h].grant /\ desk'[h].outcome = desk[h].outcome
                   \/ /\ desk[h].pc = "record" /\ desk'[h].pc = "report"
                      /\ desk'[h].grant = desk[h].grant /\ desk'[h].outcome = desk[h].outcome
<1>0. desk \in [Desk -> DeskTask] /\ desk[h] \in DeskTask /\ row \in Row
  BY DEF WorldTyped, RowTyped
<1>1. ASSUME NEW i \in Desk, NEW d, desk' = [desk EXCEPT ![i] = d]
      PROVE  desk'[h] = IF h = i THEN d ELSE desk[h]
  BY <1>0, <1>1
<1>2. ASSUME NEW i \in Desk, desk' = [desk EXCEPT ![i] = Resting] PROVE Goal
  BY <1>1, <1>2 DEF Resting
<1>3. ASSUME NEW i \in Desk, LoadBrowserPause(i) PROVE Goal
  BY <1>1, <1>3 DEF LoadBrowserPause, PausedForBrowser
<1>4. ASSUME NEW i \in Desk, ClaimBrowserExecution(i) PROVE Goal
  <2>1. CASE Unchanged(desk[i].ver) /\ desk' = [desk EXCEPT ![i].pc = "act"]
    <3>1. row'.claimed
      BY <1>0, <1>4, <2>1 DEF ClaimBrowserExecution, Row
    <3>2. QED
      <4>1. /\ desk[i].pc = "claim" /\ Unchanged(desk[i].ver) /\ grants' = grants
            /\ \A j \in Desk : j # i => desk'[j] = desk[j]
        BY <1>0, <1>4, <2>1 DEF ClaimBrowserExecution
      <4>2. desk'[i].pc = "act" /\ desk'[i].grant = desk[i].grant
        BY <2>1 DEF WorldTyped, DeskTask
      <4>3. CASE i = h
        BY <1>4, <3>1, <4>1, <4>2, <4>3
      <4>4. CASE i # h
        BY <4>1, <4>4
      <4>5. QED
        BY <4>3, <4>4
  <2>2. QED
    BY <1>2, <1>4, <2>1 DEF ClaimBrowserExecution
<1>5. ASSUME NEW i \in Desk, ExecuteGrantedAction(i) PROVE Goal
  <2>1. CASE i = h
    <3>1. PICK done \in BOOLEAN, o \in {"yes", "no", "unknown"} :
            /\ o = "yes" => done
            /\ o = "no" => ~ done
            /\ desk' = [desk EXCEPT ![h] = [desk[h] EXCEPT !.pc = "report", !.outcome = o]]
            /\ grants' = [grants EXCEPT
                 ![desk[h].grant].redeemed = @ \/ (/\ grants[desk[h].grant].age = "fresh"
                                                   /\ ~ grants[desk[h].grant].redeemed),
                 ![desk[h].grant].done = @ \/ done]
      BY <1>5, <2>1 DEF ExecuteGrantedAction
    <3>2. desk[h].pc = "act" /\ desk'[h].pc = "report" /\ desk'[h].grant = desk[h].grant
          /\ desk'[h].outcome = o
      BY <1>0, <1>5, <2>1, <3>1 DEF ExecuteGrantedAction, DeskTask
    <3>3. ASSUME desk[h].grant \in DOMAIN grants
          PROVE  grants'[desk[h].grant].done = (grants[desk[h].grant].done \/ done)
      <4>1. /\ grants \in [1..Len(grants) -> GrantRecord] /\ desk[h].grant \in 1..Len(grants)
            /\ grants[desk[h].grant] \in GrantRecord
        BY <3>3, GrantTyped, LenProperties, SMTT(30) DEF WorldTyped
      <4>2. QED
        BY <3>1, <4>1 DEF GrantRecord
    <3>4. QED
      BY <1>5, <2>1, <3>1, <3>2, <3>3, GrantTyped DEF GrantRecord
  <2>2. QED
    <3>1. PICK d : desk' = [desk EXCEPT ![i] = d]
      BY <1>5 DEF ExecuteGrantedAction
    <3>2. QED
      BY <1>1, <2>1, <3>1
<1>6. ASSUME NEW i \in Desk, ReportExecution(i) PROVE Goal
  <2>1. CASE /\ desk' = [desk EXCEPT ![i].pc = "record", ![i].ver = row.ver]
             /\ PausedForBrowser /\ row.grant = desk[i].grant /\ row.claimed /\ row.report = "none"
    BY <1>0, <1>6, <2>1 DEF ReportExecution, DeskTask
  <2>2. QED
    BY <1>2, <1>6, <2>1 DEF ReportExecution, PausedForBrowser
<1>7. ASSUME NEW i \in Desk, RecordReport(i) PROVE Goal
  <2>1. CASE desk' = [desk EXCEPT ![i].pc = "report"]
    BY <1>0, <1>7, <2>1 DEF RecordReport, DeskTask
  <2>2. QED
    BY <1>2, <1>7, <2>1 DEF RecordReport
<1>8. ASSUME NEW i \in Desk, Carries(i) PROVE Goal
  BY <1>2, <1>3, <1>4, <1>5, <1>6, <1>7, <1>8 DEF Carries, ReportUndelivered
<1>9. CASE Crash
  <2>1. CASE desk[h].pc = "claim"
    BY <1>9, <2>1 DEF Crash, Resting
  <2>2. CASE desk[h].pc = "record"
    BY <1>0, <1>9, <2>2, SMTT(30) DEF Crash, DeskTask
  <2>3. QED
    BY <1>9, <2>1, <2>2 DEF Crash
<1>10. QED
  BY <1>8, <1>9, ZenonT(60)
  DEF AgentNext, Runs, Resumes, StartTask, CancelTask, BuildContext, EndTask, Ask,
      PauseForApproval, Propose, InvokeTools, PauseForBrowserExecution, Reread, Claim, Fail,
      Decide, OnApprovalDecided, CancelRefused, ResumeByToken, GrantAges, ResumeBrowserTask,
      SweepBrowserExecutions, ExpireBrowserExecution, OtherArrives, OtherEnds, worldVars

(* How the sweep moves.                                                    *)
LEMMA Sweep ==
  ASSUME AgentNext
  PROVE  \/ sweep' = sweep
         \/ sweep'.pc = "idle"
         \/ /\ PausedForBrowser /\ row.report = "none" /\ row' = row
            /\ sweep'.pc = "expire" /\ sweep'.ver = row.ver /\ sweep'.claimed = row.claimed
<1>1. CASE Crash \/ ExpireBrowserExecution
  BY <1>1 DEF Crash, ExpireBrowserExecution, Waiting
<1>2. CASE SweepBrowserExecutions
  BY <1>2 DEF SweepBrowserExecutions, PausedForBrowser
<1>3. QED
  BY <1>1, <1>2, ZenonT(60)
  DEF AgentNext, Runs, Carries, Resumes, StartTask, CancelTask, BuildContext, EndTask, Ask,
      PauseForApproval, Propose, InvokeTools, PauseForBrowserExecution, Reread, Claim, Fail,
      Decide, OnApprovalDecided, CancelRefused, ResumeByToken, GrantAges, LoadBrowserPause,
      ClaimBrowserExecution, ExecuteGrantedAction, ReportExecution, RecordReport,
      ReportUndelivered, ResumeBrowserTask, OtherArrives, OtherEnds

-----------------------------------------------------------------------------
(* The inductive invariant.                                                *)

Typed == /\ CoTyped /\ RowTyped /\ Small /\ WorldTyped /\ PausingGated
         /\ row.status = "PAUSED_FOR_APPROVAL" => row.batch \in Gated
         /\ PausedForBrowser => /\ row.grant \in DOMAIN grants
                                /\ grants[row.grant].batch = row.batch

AtWork(h) == desk[h].pc \in {"act", "report", "record"}
Stamped(h) == desk[h].pc \in {"claim", "record"}

(* Nothing was read of a task that is not there yet.                       *)
Unread == row.status = "ABSENT" => sweep.pc = "idle" /\ \A h \in Desk : ~ Stamped(h)

(* A version that was read of a pause is no later than that of the present *)
(* pause, and older than every version a live loop goes by.                *)
Older(v) == /\ row.status \in Paused => v <= row.ver
            /\ \A a \in Actor : Looping(a) => v < co[a].ver

Stamps == /\ \A h \in Desk : Stamped(h) => Older(desk[h].ver)
          /\ sweep.pc = "expire" => Older(sweep.ver)

(* What was read along with a version that the pause still has, is so.     *)
StampsMatch ==
  /\ \A h \in Desk : PausedForBrowser /\ Stamped(h) /\ row.ver = desk[h].ver =>
       /\ row.grant = desk[h].grant /\ row.report = "none"
       /\ row.claimed <=> desk[h].pc = "record"
  /\ PausedForBrowser /\ sweep.pc = "expire" /\ row.ver = sweep.ver =>
       row.report = "none" /\ (row.claimed <=> sweep.claimed)

(* A claimed grant is in the hands of one desktop task, whose report is    *)
(* true and remains so.                                                    *)
Holders == \A h \in Desk : AtWork(h) =>
  /\ desk[h].grant \in DOMAIN grants
  /\ \A i \in Desk : AtWork(i) /\ desk[i].grant = desk[h].grant => i = h
  /\ desk[h].pc = "act" => ~ grants[desk[h].grant].done
  /\ desk[h].pc # "act" => /\ desk[h].outcome = "yes" => grants[desk[h].grant].done
                           /\ desk[h].outcome = "no" => ~ grants[desk[h].grant].done

(* Nobody is about to act under a grant.                                   *)
Over(g) == \A h \in Desk : ~ (desk[h].pc = "act" /\ desk[h].grant = g)

(* A paused call is told of nowhere; unclaimed it has no effect, and what  *)
(* was recorded of it is true.                                             *)
PauseTrue == PausedForBrowser =>
  /\ grants[row.grant].told = "none"
  /\ ~ row.claimed => /\ row.report = "none" /\ ~ grants[row.grant].done
                      /\ \A h \in Desk : AtWork(h) => desk[h].grant # row.grant
  /\ row.report = "yes" => grants[row.grant].done
  /\ row.report = "no" => ~ grants[row.grant].done /\ Over(row.grant)

(* A call of which the model was told that it did not happen, will not.    *)
ToldTrue == \A g \in DOMAIN grants :
  /\ grants[g].told = "yes" => grants[g].done
  /\ grants[g].told = "no" => ~ grants[g].done /\ Over(g)

AgentInv == /\ Typed /\ OneLoop /\ Unread /\ Stamps /\ StampsMatch
            /\ Holders /\ PauseTrue /\ ToldTrue

(* The grant a pause mints.                                                *)
LEMMA Minted ==
  ASSUME CoTyped, WorldTyped, NEW a \in Actor, PauseForBrowserExecution(a)
  PROVE  LET n == Len(grants) + 1
         IN  /\ n \notin DOMAIN grants /\ DOMAIN grants' = DOMAIN grants \cup {n}
             /\ grants'[n].batch = co[a].batch /\ grants'[n].told = "none" /\ ~ grants'[n].done
             /\ desk' = desk
<1>1. /\ grants \in Seq(GrantRecord) /\ DOMAIN grants = 1..Len(grants) /\ Len(grants) \in Nat
  BY LenProperties DEF WorldTyped
<1> DEFINE e == [batch |-> co[a].batch, age |-> "fresh", redeemed |-> FALSE, done |-> FALSE,
                 told |-> "none"]
<1>2. grants' = Append(grants, e) /\ desk' = desk
  BY DEF PauseForBrowserExecution
<1>3. e \in GrantRecord
  BY DEF PauseForBrowserExecution, GrantRecord, Outcome
<1>4. /\ Len(grants') = Len(grants) + 1 /\ grants'[Len(grants) + 1] = e /\ grants' \in Seq(GrantRecord)
  BY <1>1, <1>2, <1>3, AppendProperties
<1>5. DOMAIN grants' = 1..(Len(grants) + 1)
  BY <1>4, LenProperties, SMTT(30)
<1>6. QED
  BY <1>1, <1>2, <1>4, <1>5

(* Only a pause mints a grant.                                             *)
LEMMA Minting ==
  ASSUME CoTyped, WorldTyped, AgentNext, NEW g \in DOMAIN grants' \ DOMAIN grants
  PROVE  /\ \E a \in Actor : PauseForBrowserExecution(a)
         /\ g = Len(grants) + 1 /\ grants'[g].told = "none" /\ ~ grants'[g].done
<1>1. ASSUME NEW i, NEW e, grants' = [grants EXCEPT ![i] = e] PROVE FALSE
  BY <1>1, Entry DEF WorldTyped
<1>2. ASSUME NEW a \in Actor, PauseForBrowserExecution(a)
      PROVE  g = Len(grants) + 1 /\ grants'[g].told = "none" /\ ~ grants'[g].done
  BY <1>2, Minted
<1>3. ASSUME NEW a \in Actor, Claim(a) PROVE FALSE
  BY <1>1, <1>3 DEF Claim
<1>4. CASE ExpireBrowserExecution
  BY <1>1, <1>4 DEF ExpireBrowserExecution
<1>5. ASSUME NEW i \in Grant, GrantAges(i) PROVE FALSE
  BY <1>1, <1>5 DEF GrantAges
<1>6. ASSUME NEW h \in Desk, ExecuteGrantedAction(h) PROVE FALSE
  <2>1. PICK x, y : grants' = [grants EXCEPT ![desk[h].grant].redeemed = x,
                                            ![desk[h].grant].done = y]
    BY <1>6 DEF ExecuteGrantedAction
  <2>2. DOMAIN grants' = DOMAIN grants
    BY <2>1
  <2>3. QED
    BY <2>2
<1>7. QED
  BY <1>2, <1>3, <1>4, <1>5, <1>6
  DEF AgentNext, Runs, Carries, Resumes, StartTask, CancelTask, Crash, BuildContext, EndTask, Ask,
      PauseForApproval, Propose, InvokeTools, Reread, Fail, Decide, OnApprovalDecided,
      CancelRefused, ResumeByToken, LoadBrowserPause, ClaimBrowserExecution, ReportExecution,
      RecordReport, ReportUndelivered, ResumeBrowserTask, SweepBrowserExecutions, OtherArrives,
      OtherEnds, worldVars

LEMMA TypeStep == ASSUME Typed, AgentNext PROVE Typed'
<1>1. /\ CoTyped /\ RowTyped /\ Small /\ WorldTyped /\ PausingGated
      /\ row \in Row
  BY DEF Typed, RowTyped
<1>2. CoTyped' /\ RowTyped' /\ Small' /\ WorldTyped' /\ PausingGated'
  BY <1>1, CoStep, RowStep, SmallStep, WorldStep, PausingStep
<1>3. ASSUME row'.status = "PAUSED_FOR_APPROVAL" PROVE row'.batch \in Gated
  BY <1>1, <1>3, StoredTask DEF Typed, PausingGated, Row, Unchanged, Ended
<1>4. ASSUME PausedForBrowser' PROVE row'.grant \in DOMAIN grants' /\ grants'[row'.grant].batch = row'.batch
  <2>1. ASSUME NEW a \in Actor, PauseForBrowserExecution(a),
               row'.batch = co[a].batch, row'.grant = Len(grants) + 1
        PROVE  row'.grant \in DOMAIN grants' /\ grants'[row'.grant].batch = row'.batch
    BY <1>1, <2>1, Minted
  <2>2. ASSUME PausedForBrowser, row'.grant = row.grant, row'.batch = row.batch
        PROVE  row'.grant \in DOMAIN grants' /\ grants'[row'.grant].batch = row'.batch
    BY <1>1, <2>2, Grants DEF Typed
  <2>3. QED
    BY <1>1, <1>4, <2>1, <2>2, StoredTask DEF PausedForBrowser, Row, Unchanged, Ended
<1>5. QED
  BY <1>2, <1>3, <1>4 DEF Typed

(* A pause, an end or a claim of the task finds no other loop at work.     *)
LEMMA OneLoopStep == ASSUME Typed, OneLoop, AgentNext PROVE OneLoop'
<1>0. CoTyped /\ RowTyped /\ WorldTyped /\ row \in Row
  BY DEF Typed, RowTyped
<1>1. ASSUME NEW a \in Actor, row.status \in Paused \cup {"ABSENT"} PROVE ~ Looping(a)
  BY <1>1 DEF OneLoop, Paused
<1>2. ASSUME NEW a \in Actor, Looping(a)'
      PROVE  \/ Looping(a) /\ (co'[a] = co[a] \/ Internal(a))
             \/ StartTask /\ row.status = "ABSENT" /\ row'.status = "RUNNING" /\ a = Call
             \/ Claims(a) /\ row'.status = "RESUMING"
  BY <1>0, <1>2, Coroutine DEF Looping
<1>3. ASSUME NEW a \in Actor, NEW b \in Actor, Claims(a), a # b PROVE co'[b] = co[b]
  BY <1>0, <1>3 DEF Claims, Claim, Moves, Stops, CoTyped
<1>4. ASSUME NEW a \in Actor, NEW b \in Actor, Looping(a)', Looping(b)' PROVE a = b
  <2>1. CASE Looping(a) /\ Looping(b)
    BY <2>1 DEF OneLoop
  <2>2. CASE Claims(a) \/ Claims(b)
    <3>1. row.status \in Paused
      BY <2>2 DEF Claims
    <3>2. ~ Looping(a) /\ ~ Looping(b)
      BY <1>1, <3>1
    <3>3. QED
      BY <1>3, <1>4, <2>2, <3>2 DEF Looping
  <2>3. CASE row.status = "ABSENT"
    BY <1>1, <1>2, <1>4, <2>3 DEF Claims, Paused
  <2>4. QED
    BY <1>2, <1>4, <2>1, <2>2, <2>3
<1>5. ASSUME NEW a \in Actor, Looping(a)' PROVE row'.status \in {"RUNNING", "RESUMING", "CANCELLED"}
  <2>1. CASE row' = row /\ Looping(a)
    BY <2>1 DEF OneLoop
  <2>2. ASSUME NEW b \in Actor, EndTask(b) \/ PauseForApproval(b) \/ PauseForBrowserExecution(b), Looping(a)
        PROVE  FALSE
    <3>1. Looping(b)
      BY <2>2 DEF EndTask, PauseForApproval, PauseForBrowserExecution, Looping
    <3>2. a = b
      BY <2>2, <3>1 DEF OneLoop
    <3>3. co'[a] = Idle
      BY <1>0, <2>2, <3>2 DEF EndTask, PauseForApproval, PauseForBrowserExecution, Stops, CoTyped
    <3>4. QED
      BY <1>5, <3>3 DEF Looping, Idle
  <2>3. ASSUME NEW v, Unchanged(v), Looping(a) PROVE FALSE
    BY <1>1, <2>3 DEF Unchanged, Paused
  <2>4. ASSUME NEW b \in Actor, row.status = Expected(b), Looping(a) PROVE FALSE
    BY <1>1, <2>4 DEF Expected, Paused
  <2>5. CASE Looping(a)
    BY <1>0, <2>1, <2>2, <2>3, <2>4, <2>5, StoredTask DEF StartTask
  <2>6. QED
    BY <1>2, <1>5, <2>5
<1>6. QED
  BY <1>4, <1>5 DEF OneLoop

(* A version read of a pause grows old; what is read now is of the pause.  *)
LEMMA OlderStep ==
  ASSUME Typed, AgentNext, row.status # "ABSENT", NEW v \in Nat, Older(v)
  PROVE  /\ row'.status \in Paused => v <= row'.ver
         /\ \A a \in Actor : Looping(a)' => v < co'[a].ver
<1>0. /\ CoTyped /\ RowTyped /\ WorldTyped /\ row \in Row /\ row.ver \in Nat
      /\ \A a \in Actor : co[a].ver \in Nat
  BY DEF Typed, RowTyped, Row, CoTyped, Co
<1>1. ASSUME row'.status \in Paused PROVE v <= row'.ver
  <2>1. CASE row' = row
    BY <1>1, <2>1 DEF Older
  <2>2. ASSUME NEW a \in Actor, PauseForApproval(a) \/ PauseForBrowserExecution(a),
               row'.ver = co[a].ver + 1
        PROVE  v <= row'.ver
    <3>1. Looping(a)
      BY <2>2 DEF PauseForApproval, PauseForBrowserExecution, Looping
    <3>2. QED
      BY <1>0, <2>2, <3>1 DEF Older
  <2>3. ASSUME NEW u, Unchanged(u), row'.ver = row.ver + 1 PROVE v <= row'.ver
    BY <1>0, <2>3 DEF Older, Unchanged, Paused
  <2>4. ASSUME row' = [row EXCEPT !.claimed = TRUE, !.ver = @ + 1]
               \/ \E o : row' = [row EXCEPT !.report = o, !.ver = @ + 1]
        PROVE  row'.ver = row.ver + 1
    BY <1>0, <2>4 DEF Row
  <2>5. ASSUME row' = [row EXCEPT !.status = "RESUMING", !.ver = @ + 1] PROVE FALSE
    BY <1>0, <1>1, <2>5 DEF Row, Paused
  <2>6. QED
    BY <1>0, <1>1, <2>1, <2>2, <2>3, <2>4, <2>5, StoredTask DEF Paused, Ended
<1>2. ASSUME NEW a \in Actor, Looping(a)' PROVE v < co'[a].ver
  <2>1. CASE Looping(a) /\ co'[a].ver = co[a].ver
    BY <2>1 DEF Older
  <2>2. CASE Claims(a) /\ co'[a].ver = row.ver + 1
    BY <1>0, <2>2 DEF Older, Claims
  <2>3. QED
    BY <1>0, <1>2, <2>1, <2>2, Coroutine DEF Looping
<1>3. QED
  BY <1>1, <1>2

LEMMA UnreadStep == ASSUME Typed, Unread, AgentNext PROVE Unread'
<1>0. CoTyped /\ RowTyped /\ WorldTyped /\ row \in Row
  BY DEF Typed, RowTyped
<1>1. SUFFICES ASSUME row'.status = "ABSENT"
               PROVE  sweep'.pc = "idle" /\ \A h \in Desk : ~ Stamped(h)'
  BY DEF Unread
<1>2. row.status = "ABSENT"
  BY <1>0, <1>1, StoredTask DEF Row, Ended, Unchanged
<1>3. sweep'.pc = "idle"
  BY <1>2, Sweep DEF Unread, PausedForBrowser
<1>4. ASSUME NEW h \in Desk PROVE ~ Stamped(h)'
  BY <1>0, <1>2, DeskTasks DEF Unread, PausedForBrowser, Stamped
<1>5. QED
  BY <1>3, <1>4

LEMMA StampsStep == ASSUME Typed, OneLoop, Unread, Stamps, AgentNext PROVE Stamps'
<1>0. /\ CoTyped /\ RowTyped /\ WorldTyped /\ row \in Row /\ row.ver \in Nat
  BY DEF Typed, RowTyped, Row
<1>1. ASSUME PausedForBrowser PROVE Older(row.ver)
  BY <1>0, <1>1 DEF Older, OneLoop, PausedForBrowser
<1>2. ASSUME NEW h \in Desk, Stamped(h)' PROVE Older(desk[h].ver)'
  <2>1. CASE PausedForBrowser /\ desk'[h].ver = row.ver
    BY <1>0, <1>1, <2>1, OlderStep DEF Older, PausedForBrowser
  <2>2. CASE Stamped(h) /\ desk'[h].ver = desk[h].ver
    <3>1. Older(desk[h].ver) /\ desk[h].ver \in Nat /\ row.status # "ABSENT"
      BY <1>0, <2>2 DEF Stamps, Unread, WorldTyped, DeskTask
    <3>2. QED
      BY <2>2, <3>1, OlderStep DEF Older
  <2>3. QED
    BY <1>0, <1>2, <2>1, <2>2, DeskTasks DEF Stamped
<1>3. ASSUME sweep'.pc = "expire" PROVE Older(sweep.ver)'
  <2>1. Older(sweep'.ver) /\ sweep'.ver \in Nat /\ row.status # "ABSENT"
    BY <1>0, <1>1, <1>3, Sweep DEF Stamps, WorldTyped, PausedForBrowser, Unread
  <2>2. QED
    BY <2>1, OlderStep DEF Older
<1>4. QED
  BY <1>2, <1>3 DEF Stamps

(* The pause a version was read of is no later than the present one, so    *)
(* that the row still has it only if nothing was written.                  *)
LEMMA LatestVersion ==
  ASSUME Typed, AgentNext, NEW v \in Nat, Older(v), PausedForBrowser', row'.ver = v
  PROVE  row' = row
<1>0. /\ CoTyped /\ RowTyped /\ WorldTyped /\ row \in Row /\ row.ver \in Nat
      /\ \A a \in Actor : co[a].ver \in Nat
  BY DEF Typed, RowTyped, Row, CoTyped, Co
<1>1. ASSUME NEW a \in Actor, PauseForBrowserExecution(a), row'.ver = co[a].ver + 1 PROVE FALSE
  BY <1>0, <1>1 DEF PauseForBrowserExecution, Looping, Older
<1>2. ASSUME NEW u, Unchanged(u) PROVE row'.ver # row.ver + 1
  BY <1>0, <1>2 DEF Unchanged, Older, Paused
<1>3. ASSUME row' = [row EXCEPT !.claimed = TRUE, !.ver = @ + 1]
             \/ \E o : row' = [row EXCEPT !.report = o, !.ver = @ + 1]
      PROVE  row'.ver = row.ver + 1
  BY <1>0, <1>3 DEF Row
<1>4. ASSUME row' = [row EXCEPT !.status = "RESUMING", !.ver = @ + 1] PROVE FALSE
  BY <1>0, <1>4 DEF Row, PausedForBrowser
<1>5. QED
  BY <1>0, <1>1, <1>2, <1>3, <1>4, StoredTask DEF PausedForBrowser, Ended

LEMMA StampsMatchStep ==
  ASSUME Typed, Stamps, StampsMatch, PauseTrue, AgentNext PROVE StampsMatch'
<1>0. RowTyped /\ WorldTyped
  BY DEF Typed
<1>1. ASSUME NEW h \in Desk, PausedForBrowser', Stamped(h)', row'.ver = desk'[h].ver
      PROVE  /\ row'.grant = desk'[h].grant /\ row'.report = "none"
             /\ row'.claimed <=> desk'[h].pc = "record"
  <2>1. CASE desk'[h] = desk[h]
    <3>1. Stamped(h) /\ desk[h].ver \in Nat /\ Older(desk[h].ver) /\ row'.ver = desk[h].ver
      BY <1>0, <1>1, <2>1 DEF Stamped, Stamps, WorldTyped, DeskTask
    <3>2. row' = row
      BY <1>1, <3>1, LatestVersion
    <3>3. QED
      BY <1>1, <2>1, <3>1, <3>2 DEF StampsMatch, PausedForBrowser
  <2>2. CASE /\ PausedForBrowser /\ row' = row /\ ~ row.claimed
             /\ desk'[h].pc = "claim" /\ desk'[h].grant = row.grant
    BY <2>2 DEF PauseTrue
  <2>3. QED
    BY <1>0, <1>1, <2>1, <2>2, DeskTasks DEF Stamped
<1>2. ASSUME PausedForBrowser', sweep'.pc = "expire", row'.ver = sweep'.ver
      PROVE  row'.report = "none" /\ (row'.claimed <=> sweep'.claimed)
  <2>1. CASE sweep' = sweep
    <3>1. sweep.ver \in Nat /\ Older(sweep.ver) /\ row'.ver = sweep.ver
      BY <1>0, <1>2, <2>1 DEF Stamps, WorldTyped
    <3>2. row' = row
      BY <1>2, <3>1, LatestVersion
    <3>3. QED
      BY <1>2, <2>1, <3>2 DEF StampsMatch, PausedForBrowser
  <2>2. QED
    BY <1>2, <2>1, Sweep
<1>3. QED
  BY <1>1, <1>2 DEF StampsMatch

(* A desktop task at work was so before, or has just claimed the grant of  *)
(* the present pause, which nobody had claimed.                            *)
LEMMA Worker ==
  ASSUME Typed, StampsMatch, AgentNext, NEW h \in Desk, AtWork(h)'
  PROVE  \/ /\ AtWork(h) /\ desk'[h].grant = desk[h].grant
            /\ desk'[h].pc = "act" => desk'[h] = desk[h]
         \/ /\ desk[h].pc = "claim" /\ desk'[h].pc = "act" /\ desk'[h].grant = row.grant
            /\ PausedForBrowser /\ ~ row.claimed /\ row.report = "none" /\ row'.claimed
            /\ grants' = grants /\ \A i \in Desk : i # h => desk'[i] = desk[i]
<1>0. RowTyped /\ WorldTyped
  BY DEF Typed
<1>1. CASE desk[h].pc = "claim" /\ Unchanged(desk[h].ver) /\ desk'[h].grant = desk[h].grant
  <2>1. /\ desk'[h].grant = row.grant /\ PausedForBrowser /\ ~ row.claimed
        /\ row.report = "none"
    BY <1>1 DEF StampsMatch, Unchanged, PausedForBrowser, Stamped
  <2>2. QED
    BY <1>0, <1>1, <2>1, DeskTasks DEF AtWork
<1>2. QED
  BY <1>0, <1>1, DeskTasks DEF AtWork

(* Where nobody is about to act under a grant, nothing happens under it,   *)
(* and nobody will be unless the pause of the grant is still to be claimed.*)
LEMMA DoneKept ==
  ASSUME Typed, AgentNext, NEW g \in DOMAIN grants, Over(g)
  PROVE  grants'[g].done = grants[g].done
<1>1. ASSUME NEW h \in Desk, ExecuteGrantedAction(h), desk[h].grant = g PROVE FALSE
  BY <1>1 DEF ExecuteGrantedAction, Over
<1>2. QED
  BY <1>1, Grants DEF Typed

LEMMA OverKept ==
  ASSUME Typed, StampsMatch, AgentNext, NEW g, Over(g),
         PausedForBrowser /\ row.grant = g => row.claimed
  PROVE  \A h \in Desk : ~ (desk'[h].pc = "act" /\ desk'[h].grant = g)
<1>1. SUFFICES ASSUME NEW h \in Desk, desk'[h].pc = "act", desk'[h].grant = g PROVE FALSE
  OBVIOUS
<1>2. AtWork(h)'
  BY <1>1 DEF AtWork
<1>3. QED
  BY <1>1, <1>2, Worker DEF Over

LEMMA HoldersStep ==
  ASSUME Typed, StampsMatch, PauseTrue, Holders, AgentNext PROVE Holders'
<1>0. CoTyped /\ RowTyped /\ WorldTyped
  BY DEF Typed
<1> SUFFICES ASSUME NEW h \in Desk, AtWork(h)'
             PROVE  /\ desk'[h].grant \in DOMAIN grants'
                    /\ \A i \in Desk : AtWork(i)' /\ desk'[i].grant = desk'[h].grant => i = h
                    /\ desk'[h].pc = "act" => ~ grants'[desk'[h].grant].done
                    /\ desk'[h].pc # "act" =>
                         /\ desk'[h].outcome = "yes" => grants'[desk'[h].grant].done
                         /\ desk'[h].outcome = "no" => ~ grants'[desk'[h].grant].done
  BY DEF Holders
<1> DEFINE Kept(i) == /\ AtWork(i) /\ desk'[i].grant = desk[i].grant
                      /\ desk'[i].pc = "act" => desk'[i] = desk[i]
           New(i) == /\ desk[i].pc = "claim" /\ desk'[i].pc = "act" /\ desk'[i].grant = row.grant
                     /\ PausedForBrowser /\ ~ row.claimed /\ row.report = "none"
                     /\ grants' = grants /\ \A j \in Desk : j # i => desk'[j] = desk[j]
<1>1. ASSUME NEW i \in Desk, AtWork(i)' PROVE Kept(i) \/ New(i)
  BY <1>1, Worker
<1>2. ASSUME Kept(h) PROVE desk[h].grant \in DOMAIN grants
  BY <1>2 DEF Holders
<1>3. desk'[h].grant \in DOMAIN grants'
  BY <1>0, <1>1, <1>2, Grants DEF Typed
<1>4. ASSUME NEW i \in Desk, NEW j \in Desk, New(i), i # j, AtWork(j)' PROVE desk'[j].grant # desk'[i].grant
  <2>1. AtWork(j) /\ desk'[j] = desk[j]
    BY <1>4 DEF AtWork
  <2>2. QED
    BY <1>4, <2>1 DEF PauseTrue
<1>5. ASSUME NEW i \in Desk, AtWork(i)', desk'[i].grant = desk'[h].grant PROVE i = h
  BY <1>1, <1>4, <1>5 DEF Holders
<1>6. ASSUME Kept(h), desk[h].pc # "act" PROVE Over(desk[h].grant)
  BY <1>6 DEF Over, Holders, AtWork
<1>7. ASSUME desk'[h].pc = "act" PROVE ~ grants'[desk'[h].grant].done
  <2>1. CASE Kept(h)
    <3>1. ~ grants[desk[h].grant].done
      BY <1>7, <2>1 DEF Holders
    <3>2. ASSUME NEW i \in Desk, ExecuteGrantedAction(i), desk[i].grant = desk[h].grant PROVE FALSE
      <4>1. i = h
        BY <2>1, <3>2 DEF Holders, AtWork, ExecuteGrantedAction
      <4>2. desk'[h].pc = "report"
        BY <1>0, <3>2, <4>1 DEF ExecuteGrantedAction, WorldTyped, DeskTask
      <4>3. QED
        BY <1>7, <4>2
    <3>3. QED
      BY <1>0, <1>2, <2>1, <3>1, <3>2, Grants
  <2>2. CASE New(h)
    BY <2>2 DEF PauseTrue
  <2>3. QED
    BY <1>1, <2>1, <2>2
<1>8. ASSUME desk'[h].pc # "act"
      PROVE  /\ desk'[h].outcome = "yes" => grants'[desk'[h].grant].done
             /\ desk'[h].outcome = "no" => ~ grants'[desk'[h].grant].done
  <2>1. Kept(h) /\ desk[h].grant \in DOMAIN grants
    BY <1>1, <1>2, <1>8
  <2>2. CASE desk[h].pc # "act" /\ desk'[h].outcome = desk[h].outcome
    BY <1>0, <1>6, <2>1, <2>2, DoneKept, Grants DEF Holders
  <2>3. CASE /\ desk[h].pc = "act"
             /\ desk'[h].outcome = "yes" => grants'[desk[h].grant].done
             /\ desk'[h].outcome = "no" => grants'[desk[h].grant].done = grants[desk[h].grant].done
    BY <2>1, <2>3, SMTT(30) DEF Holders
  <2>4. QED
    BY <1>0, <1>8, <2>1, <2>2, <2>3, DeskTasks DEF AtWork
<1>9. QED
  BY <1>3, <1>5, <1>7, <1>8

LEMMA PauseTrueStep ==
  ASSUME Typed, StampsMatch, PauseTrue, Holders, AgentNext PROVE PauseTrue'
<1>0. CoTyped /\ RowTyped /\ WorldTyped /\ row \in Row
  BY DEF Typed, RowTyped
<1> SUFFICES ASSUME PausedForBrowser'
             PROVE  /\ grants'[row'.grant].told = "none"
                    /\ ~ row'.claimed =>
                         /\ row'.report = "none" /\ ~ grants'[row'.grant].done
                         /\ \A h \in Desk : AtWork(h)' => desk'[h].grant # row'.grant
                    /\ row'.report = "yes" => grants'[row'.grant].done
                    /\ row'.report = "no" => /\ ~ grants'[row'.grant].done
                                             /\ \A h \in Desk : ~ (/\ desk'[h].pc = "act"
                                                                   /\ desk'[h].grant = row'.grant)
  BY DEF PauseTrue, Over
<1>1. ASSUME PausedForBrowser, row'.grant = row.grant
      PROVE  row.grant \in DOMAIN grants /\ grants'[row'.grant].told = "none"
  <2>1. row.grant \in DOMAIN grants
    BY <1>1 DEF Typed
  <2>2. row'.status # "RESUMING" /\ row'.status # "CANCELLED"
    BY DEF PausedForBrowser
  <2>3. grants'[row.grant].told = grants[row.grant].told
    BY <1>0, <2>1, <2>2, Grants
  <2>4. QED
    BY <1>1, <2>1, <2>3 DEF PauseTrue
<1>2. CASE row' = row
  <2>0. PausedForBrowser /\ row.grant \in DOMAIN grants /\ grants'[row.grant].told = "none"
    BY <1>1, <1>2 DEF PausedForBrowser
  <2>1. ASSUME ~ row.claimed
        PROVE  /\ row.report = "none" /\ ~ grants'[row.grant].done
               /\ \A h \in Desk : AtWork(h)' => desk'[h].grant # row.grant
    <3>1. Over(row.grant) /\ ~ grants[row.grant].done /\ row.report = "none"
      BY <2>0, <2>1 DEF PauseTrue, Over, AtWork
    <3>2. ASSUME NEW h \in Desk, AtWork(h)' PROVE desk'[h].grant # row.grant
      BY <1>2, <2>0, <2>1, <3>2, Worker DEF PauseTrue
    <3>3. QED
      BY <2>0, <3>1, <3>2, DoneKept
  <2>2. row.report = "yes" => grants'[row.grant].done
    BY <1>0, <2>0, Grants DEF PauseTrue
  <2>3. ASSUME row.report = "no"
        PROVE  /\ ~ grants'[row.grant].done
               /\ \A h \in Desk : ~ (desk'[h].pc = "act" /\ desk'[h].grant = row.grant)
    <3>1. row.claimed /\ Over(row.grant) /\ ~ grants[row.grant].done
      BY <2>0, <2>3 DEF PauseTrue
    <3>2. QED
      BY <2>0, <3>1, DoneKept, OverKept
  <2>4. QED
    BY <1>2, <2>0, <2>1, <2>2, <2>3
<1>3. ASSUME NEW a \in Actor, PauseForBrowserExecution(a), row'.grant = Len(grants) + 1,
             ~ row'.claimed, row'.report = "none"
      PROVE  /\ grants'[row'.grant].told = "none" /\ ~ grants'[row'.grant].done
             /\ \A h \in Desk : AtWork(h)' => desk'[h].grant # row'.grant
  <2>1. /\ row'.grant \notin DOMAIN grants /\ desk' = desk
        /\ grants'[row'.grant].told = "none" /\ ~ grants'[row'.grant].done
    BY <1>0, <1>3, Minted
  <2>2. QED
    BY <2>1 DEF Holders, AtWork
<1>4. ASSUME NEW h \in Desk, desk[h].pc = "claim", Unchanged(desk[h].ver),
             row' = [row EXCEPT !.claimed = TRUE, !.ver = @ + 1]
      PROVE  row'.claimed /\ row'.report = "none" /\ grants'[row'.grant].told = "none"
  BY <1>0, <1>1, <1>4 DEF Row, StampsMatch, Stamped, Unchanged, PausedForBrowser
<1>5. ASSUME NEW h \in Desk, desk[h].pc = "record", Unchanged(desk[h].ver),
             row' = [row EXCEPT !.report = desk[h].outcome, !.ver = @ + 1]
      PROVE  /\ row'.claimed /\ grants'[row'.grant].told = "none"
             /\ row'.report = "yes" => grants'[row'.grant].done
             /\ row'.report = "no" => /\ ~ grants'[row'.grant].done
                                      /\ \A i \in Desk : ~ (/\ desk'[i].pc = "act"
                                                            /\ desk'[i].grant = row'.grant)
  <2>1. /\ PausedForBrowser /\ row.claimed /\ row.grant = desk[h].grant
        /\ row'.claimed /\ row'.grant = row.grant /\ row'.report = desk[h].outcome
    BY <1>0, <1>5 DEF Row, StampsMatch, Stamped, Unchanged, PausedForBrowser
  <2>2. row.grant \in DOMAIN grants /\ grants'[row'.grant].told = "none"
    BY <1>1, <2>1
  <2>3. Over(row.grant)
    BY <1>5, <2>1 DEF Over, Holders, AtWork
  <2>4. /\ desk[h].outcome = "yes" => grants[row.grant].done
        /\ desk[h].outcome = "no" => ~ grants[row.grant].done
    BY <1>5, <2>1 DEF Holders, AtWork
  <2>5. grants'[row.grant].done = grants[row.grant].done
    BY <2>2, <2>3, DoneKept
  <2>6. QED
    BY <2>1, <2>2, <2>3, <2>4, <2>5, OverKept
<1>6. ASSUME row' = [row EXCEPT !.status = "RESUMING", !.ver = @ + 1] PROVE FALSE
  BY <1>0, <1>6 DEF Row, PausedForBrowser
<1>7. QED
  BY <1>0, <1>2, <1>3, <1>4, <1>5, <1>6, StoredTask DEF PausedForBrowser, Ended

LEMMA ToldTrueStep ==
  ASSUME Typed, StampsMatch, PauseTrue, ToldTrue, AgentNext PROVE ToldTrue'
<1>0. CoTyped /\ RowTyped /\ WorldTyped
  BY DEF Typed
<1>1. ASSUME NEW g \in DOMAIN grants, grants[g].done PROVE grants'[g].done
  BY <1>0, <1>1, Grants
<1> SUFFICES ASSUME NEW g \in DOMAIN grants'
             PROVE  /\ grants'[g].told = "yes" => grants'[g].done
                    /\ grants'[g].told = "no" =>
                         /\ ~ grants'[g].done
                         /\ \A h \in Desk : ~ (desk'[h].pc = "act" /\ desk'[h].grant = g)
  BY DEF ToldTrue, Over
<1>2. CASE g \notin DOMAIN grants
  BY <1>0, <1>2, Minting
<1>3. CASE g \in DOMAIN grants /\ grants'[g].told = grants[g].told
  <2>1. ASSUME grants[g].told = "no"
        PROVE  /\ ~ grants'[g].done
               /\ \A h \in Desk : ~ (desk'[h].pc = "act" /\ desk'[h].grant = g)
    <3>1. /\ ~ grants[g].done /\ Over(g)
          /\ PausedForBrowser => row.grant # g
      BY <1>3, <2>1 DEF ToldTrue, PauseTrue
    <3>2. QED
      BY <1>3, <3>1, DoneKept, OverKept
  <2>2. QED
    BY <1>1, <1>3, <2>1 DEF ToldTrue
<1>4. CASE /\ g \in DOMAIN grants /\ PausedForBrowser /\ row.grant = g
           /\ grants'[g].told = row.report
  <2>1. ASSUME row.report = "no"
        PROVE  /\ ~ grants'[g].done
               /\ \A h \in Desk : ~ (desk'[h].pc = "act" /\ desk'[h].grant = g)
    <3>1. ~ grants[g].done /\ Over(g) /\ row.claimed
      BY <1>4, <2>1 DEF PauseTrue
    <3>2. QED
      BY <1>4, <3>1, DoneKept, OverKept
  <2>2. QED
    BY <1>1, <1>4, <2>1 DEF PauseTrue
<1>5. CASE /\ g \in DOMAIN grants /\ ExpireBrowserExecution /\ sweep.pc = "expire"
           /\ Unchanged(sweep.ver) /\ row.grant = g
           /\ grants'[g].told = ExpiredResult(sweep.claimed)
  <2>1. grants'[g].told # "yes"
    BY <1>5 DEF ExpiredResult
  <2>2. ASSUME grants'[g].told = "no"
        PROVE  /\ ~ grants'[g].done
               /\ \A h \in Desk : ~ (desk'[h].pc = "act" /\ desk'[h].grant = g)
    <3>1. PausedForBrowser /\ ~ row.claimed
      BY <1>5, <2>2 DEF ExpiredResult, Unchanged, StampsMatch, PausedForBrowser
    <3>2. ~ grants[g].done /\ Over(g) /\ desk' = desk
      BY <1>5, <3>1 DEF PauseTrue, Over, AtWork, ExpireBrowserExecution
    <3>3. QED
      BY <1>5, <3>2, DoneKept DEF Over
  <2>3. QED
    BY <2>1, <2>2
<1>6. QED
  BY <1>0, <1>2, <1>3, <1>4, <1>5, Grants DEF PausedForBrowser

LEMMA InvStep == AgentInv /\ [AgentNext]_agentVars => AgentInv'
<1>1. ASSUME AgentInv, AgentNext PROVE AgentInv'
  BY <1>1, TypeStep, OneLoopStep, UnreadStep, StampsStep, StampsMatchStep, HoldersStep,
     PauseTrueStep, ToldTrueStep DEF AgentInv
<1>2. ASSUME AgentInv, UNCHANGED agentVars PROVE AgentInv'
  <2>1. UNCHANGED <<row, asked, ticket, events, tokens, co, others, arrivals, calls, grants, desk,
                    ran, sweep, byToken, faults>>
    BY <1>2 DEF agentVars, ticketVars, slotVars, worldVars
  <2>2. Typed' /\ OneLoop'
    BY <1>2, <2>1 DEF AgentInv, Typed, CoTyped, RowTyped, Small, WorldTyped, PausingGated,
       PausedForBrowser, OneLoop, Looping
  <2>3. Unread' /\ Stamps' /\ StampsMatch'
    BY <1>2, <2>1 DEF AgentInv, Unread, Stamps, StampsMatch, Stamped, Older, Looping,
       PausedForBrowser
  <2>4. Holders' /\ PauseTrue' /\ ToldTrue'
    BY <1>2, <2>1 DEF AgentInv, Holders, PauseTrue, ToldTrue, AtWork, Over, PausedForBrowser
  <2>5. QED
    BY <2>2, <2>3, <2>4 DEF AgentInv
<1>3. QED
  BY <1>1, <1>2

LEMMA InvInit == AgentInit => AgentInv
<1> SUFFICES ASSUME AgentInit PROVE AgentInv
  OBVIOUS
<1> USE AgentAssumption DEF AgentInit
<1>1. /\ 0 \in 0..MaxBatches /\ 0 \in 0..MaxGrants /\ 0 \in Nat /\ "none" \in Outcome
      /\ Idle \in Co /\ Resting \in DeskTask
  BY DEF Outcome, Idle, Co, Pc, Resting, DeskTask, AgentAssumption
<1>2. grants \in Seq(GrantRecord) /\ Len(grants) = 0 /\ DOMAIN grants = {}
  BY EmptySeq
<1>3. CoTyped /\ Small /\ PausingGated
  BY <1>1 DEF CoTyped, Small, PausingGated, Idle
<1>4. RowTyped
  BY <1>1 DEF RowTyped, Row, Status
<1>5. WorldTyped
  BY <1>1, <1>2 DEF WorldTyped, Waiting, AgentAssumption
<1>6. Typed
  BY <1>3, <1>4, <1>5 DEF Typed, PausedForBrowser
<1>7. \A a \in Actor : ~ Looping(a)
  BY DEF Looping, Idle
<1>8. OneLoop /\ Unread /\ Stamps /\ StampsMatch
  BY <1>7 DEF OneLoop, Unread, Stamps, StampsMatch, Stamped, Resting, Waiting, PausedForBrowser
<1>9. Holders /\ PauseTrue /\ ToldTrue
  BY <1>2 DEF Holders, PauseTrue, ToldTrue, AtWork, Resting, PausedForBrowser
<1>10. QED
  BY <1>6, <1>8, <1>9 DEF AgentInv

-----------------------------------------------------------------------------
(* The theorems.                                                           *)

LEMMA Invariance == AgentSpec => []AgentInv
  BY InvInit, InvStep, PTL DEF AgentSpec

(* Every variable keeps its type, and a task that is paused for the browser*)
(* names a grant that was minted for its batch, whatever races with what.  *)
THEOREM AgentTypeCorrect == AgentSpec => []AgentTypeOK
<1>1. AgentInv => AgentTypeOK
  BY DEF AgentInv, Typed, CoTyped, RowTyped, Small, WorldTyped, AgentTypeOK, PausedForBrowser,
     Row, Co, Pc, GrantRecord, DeskTask
<1>2. QED
  BY <1>1, Invariance, PTL

(* One coroutine at a time runs the loop of a task, and none while the     *)
(* stored task is paused or ended: the claim of ai/persistence.py lets one *)
(* of any number of resumptions through.                                   *)
THEOREM OneLoopAlways == AgentSpec => []OneLoop
<1>1. AgentInv => OneLoop
  BY DEF AgentInv
<1>2. QED
  BY <1>1, Invariance, PTL

(* What the model is told of a browser call stays true: a call it was told *)
(* did not happen will not happen under its grant later either.            *)
THEOREM TellsTruth == AgentSpec => []ToldIsTrue
<1>1. AgentInv => ToldIsTrue
  BY DEF AgentInv, ToldTrue, ToldIsTrue
<1>2. QED
  BY <1>1, Invariance, PTL

(* A recorded outcome is the one the model is told.                        *)
THEOREM OutcomeKeptAlways == AgentSpec => OutcomeKept
<1>1. ASSUME AgentInv, AgentNext, PausedForBrowser, row.report # "none"
      PROVE  /\ grants'[row.grant].told \in {"none", row.report}
             /\ row'.grant = row.grant => row'.report = row.report
  <2>0. /\ CoTyped /\ RowTyped /\ WorldTyped /\ row \in Row /\ row.grant \in DOMAIN grants
        /\ grants[row.grant].told = "none"
        /\ \A a \in Actor : ~ Looping(a)
    BY <1>1 DEF AgentInv, Typed, RowTyped, PauseTrue, OneLoop, PausedForBrowser
  <2>1. ~ (sweep.pc = "expire" /\ Unchanged(sweep.ver))
    BY <1>1 DEF AgentInv, StampsMatch, Unchanged
  <2>2. grants'[row.grant].told \in {"none", row.report}
    BY <1>1, <2>0, <2>1, Grants
  <2>3. ASSUME NEW h \in Desk PROVE ~ (desk[h].pc = "record" /\ Unchanged(desk[h].ver))
    BY <1>1 DEF AgentInv, StampsMatch, Stamped, Unchanged
  <2>4. ASSUME NEW a \in Actor
        PROVE  co[a].pc \notin {"turn", "pausing", "batch"}
    BY <2>0 DEF Looping
  <2>5. ASSUME row' = [row EXCEPT !.status = "RESUMING", !.ver = @ + 1]
               \/ row' = [row EXCEPT !.claimed = TRUE, !.ver = @ + 1]
        PROVE  row'.report = row.report
    BY <2>0, <2>5 DEF Row
  <2>6. row'.report = row.report
    BY <1>1, <2>0, <2>3, <2>4, <2>5, StoredTask DEF PausedForBrowser
  <2>7. QED
    BY <2>2, <2>6
<1>2. ASSUME AgentInv, UNCHANGED agentVars, PausedForBrowser
      PROVE  /\ grants'[row.grant].told \in {"none", row.report}
             /\ row'.grant = row.grant => row'.report = row.report
  BY <1>2 DEF agentVars, worldVars, AgentInv, PauseTrue
<1>3. AgentInv /\ [AgentNext]_agentVars =>
        [row.status = "PAUSED_FOR_BROWSER_EXECUTION" /\ row.report # "none"
          => /\ grants'[row.grant].told \in {"none", row.report}
             /\ row'.grant = row.grant => row'.report = row.report]_agentVars
  BY <1>1, <1>2 DEF PausedForBrowser
<1>4. QED
  BY <1>3, Invariance, PTL DEF AgentSpec, OutcomeKept

(* What the model is told is what happened and what was recorded first.    *)
THEOREM ToldAsRecordedAlways == AgentSpec => ToldAsRecorded
BY TellsTruth, OutcomeKeptAlways, PTL DEF ToldAsRecorded

(* Once no loop runs, nothing under way brings a cancelled task back.      *)
THEOREM CancelHoldsAlways == AgentSpec => CancelHolds
<1>1. ASSUME AgentInv, AgentNext, row.status = "CANCELLED", \A a \in Actor : ~ Looping(a)
      PROVE  row'.status = "CANCELLED"
  <2>0. CoTyped /\ RowTyped /\ WorldTyped
    BY <1>1 DEF AgentInv, Typed
  <2>1. ASSUME NEW a \in Actor
        PROVE  co[a].pc \notin {"turn", "pausing", "batch"} /\ ~ Claims(a)
    BY <1>1 DEF Looping, Claims, Paused
  <2>2. ASSUME NEW v PROVE ~ Unchanged(v)
    BY <1>1 DEF Unchanged
  <2>3. QED
    BY <1>1, <2>0, <2>1, <2>2, StoredTask
<1>2. AgentInv /\ [AgentNext]_agentVars =>
        [row.status = "CANCELLED" /\ (\A a \in Actor : ~ Looping(a))
          => row'.status = "CANCELLED"]_agentVars
  BY <1>1
<1>3. QED
  BY <1>2, Invariance, PTL DEF AgentSpec, CancelHolds


-----------------------------------------------------------------------------
(* The promise to the approver *)

\* What anybody has to do with a batch was proposed.
Proposed ==
  /\ \A a \in Actor : co[a].batch <= asked
  /\ row.batch <= asked
  /\ \A g \in DOMAIN grants : grants[g].batch <= asked
  /\ \A p \in Gated : ticket[p] # "none" => p <= asked
  /\ \A p \in Batch : ran[p] > 0 => p <= asked

\* A batch that waits for consent, or is about to be carried out, has had no
\* effect and no grant.
AtHand(p) == Held(p) \/ \E a \in Actor : co[a].pc = "batch" /\ co[a].batch = p
Untouched ==
  \A p \in Batch : AtHand(p) => ran[p] = 0 /\ \A g \in DOMAIN grants : grants[g].batch # p

\* A batch has one grant, and the effect it has under it redeems the grant.
OneGrant ==
  /\ \A f, g \in DOMAIN grants : grants[f].batch = grants[g].batch => f = g
  /\ \A g \in DOMAIN grants : ~ grants[g].redeemed => ran[grants[g].batch] = 0

\* While a ticket is open, its decision under way or its handler about to claim
\* the pause, the task does not get past the batch.
Undelivered(p) == ticket[p] = "PENDING" \/ p \in events
Claimant(p) == co[Handler(p)].pc \in {"reread", "claim"}
Halted(p) ==
  /\ p = asked
  /\ row.status \notin {"ABSENT", "PAUSED_FOR_BROWSER_EXECUTION"}
  /\ row.status = "PAUSED_FOR_APPROVAL" => row.batch = p
  /\ \A a \in Actor : Looping(a) => co[a].pc = "pausing" /\ co[a].batch = p
Halts == \A p \in Gated : Undelivered(p) \/ Claimant(p) => Halted(p)

\* The handler that claims a pause was called with the approval of its ticket.
Consented ==
  /\ \A p \in Gated : Claimant(p) => /\ ticket[p] = "APPROVED" /\ p \notin events
                                     /\ co[Handler(p)].batch = p
  /\ co[Call].pc \notin {"reread", "claim"}

PromiseInv == Proposed /\ Untouched /\ OneGrant /\ Halts /\ Consented
GovernedInv == AgentInv /\ (byToken \/ PromiseInv)

\* What a step does to a coroutine's place and batch, if no token is used.
LEMMA Places ==
  ASSUME CoTyped, RowTyped, ~ byToken, AgentNext, NEW a \in Actor
  PROVE  \/ co'[a] = co[a]
         \/ /\ co'[a].pc \in {"idle", "scheduled", "step", "turn", "cancel"}
            /\ co'[a].batch \in {0, co[a].batch, row.batch}
         \/ /\ Ask(a) /\ co[a].pc = "turn"
            /\ co'[a].pc = "pausing" /\ co'[a].batch = asked + 1
         \/ /\ Propose(a) /\ co[a].pc = "turn"
            /\ co'[a].pc = "batch" /\ co'[a].batch = asked + 1
         \/ a = Resume /\ co'[a].pc = "reread" /\ co'[a].batch = co[a].batch
         \/ /\ row' = row /\ ticket' = ticket /\ asked' = asked
            /\ row.status = "PAUSED_FOR_APPROVAL"
            /\ \E p \in events : /\ OnApprovalDecided(p) /\ events' = events \ {p}
                                 /\ a = Handler(p) /\ ticket[p] = "APPROVED"
                                 /\ co'[a].pc = "reread" /\ co'[a].batch = row.batch
         \/ /\ Reread(a) /\ co[a].pc = "reread"
            /\ co'[a].pc = "claim" /\ co'[a].batch = co[a].batch
         \/ /\ a # Resume /\ Claim(a) /\ co[a].pc = "claim"
            /\ row.status = "PAUSED_FOR_APPROVAL" /\ row'.status = "RESUMING"
            /\ row'.batch = row.batch
            /\ co'[a].pc = "batch" /\ co'[a].batch = co[a].batch
<1> DEFINE Quits(b) == /\ co'[b].pc \in {"idle", "scheduled", "step", "turn", "cancel"}
                       /\ co'[b].batch \in {0, co[b].batch, row.batch}
           Decides(b) == /\ row' = row /\ ticket' = ticket /\ asked' = asked
                         /\ row.status = "PAUSED_FOR_APPROVAL"
                         /\ \E p \in events : /\ OnApprovalDecided(p) /\ events' = events \ {p}
                                              /\ b = Handler(p) /\ ticket[p] = "APPROVED"
                                              /\ co'[b].pc = "reread" /\ co'[b].batch = row.batch
           Takes(b) == /\ b # Resume /\ Claim(b) /\ co[b].pc = "claim"
                       /\ row.status = "PAUSED_FOR_APPROVAL" /\ row'.status = "RESUMING"
                       /\ row'.batch = row.batch
                       /\ co'[b].pc = "batch" /\ co'[b].batch = co[b].batch
           Goal(b) == \/ co'[b] = co[b]
                      \/ Quits(b)
                      \/ /\ Ask(b) /\ co[b].pc = "turn"
                         /\ co'[b].pc = "pausing" /\ co'[b].batch = asked + 1
                      \/ /\ Propose(b) /\ co[b].pc = "turn"
                         /\ co'[b].pc = "batch" /\ co'[b].batch = asked + 1
                      \/ b = Resume /\ co'[b].pc = "reread" /\ co'[b].batch = co[b].batch
                      \/ Decides(b)
                      \/ /\ Reread(b) /\ co[b].pc = "reread"
                         /\ co'[b].pc = "claim" /\ co'[b].batch = co[b].batch
                      \/ Takes(b)
<1>0. /\ Call \in Actor /\ Resume \in Actor /\ \A p \in Gated : Handler(p) \in Actor
      /\ co[a] \in Co /\ row \in Row /\ co \in [Actor -> Co]
  BY DEF Actor, CoTyped, RowTyped
<1>1. ASSUME NEW b \in Actor, NEW c, co' = [co EXCEPT ![b] = c],
             c.pc \in {"idle", "scheduled", "step", "turn", "cancel"},
             c.batch \in {0, co[b].batch, row.batch}
      PROVE  co'[a] = co[a] \/ Quits(a)
  BY <1>0, <1>1
<1>2. ASSUME NEW b \in Actor, Stops(b) PROVE co'[a] = co[a] \/ Quits(a)
  BY <1>1, <1>2 DEF Stops, Idle
<1>3. CASE StartTask
  BY <1>0, <1>1, <1>3 DEF StartTask, Moves
<1>4. CASE Crash
  BY <1>4 DEF Crash, Idle
<1>5. ASSUME NEW b \in Actor, BuildContext(b) PROVE Goal(a)
  BY <1>1, <1>5 DEF BuildContext, Moves
<1>6. ASSUME NEW b \in Actor, Ask(b) PROVE Goal(a)
  BY <1>0, <1>6 DEF Ask, Moves
<1>7. ASSUME NEW b \in Actor, Propose(b) PROVE Goal(a)
  BY <1>0, <1>7 DEF Propose, Moves
<1>8. ASSUME NEW b \in Actor, InvokeTools(b) PROVE Goal(a)
  <2>1. co' = [co EXCEPT ![b].pc = "step"]
    BY <1>8 DEF InvokeTools, Goes
  <2>2. co'[b].pc = "step" /\ co'[b].batch = co[b].batch /\ \A c \in Actor : c # b => co'[c] = co[c]
    BY <1>0, <2>1 DEF Co
  <2>3. QED
    BY <2>2
<1>9. ASSUME NEW b \in Actor, Claim(b) PROVE Goal(a)
  <2>1. CASE row.status = Expected(b) /\ row.ver = co[b].ver
    <3>1. \A c \in Actor : c # b => co'[c] = co[c]
      BY <1>0, <1>9, <2>1 DEF Claim, Moves
    <3>2. row'.status = "RESUMING" /\ row'.batch = row.batch
      BY <1>0, <1>9, <2>1 DEF Claim, Row
    <3>3. CASE b = Resume
      <4>1. co'[b].pc = "step" /\ co'[b].batch = row.batch
        BY <1>0, <1>9, <2>1, <3>3 DEF Claim, Moves
      <4>2. QED
        BY <3>1, <4>1
    <3>4. CASE b # Resume
      <4>1. co'[b].pc = "batch" /\ co'[b].batch = co[b].batch /\ co[b].pc = "claim"
        BY <1>0, <1>9, <2>1, <3>4 DEF Claim, Moves
      <4>2. row.status = "PAUSED_FOR_APPROVAL"
        BY <2>1, <3>4 DEF Expected
      <4>3. Takes(b)
        BY <1>9, <3>2, <3>4, <4>1, <4>2
      <4>4. QED
        BY <3>1, <4>3
    <3>5. QED
      BY <3>3, <3>4
  <2>2. QED
    BY <1>2, <1>9, <2>1 DEF Claim
<1>10. ASSUME NEW b \in Actor, Reread(b) PROVE Goal(a)
  <2>1. CASE row.status = Expected(b) /\ (b = Resume => row.report # "none")
    BY <1>0, <1>10, <2>1 DEF Reread, Moves
  <2>2. QED
    BY <1>2, <1>10, <2>1 DEF Reread
<1>11. ASSUME NEW b \in Actor, Runs(b) \/ Fail(b) PROVE Goal(a)
  BY <1>2, <1>5, <1>6, <1>7, <1>8, <1>9, <1>10, <1>11
  DEF Runs, EndTask, PauseForApproval, PauseForBrowserExecution, Fail
<1>12. ASSUME NEW p \in Gated, Resumes(p) PROVE Goal(a)
  <2>1. CASE CancelRefused(p)
    BY <1>0, <1>2, <2>1 DEF CancelRefused
  <2>2. CASE OnApprovalDecided(p)
    <3>1. CASE UNCHANGED co
      BY <3>1
    <3>2. CASE Reaction(p) = "cancel" /\ Moves(Handler(p), "cancel", 0, row.batch)
      BY <1>0, <1>1, <3>2 DEF Moves
    <3>3. CASE Reaction(p) = "reread" /\ Moves(Handler(p), "reread", 0, row.batch)
      <4>1. row.status = "PAUSED_FOR_APPROVAL" /\ ticket[p] = "APPROVED"
        BY <3>3 DEF Reaction
      <4>2. /\ row' = row /\ ticket' = ticket /\ asked' = asked
            /\ p \in events /\ events' = events \ {p}
        BY <2>2 DEF OnApprovalDecided
      <4>3. /\ co'[Handler(p)].pc = "reread" /\ co'[Handler(p)].batch = row.batch
            /\ \A c \in Actor : c # Handler(p) => co'[c] = co[c]
        BY <1>0, <3>3 DEF Moves
      <4>4. Decides(Handler(p))
        BY <2>2, <4>1, <4>2, <4>3
      <4>5. QED
        BY <4>3, <4>4
    <3>4. QED
      BY <2>2, <3>1, <3>2, <3>3 DEF OnApprovalDecided, Reaction
  <2>3. QED
    BY <1>12, <2>1, <2>2 DEF Resumes
<1>13. ASSUME Schedules PROVE co'[a] = co[a] \/ Quits(a)
  BY <1>0, <1>13 DEF Schedules, Co
<1>14. CASE ResumeBrowserTask
  <2>1. CASE Goes(Resume, "reread")
    <3>1. /\ co'[Resume].pc = "reread" /\ co'[Resume].batch = co[Resume].batch
          /\ \A c \in Actor : c # Resume => co'[c] = co[c]
      BY <1>0, <2>1 DEF Goes, Co
    <3>2. QED
      BY <3>1
  <2>2. QED
    BY <1>0, <1>2, <1>14, <2>1 DEF ResumeBrowserTask
<1>15. CASE SweepBrowserExecutions
  BY <1>13, <1>15, SMTT(30) DEF SweepBrowserExecutions
<1>16. ASSUME NEW h \in Desk, Carries(h) PROVE Goal(a)
  BY <1>13, <1>16 DEF Carries, LoadBrowserPause, ClaimBrowserExecution, ExecuteGrantedAction,
     ReportExecution, RecordReport, ReportUndelivered
<1>17. CASE CancelTask \/ ExpireBrowserExecution \/ OtherArrives \/ OtherEnds
            \/ (\E p \in Gated : Decide(p)) \/ (\E g \in Grant : GrantAges(g))
  BY <1>17 DEF CancelTask, ExpireBrowserExecution, OtherArrives, OtherEnds, Decide, GrantAges
<1>18. \A p \in Gated : ~ ResumeByToken(p)
  BY DEF ResumeByToken
<1>19. QED
  BY <1>3, <1>4, <1>11, <1>12, <1>14, <1>15, <1>16, <1>17, <1>18 DEF AgentNext

\* What becomes of the tickets: one is made, or decided.
LEMMA TicketMoves ==
  ASSUME Small, AgentNext
  PROVE  \/ /\ asked' = asked
            /\ \A p \in Gated :
                 /\ ticket'[p] = ticket[p] \/ ticket[p] = "PENDING"
                 /\ p \in events' => p \in events \/ ticket[p] = "PENDING"
         \/ /\ \E a \in Actor : Ask(a)
            /\ asked' = asked + 1 /\ asked' \in Gated /\ events' = events
            /\ \A p \in Gated : p # asked' => ticket'[p] = ticket[p]
         \/ /\ \E a \in Actor : Propose(a)
            /\ asked' = asked + 1 /\ asked' \in Batch \ Gated /\ UNCHANGED <<ticket, events>>
<1>1. CASE UNCHANGED <<asked, ticket>> /\ events' \subseteq events
  BY <1>1
<1>2. ASSUME NEW p \in Gated, Decide(p)
      PROVE  /\ asked' = asked
             /\ \A q \in Gated :
                  /\ ticket'[q] = ticket[q] \/ ticket[q] = "PENDING"
                  /\ q \in events' => q \in events \/ ticket[q] = "PENDING"
  BY <1>2 DEF Decide, Small
<1>3. ASSUME NEW a \in Actor, Ask(a)
      PROVE  /\ asked' = asked + 1 /\ asked' \in Gated /\ events' = events
             /\ \A p \in Gated : p # asked' => ticket'[p] = ticket[p]
  BY <1>3 DEF Ask, Small
<1>4. ASSUME NEW a \in Actor, Propose(a)
      PROVE  asked' = asked + 1 /\ asked' \in Batch \ Gated /\ UNCHANGED <<ticket, events>>
  BY <1>4 DEF Propose, ticketVars
<1>5. ASSUME NEW a \in Actor, Runs(a) \/ Fail(a), ~ Ask(a), ~ Propose(a)
      PROVE  UNCHANGED <<asked, ticket, events>>
  BY <1>5 DEF Runs, Fail, BuildContext, EndTask, PauseForApproval, InvokeTools,
     PauseForBrowserExecution, Reread, Claim, ticketVars
<1>6. ASSUME NEW p \in Gated, Resumes(p) \/ ResumeByToken(p)
      PROVE  UNCHANGED <<asked, ticket>> /\ events' \subseteq events
  BY <1>6, SMTT(30) DEF Resumes, OnApprovalDecided, CancelRefused, ResumeByToken, ticketVars
<1>7. ASSUME NEW h \in Desk, Carries(h) PROVE UNCHANGED <<asked, ticket, events>>
  BY <1>7 DEF Carries, LoadBrowserPause, ClaimBrowserExecution, ExecuteGrantedAction,
     ReportExecution, RecordReport, ReportUndelivered, ticketVars
<1>8. CASE StartTask \/ CancelTask \/ ResumeBrowserTask \/ SweepBrowserExecutions
           \/ ExpireBrowserExecution \/ OtherArrives \/ OtherEnds \/ \E g \in Grant : GrantAges(g)
  <2>1. UNCHANGED <<asked, ticket, events>>
    BY <1>8 DEF StartTask, CancelTask, ResumeBrowserTask, SweepBrowserExecutions,
       ExpireBrowserExecution, OtherArrives, OtherEnds, GrantAges, ticketVars
  <2>2. QED
    BY <1>1, <2>1
<1>9. CASE Crash
  BY <1>1, <1>9 DEF Crash
<1>10. QED
  BY <1>1, <1>2, <1>3, <1>4, <1>5, <1>6, <1>7, <1>8, <1>9 DEF AgentNext

\* The batch of the row.
LEMMA RowBatch ==
  ASSUME CoTyped, RowTyped, AgentNext
  PROVE  \/ row'.batch \in {0, row.batch}
         \/ \E a \in Actor : row'.batch = co[a].batch
<1>0. row \in Row
  BY DEF RowTyped
<1>1. ASSUME Cancels PROVE row'.batch = row.batch
  BY <1>0, <1>1 DEF Cancels, Row
<1>2. ASSUME NEW a \in Actor, Runs(a) \/ Fail(a)
      PROVE  row'.batch \in {0, row.batch, co[a].batch}
  <2>1. ASSUME Claim(a) PROVE row'.batch = row.batch
    BY <1>0, <2>1 DEF Claim, Row
  <2>2. QED
    BY <1>0, <1>2, <2>1
    DEF Runs, Fail, BuildContext, EndTask, PauseForApproval, Ask, Propose, InvokeTools,
        PauseForBrowserExecution, Reread, Writes
<1>3. ASSUME NEW h \in Desk, Carries(h) PROVE row'.batch = row.batch
  BY <1>0, <1>3 DEF Carries, LoadBrowserPause, ClaimBrowserExecution, ExecuteGrantedAction,
     ReportExecution, RecordReport, ReportUndelivered, Row
<1>4. ASSUME NEW p \in Gated, Decide(p) \/ Resumes(p) \/ ResumeByToken(p)
      PROVE  row'.batch = row.batch
  BY <1>1, <1>4 DEF Decide, Resumes, OnApprovalDecided, CancelRefused, ResumeByToken
<1>5. CASE StartTask \/ CancelTask \/ Crash \/ ResumeBrowserTask \/ SweepBrowserExecutions
           \/ ExpireBrowserExecution \/ OtherArrives \/ OtherEnds \/ \E g \in Grant : GrantAges(g)
  BY <1>0, <1>1, <1>5 DEF StartTask, CancelTask, Crash, ResumeBrowserTask, SweepBrowserExecutions,
     ExpireBrowserExecution, OtherArrives, OtherEnds, GrantAges, Row
<1>6. QED
  BY <1>2, <1>3, <1>4, <1>5 DEF AgentNext

\* How batches take effect: by the loop, or under a grant that this redeems.
Executes(h, p) ==
  /\ ExecuteGrantedAction(h) /\ desk[h].pc = "act"
  /\ desk[h].grant \in DOMAIN grants => /\ grants[desk[h].grant].batch = p
                                        /\ ~ grants[desk[h].grant].redeemed
                                        /\ grants'[desk[h].grant].redeemed
LEMMA Effects ==
  ASSUME Typed, AgentNext, NEW p \in Batch
  PROVE  \/ ran'[p] = ran[p]
         \/ /\ ran'[p] = ran[p] + 1
            /\ \/ \E a \in Actor : /\ InvokeTools(a) /\ co[a].pc = "batch"
                                   /\ co[a].batch = p /\ p \notin Browser
               \/ \E h \in Desk : Executes(h, p)
<1>0. ran \in [Batch -> Nat] /\ grants \in Seq(GrantRecord)
  BY DEF Typed, WorldTyped
<1>1. CASE UNCHANGED ran
  BY <1>1
<1>2. ASSUME NEW a \in Actor, InvokeTools(a), ~ UNCHANGED ran
      PROVE  \/ ran'[p] = ran[p]
             \/ /\ ran'[p] = ran[p] + 1 /\ co[a].pc = "batch"
                /\ co[a].batch = p /\ p \notin Browser
  BY <1>0, <1>2 DEF InvokeTools
<1>3. ASSUME NEW h \in Desk, ExecuteGrantedAction(h)
      PROVE  \/ ran'[p] = ran[p]
             \/ ran'[p] = ran[p] + 1 /\ Executes(h, p)
  <2> DEFINE g == desk[h].grant
             usable == grants[g].age = "fresh" /\ ~ grants[g].redeemed
  <2>1. PICK done \in BOOLEAN, o \in {"yes", "no", "unknown"} :
          /\ o = "no" => ~ done
          /\ ~ usable => o = "no"
          /\ grants' = [grants EXCEPT ![g].redeemed = @ \/ usable, ![g].done = @ \/ done]
          /\ ran' = IF done THEN [ran EXCEPT ![grants[g].batch] = @ + 1] ELSE ran
    BY <1>3 DEF ExecuteGrantedAction
  <2>2. CASE ~ done
    BY <2>1, <2>2
  <2>3. CASE done
    <3>1. usable
      BY <2>1, <2>3
    <3>2. CASE grants[g].batch # p
      BY <1>0, <2>1, <2>3, <3>2, SMTT(30)
    <3>3. CASE grants[g].batch = p
      <4>1. ran'[p] = ran[p] + 1
        BY <1>0, <2>1, <2>3, <3>3
      <4>2. ASSUME g \in DOMAIN grants PROVE grants'[g].redeemed
        <5>1. grants[g] \in GrantRecord
          BY <1>0, <4>2, ElementOfSeq, LenProperties
        <5>2. grants'[g].redeemed = (grants[g].redeemed \/ usable)
          <6> HIDE DEF g
          <6> QED BY <1>0, <2>1, <4>2, <5>1 DEF GrantRecord
        <5>3. QED
          BY <3>1, <5>2
      <4>3. QED
        BY <1>3, <3>1, <3>3, <4>1, <4>2 DEF Executes, ExecuteGrantedAction
    <3>4. QED
      BY <3>2, <3>3
  <2>4. QED
    BY <2>2, <2>3, SMTT(30)
<1>4. ASSUME NEW a \in Actor, Runs(a) \/ Fail(a), ~ InvokeTools(a) PROVE UNCHANGED ran
  BY <1>4 DEF Runs, Fail, BuildContext, EndTask, PauseForApproval, Ask, Propose,
     PauseForBrowserExecution, Reread, Claim, worldVars
<1>5. ASSUME NEW h \in Desk, Carries(h), ~ ExecuteGrantedAction(h) PROVE UNCHANGED ran
  BY <1>5 DEF Carries, LoadBrowserPause, ClaimBrowserExecution, ReportExecution, RecordReport,
     ReportUndelivered, worldVars
<1>6. ASSUME NEW q \in Gated, Decide(q) \/ Resumes(q) \/ ResumeByToken(q) PROVE UNCHANGED ran
  BY <1>6 DEF Decide, Resumes, OnApprovalDecided, CancelRefused, ResumeByToken, worldVars
<1>7. CASE StartTask \/ CancelTask \/ Crash \/ ResumeBrowserTask \/ SweepBrowserExecutions
           \/ ExpireBrowserExecution \/ OtherArrives \/ OtherEnds \/ \E g \in Grant : GrantAges(g)
  <2>1. UNCHANGED ran
    BY <1>7 DEF StartTask, CancelTask, Crash, ResumeBrowserTask, SweepBrowserExecutions,
       ExpireBrowserExecution, OtherArrives, OtherEnds, GrantAges, worldVars
  <2>2. QED
    BY <1>1, <2>1
<1>8. QED
  BY <1>1, <1>2, <1>3, <1>4, <1>5, <1>6, <1>7 DEF AgentNext

\* A grant stays redeemed.
LEMMA Redeemed ==
  ASSUME Typed, AgentNext, NEW g \in DOMAIN grants, grants[g].redeemed
  PROVE  grants'[g].redeemed
<1>0. grants \in Seq(GrantRecord) /\ grants[g] \in GrantRecord
  BY ElementOfSeq, LenProperties DEF Typed, WorldTyped
<1>1. CASE UNCHANGED grants
  BY <1>1
<1>2. ASSUME NEW i, NEW e, grants' = [grants EXCEPT ![i] = e], i = g => e.redeemed
      PROVE  grants'[g].redeemed
  BY <1>0, <1>2
<1>3. ASSUME NEW i, NEW o, grants' = [grants EXCEPT ![i].told = o] PROVE grants'[g].redeemed
  BY <1>0, <1>3 DEF GrantRecord
<1>4. ASSUME NEW i, NEW f, grants' = [grants EXCEPT ![i].age = f] PROVE grants'[g].redeemed
  BY <1>0, <1>4 DEF GrantRecord
<1>5. ASSUME NEW h \in Desk, ExecuteGrantedAction(h) PROVE grants'[g].redeemed
  <2> DEFINE i == desk[h].grant
             usable == grants[i].age = "fresh" /\ ~ grants[i].redeemed
  <2>1. PICK d \in BOOLEAN :
          grants' = [grants EXCEPT ![i].redeemed = @ \/ usable, ![i].done = @ \/ d]
    BY <1>5 DEF ExecuteGrantedAction
  <2>2. CASE i = g
    <3>1. grants'[g].redeemed = (grants[g].redeemed \/ usable)
      <4> HIDE DEF i
      <4> QED BY <1>0, <2>1, <2>2 DEF GrantRecord
    <3>2. QED
      BY <3>1
  <2>3. CASE i # g
    <3> HIDE DEF i
    <3> QED BY <1>0, <2>1, <2>3
  <2>4. QED
    BY <2>2, <2>3
<1>6. ASSUME NEW a \in Actor, PauseForBrowserExecution(a) PROVE grants'[g].redeemed
  BY <1>0, <1>6, AppendProperties, LenProperties DEF PauseForBrowserExecution
<1>7. ASSUME NEW a \in Actor, Runs(a) \/ Fail(a), ~ PauseForBrowserExecution(a)
      PROVE  grants'[g].redeemed
  BY <1>1, <1>3, <1>7 DEF Runs, Fail, BuildContext, EndTask, PauseForApproval, Ask, Propose,
     InvokeTools, Reread, Claim, worldVars
<1>8. ASSUME NEW h \in Desk, Carries(h), ~ ExecuteGrantedAction(h) PROVE UNCHANGED grants
  BY <1>8 DEF Carries, LoadBrowserPause, ClaimBrowserExecution, ReportExecution, RecordReport,
     ReportUndelivered
<1>9. ASSUME NEW q \in Gated, Decide(q) \/ Resumes(q) \/ ResumeByToken(q) PROVE UNCHANGED grants
  BY <1>9 DEF Decide, Resumes, OnApprovalDecided, CancelRefused, ResumeByToken, worldVars
<1>10. CASE StartTask \/ CancelTask \/ Crash \/ ResumeBrowserTask \/ SweepBrowserExecutions
            \/ OtherArrives \/ OtherEnds
  <2>1. UNCHANGED grants
    BY <1>10 DEF StartTask, CancelTask, Crash, ResumeBrowserTask, SweepBrowserExecutions,
       OtherArrives, OtherEnds, worldVars
  <2>2. QED
    BY <1>1, <2>1
<1>11. CASE ExpireBrowserExecution \/ \E f \in Grant : GrantAges(f)
  BY <1>1, <1>3, <1>4, <1>11 DEF ExpireBrowserExecution, GrantAges
<1>12. QED
  BY <1>1, <1>5, <1>6, <1>7, <1>8, <1>9, <1>10, <1>11 DEF AgentNext

\* Of a batch that is at hand after a step, it was so before, or is a new one.
LEMMA AtHandStep ==
  ASSUME Typed, Halts, Consented, ~ byToken, AgentNext, NEW p \in Batch, AtHand(p)'
  PROVE  \/ AtHand(p)
         \/ p = asked + 1 /\ \E a \in Actor : Ask(a) \/ Propose(a)
<1>0. CoTyped /\ RowTyped /\ WorldTyped /\ row \in Row
  BY DEF Typed, RowTyped
<1>1. CASE row'.status = "PAUSED_FOR_APPROVAL" /\ row'.batch = p
  BY <1>0, <1>1, StoredTask DEF AtHand, Held, Row, Unchanged, Ended
<1>2. ASSUME NEW a \in Actor, co'[a].pc \in {"pausing", "batch"}, co'[a].batch = p
      PROVE  AtHand(p) \/ (p = asked + 1 /\ \E b \in Actor : Ask(b) \/ Propose(b))
  <2>1. ASSUME a # Resume, co[a].pc = "claim", row.status = "PAUSED_FOR_APPROVAL",
               co'[a].batch = co[a].batch
        PROVE  row.batch = p
    <3>1. PICK q \in Gated : a = Handler(q)
      BY <2>1 DEF Actor, Consented
    <3>2. co[a].batch = q /\ row.batch = q
      BY <2>1, <3>1 DEF Consented, Halts, Halted, Claimant
    <3>3. QED
      BY <1>2, <2>1, <3>2
  <2>2. QED
    BY <1>0, <1>2, <2>1, Places DEF AtHand, Held
<1>3. QED
  BY <1>1, <1>2 DEF AtHand, Held

\* Where a batch is carried out, or given a grant, it is no longer at hand.
LEMMA HandedOn ==
  ASSUME Typed, OneLoop, AgentNext, NEW a \in Actor, InvokeTools(a) \/ PauseForBrowserExecution(a)
  PROVE  /\ co[a].pc = "batch" /\ co[a].batch \in 0..MaxBatches /\ AtHand(co[a].batch)
         /\ \A p \in Batch : ~ AtHand(p)'
<1>0. CoTyped /\ co \in [Actor -> Co] /\ AgentAssumption
  BY AgentAssumption DEF Typed, CoTyped
<1>1. co[a].pc = "batch" /\ Looping(a)
  BY DEF InvokeTools, PauseForBrowserExecution, Looping
<1>2. row.status \in {"RUNNING", "RESUMING", "CANCELLED"} /\ \A b \in Actor : Looping(b) => b = a
  BY <1>1 DEF OneLoop
<1>3. row'.status # "PAUSED_FOR_APPROVAL"
  BY <1>2 DEF InvokeTools, PauseForBrowserExecution, Writes
<1>4. co'[a].pc \in {"step", "idle"} /\ \A b \in Actor : b # a => co'[b] = co[b]
  <2>1. CASE InvokeTools(a)
    <3>1. Goes(a, "step") /\ "step" \in Pc /\ co[a] \in Co
      BY <1>0, <2>1 DEF InvokeTools, Pc
    <3>2. co'[a] = [co[a] EXCEPT !.pc = "step"] /\ \A b \in Actor : b # a => co'[b] = co[b]
      BY <1>0, <3>1, Going
    <3>3. QED
      BY <3>1, <3>2 DEF Co
  <2>2. CASE PauseForBrowserExecution(a)
    BY <1>0, <2>2, Stopping DEF PauseForBrowserExecution, Idle
  <2>3. QED
    BY <2>1, <2>2
<1>5. \A b \in Actor : co'[b].pc \notin {"pausing", "batch"}
  BY <1>2, <1>4 DEF Looping
<1>6. QED
  BY <1>0, <1>1, <1>3, <1>5 DEF AtHand, Held, Co

LEMMA ProposedStep ==
  ASSUME Typed, Holders, Proposed, Halts, Consented, ~ byToken, AgentNext
  PROVE  Proposed'
<1>0. /\ CoTyped /\ RowTyped /\ WorldTyped /\ Small /\ asked \in Nat /\ AgentAssumption
      /\ \A a \in Actor : co[a].batch \in Nat
      /\ row.batch \in Nat
      /\ \A p \in Batch : p \in Nat
  BY AgentAssumption DEF Typed, CoTyped, Co, RowTyped, Row, Small, Batch
<1>1. asked' \in {asked, asked + 1}
  BY <1>0, TicketMoves
<1>2. ASSUME NEW x \in Nat, x <= asked PROVE x <= asked'
  BY <1>0, <1>1, <1>2
<1>3. ASSUME NEW a \in Actor PROVE co'[a].batch <= asked'
  <2>1. ASSUME Ask(a) \/ Propose(a) PROVE asked + 1 <= asked'
    BY <1>0, <2>1 DEF Ask, Propose
  <2>2. ASSUME row.status = "PAUSED_FOR_APPROVAL", co'[a].batch = row.batch
        PROVE  co'[a].batch <= asked'
    BY <1>0, <1>2, <2>2 DEF Proposed
  <2>3. co[a].batch <= asked' /\ row.batch <= asked' /\ 0 <= asked'
    BY <1>0, <1>2 DEF Proposed
  <2>4. QED
    BY <1>0, <2>1, <2>2, <2>3, Places
<1>4. row'.batch <= asked'
  BY <1>0, <1>2, RowBatch DEF Proposed
<1>5. ASSUME NEW g \in DOMAIN grants' PROVE grants'[g].batch <= asked'
  <2>1. CASE g \in DOMAIN grants
    <3>1. grants[g].batch \in Nat /\ grants[g].batch <= asked
      BY <1>0, <2>1, GrantTyped DEF Proposed, GrantRecord, AgentAssumption, Batch
    <3>2. QED
      BY <1>0, <1>2, <2>1, <3>1, Grants
  <2>2. CASE g \notin DOMAIN grants
    <3>1. PICK a \in Actor : PauseForBrowserExecution(a) /\ g = Len(grants) + 1
      BY <1>0, <2>2, Minting
    <3>2. grants'[g].batch = co[a].batch
      BY <1>0, <3>1, Minted
    <3>3. QED
      BY <1>0, <1>2, <3>2 DEF Proposed
  <2>3. QED
    BY <2>1, <2>2
<1>6. ASSUME NEW p \in Gated, ticket'[p] # "none" PROVE p <= asked'
  <2>1. p \in Nat
    BY <1>0 DEF AgentAssumption
  <2>2. CASE p = asked'
    BY <1>0, <1>1, <2>2
  <2>3. CASE p # asked'
    <3>1. ticket[p] # "none"
      BY <1>0, <1>6, <2>3, TicketMoves
    <3>2. QED
      BY <1>2, <2>1, <3>1 DEF Proposed
  <2>4. QED
    BY <2>2, <2>3
<1>7. ASSUME NEW p \in Batch, ran'[p] > 0 PROVE p <= asked'
  <2>1. CASE ran[p] > 0
    BY <1>0, <1>2, <2>1 DEF Proposed
  <2>2. ASSUME NEW a \in Actor, co[a].batch = p PROVE p <= asked'
    BY <1>0, <1>2, <2>2 DEF Proposed
  <2>3. ASSUME NEW h \in Desk, Executes(h, p) PROVE p <= asked'
    BY <1>0, <1>2, <2>3 DEF Executes, Holders, AtWork, Proposed
  <2>4. QED
    BY <1>7, <2>1, <2>2, <2>3, Effects
<1>8. QED
  BY <1>3, <1>4, <1>5, <1>6, <1>7 DEF Proposed

LEMMA UntouchedStep ==
  ASSUME Typed, OneLoop, Holders, Proposed, Untouched, Halts, Consented, ~ byToken, AgentNext
  PROVE  Untouched'
<1>0. /\ CoTyped /\ RowTyped /\ WorldTyped /\ Small /\ asked \in Nat /\ AgentAssumption
      /\ ran \in [Batch -> Nat] /\ Batch \subseteq Nat
  BY AgentAssumption DEF Typed, Small, WorldTyped, Batch
<1> SUFFICES ASSUME NEW p \in Batch, AtHand(p)'
             PROVE  ran'[p] = 0 /\ \A g \in DOMAIN grants' : grants'[g].batch # p
  BY DEF Untouched
<1>1. CASE p = asked + 1 /\ \E a \in Actor : Ask(a) \/ Propose(a)
  <2>1. ran' = ran /\ grants' = grants
    BY <1>1 DEF Ask, Propose, worldVars
  <2>2. ~ (p <= asked)
    BY <1>0, <1>1
  <2>3. ~ (ran[p] > 0) /\ \A g \in DOMAIN grants : grants[g].batch # p
    BY <2>2 DEF Proposed
  <2>4. ran[p] = 0
    BY <1>0, <2>3
  <2>5. QED
    BY <2>1, <2>3, <2>4
<1>2. CASE AtHand(p)
  <2>1. ran[p] = 0 /\ \A g \in DOMAIN grants : grants[g].batch # p
    BY <1>2 DEF Untouched
  <2>2. ASSUME NEW a \in Actor, InvokeTools(a) \/ PauseForBrowserExecution(a) PROVE FALSE
    BY <2>2, HandedOn
  <2>3. ASSUME NEW h \in Desk, Executes(h, p) PROVE FALSE
    BY <2>1, <2>3 DEF Executes, Holders, AtWork
  <2>4. ran'[p] = 0
    BY <2>1, <2>2, <2>3, Effects
  <2>5. ASSUME NEW g \in DOMAIN grants' PROVE grants'[g].batch # p
    BY <1>0, <2>1, <2>2, Grants, Minting
  <2>6. QED
    BY <2>4, <2>5
<1>3. QED
  BY <1>1, <1>2, AtHandStep

LEMMA OneGrantStep ==
  ASSUME Typed, OneLoop, Holders, Untouched, OneGrant, AgentNext
  PROVE  OneGrant'
<1>0. /\ CoTyped /\ RowTyped /\ WorldTyped /\ AgentAssumption
      /\ ran \in [Batch -> Nat]
  BY AgentAssumption DEF Typed, WorldTyped
<1>1. ASSUME NEW g \in DOMAIN grants' \ DOMAIN grants
      PROVE  /\ g = Len(grants) + 1 /\ grants'[g].batch \in Browser
             /\ ran'[grants'[g].batch] = 0
             /\ \A f \in DOMAIN grants : grants[f].batch # grants'[g].batch
  <2>1. PICK a \in Actor : PauseForBrowserExecution(a) /\ g = Len(grants) + 1
    BY <1>0, Minting
  <2>2. grants'[g].batch = co[a].batch /\ co[a].batch \in Browser /\ ran' = ran
    BY <1>0, <2>1, Minted DEF PauseForBrowserExecution
  <2>3. AtHand(co[a].batch) /\ co[a].batch \in Batch
    BY <1>0, <2>1, <2>2, HandedOn DEF AgentAssumption
  <2>4. QED
    BY <2>1, <2>2, <2>3 DEF Untouched
<1>2. ASSUME NEW f \in DOMAIN grants', NEW g \in DOMAIN grants',
             grants'[f].batch = grants'[g].batch
      PROVE  f = g
  BY <1>0, <1>1, <1>2, Grants DEF OneGrant
<1>3. ASSUME NEW g \in DOMAIN grants', ~ grants'[g].redeemed PROVE ran'[grants'[g].batch] = 0
  <2>1. CASE g \in DOMAIN grants
    <3> DEFINE p == grants[g].batch
    <3>1. grants'[g].batch = p /\ p \in Batch /\ p \in Browser
      BY <1>0, <2>1, Grants, GrantTyped DEF GrantRecord, AgentAssumption
    <3>2. ~ grants[g].redeemed
      BY <1>3, <2>1, Redeemed
    <3>3. ran[p] = 0
      BY <2>1, <3>2 DEF OneGrant
    <3>4. ASSUME NEW h \in Desk, Executes(h, p) PROVE FALSE
      <4>1. desk[h].grant \in DOMAIN grants
        BY <3>4 DEF Executes, Holders, AtWork
      <4>2. desk[h].grant = g /\ grants'[desk[h].grant].redeemed
        BY <2>1, <3>4, <4>1 DEF Executes, OneGrant
      <4>3. QED
        BY <1>3, <4>2
    <3>5. ran'[p] = 0
      BY <3>1, <3>3, <3>4, Effects
    <3>6. QED
      BY <3>1, <3>5
  <2>2. QED
    BY <1>1, <2>1
<1>4. QED
  BY <1>2, <1>3 DEF OneGrant

\* Nothing but the handler of the ticket goes on with a task that is halted.
LEMMA HaltedStep ==
  ASSUME Typed, OneLoop, Halts, Consented, ~ byToken, AgentNext,
         NEW p \in Gated, Halted(p), ~ (Claimant(p) /\ Claim(Handler(p)))
  PROVE  Halted(p)'
<1>0. /\ CoTyped /\ RowTyped /\ WorldTyped /\ Small /\ asked \in Nat /\ AgentAssumption
      /\ row \in Row /\ row.status # "PAUSED_FOR_BROWSER_EXECUTION" /\ row.status # "ABSENT"
      /\ p = asked
  BY AgentAssumption DEF Typed, Small, RowTyped, Halted
<1>1. ASSUME NEW a \in Actor PROVE co[a].pc \notin {"step", "turn", "batch"}
  BY DEF Halted, Looping
<1>2. ASSUME NEW a \in Actor PROVE ~ Ask(a) /\ ~ Propose(a) /\ ~ EndTask(a) /\ ~ PauseForBrowserExecution(a)
  BY <1>1 DEF Ask, Propose, EndTask, PauseForBrowserExecution
<1>3. asked' = asked
  BY <1>0, <1>2, TicketMoves
<1>4. ASSUME NEW a \in Actor, Claim(a), row.status = Expected(a) PROVE row.ver # co[a].ver
  <2>1. a # Resume /\ co[a].pc = "claim"
    BY <1>0, <1>4 DEF Expected, Claim
  <2>2. PICK q \in Gated : a = Handler(q)
    BY <2>1 DEF Actor, Consented
  <2>3. Claimant(q)
    BY <2>1, <2>2 DEF Claimant
  <2>4. q = p
    BY <1>0, <2>3 DEF Halts, Halted
  <2>5. QED
    BY <1>4, <2>2, <2>3, <2>4
<1>5. ASSUME NEW a \in Actor, Claim(a) PROVE row' = row /\ Stops(a)
  BY <1>4, <1>5 DEF Claim
<1>6. /\ row'.status \notin {"ABSENT", "PAUSED_FOR_BROWSER_EXECUTION"}
      /\ row'.status = "PAUSED_FOR_APPROVAL" => row'.batch = p
  <2>1. ASSUME NEW a \in Actor, co[a].pc = "pausing" PROVE co[a].batch = p
    BY <2>1 DEF Halted, Looping
  <2>2. ASSUME NEW a \in Actor, row' = [row EXCEPT !.status = "RESUMING", !.ver = @ + 1],
               Claims(a)
        PROVE  FALSE
    BY <1>0, <1>5, <2>2 DEF Claims, Row, Paused
  <2>3. ASSUME NEW v PROVE ~ Unchanged(v)
    BY <1>0 DEF Unchanged
  <2>4. QED
    BY <1>0, <1>2, <2>1, <2>2, <2>3, StoredTask DEF Halted, Ended
<1>7. ASSUME NEW a \in Actor, Looping(a)' PROVE co'[a].pc = "pausing" /\ co'[a].batch = p
  <2>1. ASSUME co'[a] = co[a] PROVE co'[a].pc = "pausing" /\ co'[a].batch = p
    BY <1>7, <2>1 DEF Halted, Looping
  <2>2. ASSUME Internal(a), Looping(a), co'[a].pc \notin {"pausing"} PROVE FALSE
    BY <1>1, <1>2, <2>2 DEF Internal, BuildContext, InvokeTools
  <2>3. ASSUME Internal(a) PROVE FALSE
    BY <1>1, <1>2, <2>3 DEF Internal, BuildContext, InvokeTools
  <2>4. ASSUME Claims(a), co'[a].pc \in {"step", "batch"} PROVE FALSE
    <3>1. Stops(a) /\ co \in [Actor -> Co]
      BY <1>0, <1>5, <2>4 DEF Claims, CoTyped
    <3>2. QED
      BY <1>0, <2>4, <3>1, Stopping DEF Idle
  <2>5. QED
    BY <1>0, <1>7, <2>1, <2>3, <2>4, Coroutine DEF Looping
<1>8. QED
  BY <1>0, <1>3, <1>6, <1>7 DEF Halted

\* A handler that reaches the claim got there with the decision on its ticket.
LEMMA ClaimantStep ==
  ASSUME Typed, ~ byToken, AgentNext, NEW p \in Gated, Claimant(p)'
  PROVE  \/ /\ Claimant(p) /\ ~ Claim(Handler(p)) /\ co'[Handler(p)].batch = co[Handler(p)].batch
         \/ /\ p \in events /\ OnApprovalDecided(p) /\ events' = events \ {p}
            /\ ticket[p] = "APPROVED"
            /\ row' = row /\ ticket' = ticket /\ asked' = asked
            /\ row.status = "PAUSED_FOR_APPROVAL" /\ co'[Handler(p)].batch = row.batch
<1>0. CoTyped /\ RowTyped /\ Handler(p) \in Actor /\ Handler(p) # Resume
  BY DEF Typed, Actor, Handler, Resume
<1>1. ASSUME NEW q \in events, Handler(p) = Handler(q) PROVE p = q
  BY <1>1 DEF Handler
<1>2. ASSUME Claim(Handler(p)) PROVE co'[Handler(p)].pc \in {"step", "batch", "idle"}
  <2>1. Stops(Handler(p)) \/ \E v, b : Moves(Handler(p), "step", v, b) \/ Moves(Handler(p), "batch", v, b)
    BY <1>2 DEF Claim
  <2>2. co \in [Actor -> Co]
    BY <1>0 DEF CoTyped
  <2>3. QED
    BY <1>0, <2>1, <2>2 DEF Stops, Moves, Idle
<1>3. ~ Claim(Handler(p))
  BY <1>2 DEF Claimant
<1>4. QED
  BY <1>0, <1>1, <1>3, Places DEF Claimant

LEMMA ConsentedStep ==
  ASSUME Typed, Halts, Consented, ~ byToken, AgentNext
  PROVE  Consented'
<1>0. CoTyped /\ RowTyped /\ Small /\ Call \in Actor
  BY DEF Typed, Actor
<1>1. ASSUME NEW p \in Gated, Claimant(p)'
      PROVE  /\ ticket'[p] = "APPROVED" /\ p \notin events'
             /\ co'[Handler(p)].batch = p
  <2>1. CASE /\ Claimant(p) /\ co'[Handler(p)].batch = co[Handler(p)].batch
    <3>1. ticket[p] = "APPROVED" /\ p \notin events /\ co[Handler(p)].batch = p /\ p = asked
      BY <2>1 DEF Consented, Halts, Halted
    <3>2. p # asked + 1
      BY <1>0, <3>1 DEF Small
    <3>3. QED
      BY <1>0, <2>1, <3>1, <3>2, TicketMoves
  <2>2. CASE /\ p \in events /\ events' = events \ {p} /\ ticket[p] = "APPROVED"
             /\ ticket' = ticket /\ row.status = "PAUSED_FOR_APPROVAL"
             /\ co'[Handler(p)].batch = row.batch
    BY <2>2 DEF Halts, Halted, Undelivered
  <2>3. QED
    BY <1>1, <2>1, <2>2, ClaimantStep
<1>2. co'[Call].pc \notin {"reread", "claim"}
  <2>1. Call # Resume /\ \A p : Call # Handler(p)
    BY DEF Call, Resume, Handler
  <2>2. QED
    BY <1>0, <2>1, Places DEF Consented
<1>3. QED
  BY <1>1, <1>2 DEF Consented

LEMMA HaltsStep ==
  ASSUME Typed, OneLoop, Proposed, Halts, Consented, ~ byToken, AgentNext
  PROVE  Halts'
<1>0. CoTyped /\ RowTyped /\ Small /\ asked \in Nat /\ WorldTyped /\ AgentAssumption
  BY AgentAssumption DEF Typed, Small
<1> SUFFICES ASSUME NEW p \in Gated, Undelivered(p)' \/ Claimant(p)' PROVE Halted(p)'
  BY DEF Halts
<1>1. ASSUME NEW a \in Actor, Ask(a), p = asked + 1 PROVE Halted(p)'
  <2>1. Looping(a) /\ row' = row /\ asked' = p /\ Moves(a, "pausing", co[a].ver, p)
    BY <1>1 DEF Ask, Looping
  <2>2. row'.status \in {"RUNNING", "RESUMING", "CANCELLED"}
    BY <2>1 DEF OneLoop
  <2>3. co'[a].pc = "pausing" /\ co'[a].batch = p /\ \A b \in Actor : b # a => co'[b] = co[b]
    BY <1>0, <2>1 DEF Moves, CoTyped
  <2>4. \A b \in Actor : Looping(b)' => b = a
    BY <2>1, <2>3 DEF OneLoop, Looping
  <2>5. QED
    BY <2>1, <2>2, <2>3, <2>4 DEF Halted
<1>2. CASE Undelivered(p) \/ Claimant(p)
  <2>1. Halted(p)
    BY <1>2 DEF Halts
  <2>2. ASSUME Claimant(p), Claim(Handler(p)) PROVE FALSE
    <3>1. ticket[p] = "APPROVED" /\ p \notin events /\ p # asked + 1
      BY <1>0, <2>1, <2>2 DEF Consented, Halted
    <3>2. ~ Undelivered(p)'
      BY <1>0, <3>1, TicketMoves DEF Undelivered
    <3>3. ~ Claimant(p)'
      BY <2>2, <3>1, ClaimantStep
    <3>4. QED
      BY <3>2, <3>3
  <2>3. QED
    BY <2>1, <2>2, HaltedStep
<1>3. ASSUME Undelivered(p)', ~ Undelivered(p) PROVE p = asked + 1 /\ \E a \in Actor : Ask(a)
  BY <1>0, <1>3, TicketMoves DEF Undelivered
<1>4. ASSUME Claimant(p)', ~ Claimant(p) PROVE Undelivered(p)
  BY <1>4, ClaimantStep, SMTT(30) DEF Undelivered
<1>5. QED
  BY <1>1, <1>2, <1>3, <1>4

LEMMA ByTokenKept == ASSUME AgentNext PROVE byToken' = byToken
BY ZenonT(60)
   DEF AgentNext, Runs, Carries, Resumes, StartTask, CancelTask, Crash, BuildContext, EndTask, Ask,
   PauseForApproval, Propose, InvokeTools, PauseForBrowserExecution, Reread, Claim, Fail, Decide,
   OnApprovalDecided, CancelRefused, ResumeByToken, GrantAges, LoadBrowserPause,
   ClaimBrowserExecution, ExecuteGrantedAction, ReportExecution, RecordReport, ReportUndelivered,
   ResumeBrowserTask, SweepBrowserExecutions, ExpireBrowserExecution, OtherArrives, OtherEnds

LEMMA GovernedStep == GovernedInv /\ [AgentNext]_agentVars => GovernedInv'
<1>1. ASSUME AgentInv, byToken, AgentNext PROVE GovernedInv'
  BY <1>1, InvStep, ByTokenKept DEF GovernedInv
<1>2. ASSUME AgentInv, PromiseInv, ~ byToken, AgentNext PROVE GovernedInv'
  <2>1. AgentInv'
    BY <1>2, InvStep
  <2>2. Proposed' /\ Untouched' /\ OneGrant' /\ Halts' /\ Consented'
    BY <1>2, ProposedStep, UntouchedStep, OneGrantStep, HaltsStep, ConsentedStep
    DEF AgentInv, PromiseInv
  <2>3. QED
    BY <2>1, <2>2 DEF GovernedInv, PromiseInv
<1>3. ASSUME GovernedInv, UNCHANGED agentVars PROVE GovernedInv'
  <2>1. AgentInv'
    BY <1>3, InvStep DEF GovernedInv
  <2>2. UNCHANGED <<row, asked, ticket, events, co, grants, desk, ran, byToken>>
    BY <1>3 DEF agentVars, ticketVars, worldVars
  <2>3. (Proposed' <=> Proposed) /\ (OneGrant' <=> OneGrant)
    BY <2>2 DEF Proposed, OneGrant
  <2>4. Untouched' <=> Untouched
    BY <2>2 DEF Untouched, AtHand, Held
  <2>5. (Halts' <=> Halts) /\ (Consented' <=> Consented)
    BY <2>2 DEF Halts, Consented, Undelivered, Claimant, Halted, Looping
  <2>6. QED
    BY <1>3, <2>1, <2>2, <2>3, <2>4, <2>5 DEF GovernedInv, PromiseInv
<1>4. QED
  BY <1>1, <1>2, <1>3 DEF GovernedInv

LEMMA GovernedInit == AgentInit => GovernedInv
<1> SUFFICES ASSUME AgentInit PROVE GovernedInv
  OBVIOUS
<1> USE AgentAssumption DEF AgentInit
<1>1. AgentInv
  BY InvInit
<1>2. DOMAIN grants = {} /\ \A p \in Gated : Handler(p) \in Actor
  BY DEF Actor
<1>3. Proposed
  <2>1. \A a \in Actor : co[a].batch = 0
    BY DEF Idle
  <2>2. QED
    BY <1>2, <2>1 DEF Proposed
<1>4. Untouched /\ OneGrant
  BY <1>2 DEF Untouched, OneGrant
<1>5. Halts /\ Consented
  BY <1>2 DEF Halts, Consented, Undelivered, Claimant, Idle, Actor
<1>6. QED
  BY <1>1, <1>3, <1>4, <1>5 DEF GovernedInv, PromiseInv

-----------------------------------------------------------------------------
(* What a step does to the state of the promise. *)

Phases == [p \in Batch |-> Phase(p)]
Consents == IF byToken THEN {} ELSE {p \in Gated : ticket[p] = "APPROVED"}
Taken == [p \in Batch |-> IF byToken THEN 0 ELSE ran[p]]
Rests == UNCHANGED <<Phases, Consents, Taken>>

\* How a batch waits or is under way: by the row, a coroutine or a desktop.
RowHas(status, p) == row.status = status /\ row.batch = p
CoHas(a, pcs, p) == co[a].pc \in pcs /\ co[a].batch = p
DeskHas(h, p) == AtWork(h) /\ grants[desk[h].grant].batch = p
Pcs == {{"pausing"}, {"batch", "step"}}
RowSame(p) == \A s \in Paused : RowHas(s, p)' <=> RowHas(s, p)
RowLess(p) == \A s \in Paused : RowHas(s, p)' => RowHas(s, p)
CoSame(p) == \A a \in Actor, pcs \in Pcs : CoHas(a, pcs, p)' <=> CoHas(a, pcs, p)
CoLess(p) == \A a \in Actor, pcs \in Pcs : CoHas(a, pcs, p)' => CoHas(a, pcs, p)
DeskSame(p) == \A h \in Desk : DeskHas(h, p)' <=> DeskHas(h, p)
DeskLess(p) == \A h \in Desk : DeskHas(h, p)' => DeskHas(h, p)
Same(p) == RowSame(p) /\ CoSame(p) /\ DeskSame(p)
Less(p) == RowLess(p) /\ CoLess(p) /\ DeskLess(p)

PhaseIs(p) ==
  /\ Held(p) \/ Released(p) => p <= asked
  /\ ~ (Held(p) /\ Released(p))
  /\ Phases[p] = IF p > asked THEN "none" ELSE IF Held(p) THEN "held"
                 ELSE IF Released(p) THEN "released" ELSE "closed"
  /\ p \in Nat /\ asked \in Nat

LEMMA PhaseOfBatch == GovernedInv /\ ~ byToken => \A p \in Batch : PhaseIs(p)
<1> SUFFICES ASSUME GovernedInv, ~ byToken, NEW p \in Batch PROVE PhaseIs(p)
  OBVIOUS
<1>0. /\ PromiseInv /\ AgentInv /\ p \in Nat /\ asked \in Nat
  BY AgentAssumption DEF GovernedInv, AgentInv, Typed, Small, Batch
<1>1. ASSUME NEW h \in Desk, AtWork(h), grants[desk[h].grant].batch = p
      PROVE  p <= asked /\ ~ Held(p)
  BY <1>0, <1>1 DEF AgentInv, PromiseInv, Holders, Proposed, Untouched, AtHand
<1>2. Held(p) \/ Released(p) => p <= asked
  BY <1>0, <1>1 DEF Held, Released, AtWork, PromiseInv, Proposed
<1>3. ~ (Held(p) /\ Released(p))
  BY <1>0, <1>1 DEF Held, Released, AtWork, AgentInv, OneLoop, Looping
<1>4. Phases[p] = IF p > asked THEN "none" ELSE IF Held(p) THEN "held"
                  ELSE IF Released(p) THEN "released" ELSE "closed"
  BY <1>0 DEF Phases, Phase
<1>5. QED
  BY <1>0, <1>2, <1>3, <1>4 DEF PhaseIs

LEMMA PhaseOfBatchNext == (GovernedInv /\ ~ byToken => \A p \in Batch : PhaseIs(p))'
BY PhaseOfBatch, PTL

LEMMA SameHeld ==
  ASSUME NEW p, Same(p) PROVE (Held(p)' <=> Held(p)) /\ (Released(p)' <=> Released(p))
<1>1. /\ RowHas("PAUSED_FOR_APPROVAL", p)' <=> RowHas("PAUSED_FOR_APPROVAL", p)
      /\ RowHas("PAUSED_FOR_BROWSER_EXECUTION", p)' <=> RowHas("PAUSED_FOR_BROWSER_EXECUTION", p)
      /\ \A a \in Actor : /\ CoHas(a, {"pausing"}, p)' <=> CoHas(a, {"pausing"}, p)
                          /\ CoHas(a, {"batch", "step"}, p)' <=> CoHas(a, {"batch", "step"}, p)
      /\ \A h \in Desk : DeskHas(h, p)' <=> DeskHas(h, p)
  BY DEF Same, RowSame, CoSame, DeskSame, Pcs, Paused
<1>2. Held(p)' <=> Held(p)
  BY <1>1 DEF Held, RowHas, CoHas
<1>3. Released(p)' <=> Released(p)
  BY <1>1 DEF Released, RowHas, CoHas, DeskHas, AtWork
<1>4. QED
  BY <1>2, <1>3

LEMMA LessHeld ==
  ASSUME NEW p, Less(p) PROVE (Held(p)' => Held(p)) /\ (Released(p)' => Released(p))
<1>1. /\ RowHas("PAUSED_FOR_APPROVAL", p)' => RowHas("PAUSED_FOR_APPROVAL", p)
      /\ RowHas("PAUSED_FOR_BROWSER_EXECUTION", p)' => RowHas("PAUSED_FOR_BROWSER_EXECUTION", p)
      /\ \A a \in Actor : /\ CoHas(a, {"pausing"}, p)' => CoHas(a, {"pausing"}, p)
                          /\ CoHas(a, {"batch", "step"}, p)' => CoHas(a, {"batch", "step"}, p)
      /\ \A h \in Desk : DeskHas(h, p)' => DeskHas(h, p)
  BY DEF Less, RowLess, CoLess, DeskLess, Pcs, Paused
<1>2. Held(p)' => Held(p)
  BY <1>1 DEF Held, RowHas, CoHas
<1>3. Released(p)' => Released(p)
  BY <1>1 DEF Released, RowHas, CoHas, DeskHas, AtWork
<1>4. QED
  BY <1>2, <1>3

\* Where asked, the tickets and the effects stay, and one batch at most is let go
\* of, that batch is closed or nothing happens.
LEMMA LetGo ==
  ASSUME GovernedInv, GovernedInv', ~ byToken, ~ byToken', UNCHANGED <<asked, ticket, ran>>, NEW q,
         \A p \in Batch : IF p = q THEN (Held(p)' => Held(p)) /\ (Released(p)' => Released(p))
                          ELSE (Held(p)' <=> Held(p)) /\ (Released(p)' <=> Released(p))
  PROVE  Rests \/ \E p \in Batch : Governed!Close(p)
<1>1. Consents' = Consents /\ Taken' = Taken
  BY DEF Consents, Taken
<1>2. \A p \in Batch : PhaseIs(p) /\ PhaseIs(p)'
  BY PhaseOfBatch, PhaseOfBatchNext
<1>3. Phases \in [Batch -> {"none", "held", "released", "closed"}] /\ Phases' = [p \in Batch |-> Phases'[p]]
  BY <1>2 DEF PhaseIs, Phases
<1>4. CASE q \in Batch /\ (Held(q) \/ Released(q)) /\ ~ Held(q)' /\ ~ Released(q)'
  <2>1. Phases[q] \in {"held", "released"} /\ Phases'[q] = "closed"
    BY <1>2, <1>4 DEF PhaseIs
  <2>2. \A p \in Batch : p # q => Phases'[p] = Phases[p]
    BY <1>2 DEF PhaseIs
  <2>3. Phases' = [Phases EXCEPT ![q] = "closed"]
    BY <1>3, <1>4, <2>1, <2>2
  <2>4. Governed!Close(q)
    BY <1>1, <2>1, <2>3 DEF Governed!Close, Governed!Becomes, Phases, Consents, Taken
  <2>5. QED
    BY <1>4, <2>4
<1>5. CASE ~ (q \in Batch /\ (Held(q) \/ Released(q)) /\ ~ Held(q)' /\ ~ Released(q)')
  <2>1. \A p \in Batch : Phases'[p] = Phases[p]
    BY <1>2, <1>5 DEF PhaseIs
  <2>2. Phases' = Phases
    BY <1>3, <2>1
  <2>3. QED
    BY <1>1, <2>2 DEF Rests
<1>6. QED
  BY <1>4, <1>5

\* What the row, the coroutines and the desktops do to the batches they have.
LEMMA RowStays ==
  ASSUME \/ row'.status = row.status /\ row'.batch = row.batch
         \/ row.status \notin Paused /\ row'.status \notin Paused,
         NEW p
  PROVE  RowSame(p)
BY DEF RowSame, RowHas

LEMMA RowLeaves ==
  ASSUME row'.status \notin Paused, NEW p
  PROVE  RowLess(p) /\ (p # row.batch => RowSame(p))
BY DEF RowSame, RowLess, RowHas

LEMMA CoLeaves ==
  ASSUME NEW a \in Actor, \A b \in Actor : b # a => co'[b] = co[b],
         co'[a].pc \notin {"pausing", "batch", "step"}, NEW p
  PROVE  /\ CoLess(p) /\ (p # co[a].batch => CoSame(p))
         /\ co[a].pc \notin {"pausing", "batch", "step"} => CoSame(p)
<1>1. \A b \in Actor, pcs \in Pcs : b # a => (CoHas(b, pcs, p)' <=> CoHas(b, pcs, p))
  BY DEF CoHas
<1>2. \A pcs \in Pcs : ~ CoHas(a, pcs, p)'
  BY DEF CoHas, Pcs
<1>3. \A pcs \in Pcs : CoHas(a, pcs, p) => p = co[a].batch /\ co[a].pc \in {"pausing", "batch", "step"}
  BY DEF CoHas, Pcs
<1>4. QED
  BY <1>1, <1>2, <1>3 DEF CoLess, CoSame

LEMMA CoStays ==
  ASSUME NEW a \in Actor, \A b \in Actor : b # a => co'[b] = co[b],
         co[a].pc \in {"batch", "step"} => co[a].batch = 0 \/ (co'[a].pc \in {"batch", "step"} /\ co'[a].batch = co[a].batch),
         co'[a].pc \in {"batch", "step"} => co'[a].batch = 0 \/ (co[a].pc \in {"batch", "step"} /\ co'[a].batch = co[a].batch),
         co[a].pc # "pausing", co'[a].pc # "pausing",
         NEW p \in Batch
  PROVE  CoSame(p)
<1>0. p # 0
  BY AgentAssumption DEF Batch, AgentAssumption
<1>1. \A b \in Actor, pcs \in Pcs : b # a => (CoHas(b, pcs, p)' <=> CoHas(b, pcs, p))
  BY DEF CoHas
<1>2. \A pcs \in Pcs : CoHas(a, pcs, p)' <=> CoHas(a, pcs, p)
  BY <1>0 DEF CoHas, Pcs
<1>3. QED
  BY <1>1, <1>2 DEF CoSame

LEMMA DesksStay ==
  ASSUME Typed, Holders, AgentNext,
         \A h \in Desk : \/ AtWork(h)' /\ AtWork(h) /\ desk'[h].grant = desk[h].grant
                         \/ ~ AtWork(h)' /\ ~ AtWork(h),
         NEW p
  PROVE  DeskSame(p)
<1>1. \A g \in DOMAIN grants : grants'[g].batch = grants[g].batch
  BY Grants DEF Typed
<1>2. \A h \in Desk : AtWork(h) => desk[h].grant \in DOMAIN grants
  BY DEF Holders
<1>3. QED
  BY <1>1, <1>2 DEF DeskSame, DeskHas

LEMMA DeskLeaves ==
  ASSUME Typed, Holders, AgentNext, NEW h \in Desk,
         \A i \in Desk : i # h => desk'[i] = desk[i],
         AtWork(h)' => AtWork(h) /\ desk'[h].grant = desk[h].grant,
         NEW p
  PROVE  /\ DeskLess(p)
         /\ p # grants[desk[h].grant].batch => DeskSame(p)
<1>1. \A g \in DOMAIN grants : grants'[g].batch = grants[g].batch
  BY Grants DEF Typed
<1>2. \A i \in Desk : AtWork(i) => desk[i].grant \in DOMAIN grants
  BY DEF Holders
<1>3. \A i \in Desk : i # h => (DeskHas(i, p)' <=> DeskHas(i, p))
  <2>1. SUFFICES ASSUME NEW i \in Desk, i # h PROVE DeskHas(i, p)' <=> DeskHas(i, p)
    OBVIOUS
  <2>2. desk'[i] = desk[i] /\ (AtWork(i)' <=> AtWork(i))
    BY <2>1 DEF AtWork
  <2>3. QED
    BY <1>1, <1>2, <2>2 DEF DeskHas
<1>4. DeskHas(h, p)' => DeskHas(h, p)
  BY <1>1, <1>2 DEF DeskHas
<1>5. DeskHas(h, p) => p = grants[desk[h].grant].batch
  BY DEF DeskHas
<1>6. QED
  BY <1>3, <1>4, <1>5 DEF DeskLess, DeskSame

LEMMA Turns ==
  ASSUME NEW r \in Batch, NEW x, Phases'[r] = x, \A p \in Batch : p # r => Phases'[p] = Phases[p]
  PROVE  Phases' = [Phases EXCEPT ![r] = x]
<1>1. Phases = [p \in Batch |-> Phases[p]] /\ Phases' = [p \in Batch |-> Phases'[p]]
  BY DEF Phases
<1>2. QED
  BY <1>1

\* A batch is held, released or takes effect as the promise has it.
LEMMA AskHolds ==
  ASSUME GovernedInv, GovernedInv', ~ byToken, ~ byToken', NEW a \in Actor, Ask(a)
  PROVE  \E p \in Batch : Governed!Hold(p)
<1>r. PICK r \in Batch : r = asked + 1 /\ r \in Gated
  BY AgentAssumption DEF Ask, AgentAssumption
<1>0. /\ PromiseInv /\ AgentInv /\ asked \in Nat /\ r \in Gated /\ r \in Batch /\ asked' = r
      /\ CoTyped /\ ticket \in [Gated -> {"none", "PENDING", "APPROVED", "REFUSED"}]
      /\ r > asked /\ ~ (r <= asked) /\ r \in Nat /\ AgentAssumption
  BY <1>r, AgentAssumption DEF GovernedInv, AgentInv, Typed, Small, Ask
<1>1. co[a].pc = "turn" /\ co'[a].pc = "pausing" /\ co'[a].batch = r /\ \A b \in Actor : b # a => co'[b] = co[b]
  BY <1>0, <1>r DEF Ask, Moves, CoTyped
<1>2. row' = row /\ desk' = desk /\ grants' = grants /\ ran' = ran
  BY DEF Ask, worldVars
<1>3. \A p \in Batch : p # r => (Held(p)' <=> Held(p)) /\ (Released(p)' <=> Released(p))
  BY <1>1, <1>2 DEF Held, Released
<1>4. Held(r)'
  BY <1>1, <1>0 DEF Held
<1>5. \A p \in Batch : PhaseIs(p) /\ PhaseIs(p)'
  BY PhaseOfBatch, PhaseOfBatchNext
<1>6. Phases[r] = "none" /\ Phases'[r] = "held"
  <2>1. PhaseIs(r) /\ PhaseIs(r)' /\ ~ (r > r)
    BY <1>0, <1>5
  <2>2. QED
    BY <1>0, <1>4, <2>1 DEF PhaseIs
<1>7. \A p \in Batch : p # r => Phases'[p] = Phases[p]
  <2>1. SUFFICES ASSUME NEW p \in Batch, p # r PROVE Phases'[p] = Phases[p]
    OBVIOUS
  <2>2. PhaseIs(p) /\ PhaseIs(p)' /\ (p > r <=> p > asked)
    BY <1>0, <1>r, <1>5, <2>1 DEF PhaseIs
  <2>3. QED
    BY <1>0, <1>3, <2>1, <2>2 DEF PhaseIs
<1>8. Taken' = Taken
  BY <1>2 DEF Taken
<1>9. Consents' = Consents
  <2>1. ticket[r] = "none"
    BY <1>0 DEF PromiseInv, Proposed
  <2>2. \A p \in Gated : ticket'[p] = ticket[p] \/ (p = r /\ ticket'[p] = "PENDING")
    BY <1>0, <1>r DEF Ask
  <2>3. QED
    BY <2>1, <2>2 DEF Consents
<1>10. Phases' = [Phases EXCEPT ![r] = "held"]
  BY <1>0, <1>6, <1>7, Turns
<1>11. Governed!Hold(r)
  BY <1>0, <1>6, <1>8, <1>9, <1>10 DEF Governed!Hold, Governed!Becomes, Phases, Consents, Taken
<1>12. QED
  BY <1>0, <1>11

LEMMA ProposeReleases ==
  ASSUME GovernedInv, GovernedInv', ~ byToken, ~ byToken', NEW a \in Actor, Propose(a)
  PROVE  \E p \in Batch : Governed!Release(p)
<1>r. PICK r \in Batch : r = asked + 1 /\ r \notin Gated
  BY DEF Propose
<1>0. /\ PromiseInv /\ AgentInv /\ asked \in Nat /\ r \notin Gated /\ r \in Batch /\ asked' = r
      /\ CoTyped /\ r > asked /\ r \in Nat
  BY <1>r DEF GovernedInv, AgentInv, Typed, Small, Propose
<1>1. co[a].pc = "turn" /\ co'[a].pc = "batch" /\ co'[a].batch = r /\ \A b \in Actor : b # a => co'[b] = co[b]
  BY <1>0, <1>r DEF Propose, Moves, CoTyped
<1>2. row' = row /\ desk' = desk /\ grants' = grants /\ ran' = ran /\ ticket' = ticket
  BY DEF Propose, worldVars, ticketVars
<1>3. \A p \in Batch : p # r => (Held(p)' <=> Held(p)) /\ (Released(p)' <=> Released(p))
  BY <1>1, <1>2 DEF Held, Released
<1>4. Released(r)'
  BY <1>1 DEF Released
<1>5. \A p \in Batch : PhaseIs(p) /\ PhaseIs(p)'
  BY PhaseOfBatch, PhaseOfBatchNext
<1>6. Phases[r] = "none" /\ Phases'[r] = "released"
  <2>1. PhaseIs(r) /\ PhaseIs(r)' /\ ~ (r > r)
    BY <1>0, <1>5
  <2>2. QED
    BY <1>0, <1>4, <2>1 DEF PhaseIs
<1>7. \A p \in Batch : p # r => Phases'[p] = Phases[p]
  <2>1. SUFFICES ASSUME NEW p \in Batch, p # r PROVE Phases'[p] = Phases[p]
    OBVIOUS
  <2>2. PhaseIs(p) /\ PhaseIs(p)' /\ (p > r <=> p > asked)
    BY <1>0, <1>r, <1>5, <2>1 DEF PhaseIs
  <2>3. QED
    BY <1>0, <1>3, <2>1, <2>2 DEF PhaseIs
<1>8. Taken' = Taken /\ Consents' = Consents
  BY <1>2 DEF Taken, Consents
<1>9. Phases' = [Phases EXCEPT ![r] = "released"]
  BY <1>0, <1>6, <1>7, Turns
<1>10. Governed!Release(r)
  BY <1>0, <1>6, <1>8, <1>9 DEF Governed!Release, Governed!Becomes, Phases, Consents, Taken
<1>11. QED
  BY <1>0, <1>10

LEMMA TakesEffect ==
  ASSUME GovernedInv, GovernedInv', ~ byToken, ~ byToken', UNCHANGED <<asked, ticket>>,
         NEW r \in Batch, Released(r), ran[r] = 0, ran' = [ran EXCEPT ![r] = @ + 1],
         \A p \in Batch : (Held(p)' <=> Held(p)) /\ (Released(p)' <=> Released(p))
  PROVE  Governed!Act(r)
<1>0. ran \in [Batch -> Nat]
  BY DEF GovernedInv, AgentInv, Typed, WorldTyped
<1>1. \A p \in Batch : PhaseIs(p) /\ PhaseIs(p)'
  BY PhaseOfBatch, PhaseOfBatchNext
<1>2. Phases[r] = "released" /\ \A p \in Batch : Phases'[p] = Phases[p]
  BY <1>1 DEF PhaseIs
<1>3. Phases' = Phases
  <2>1. Phases = [p \in Batch |-> Phases[p]] /\ Phases' = [p \in Batch |-> Phases'[p]]
    BY DEF Phases
  <2>2. QED
    BY <1>2, <2>1
<1>4. Taken = ran /\ Taken' = ran'
  BY <1>0 DEF Taken
<1>5. Taken[r] < 1 /\ Taken' = [Taken EXCEPT ![r] = @ + 1] /\ Consents' = Consents
  BY <1>0, <1>4 DEF Consents
<1>6. QED
  BY <1>2, <1>3, <1>5 DEF Governed!Act, Phases, Consents, Taken

LEMMA Alone ==
  ASSUME OneLoop, NEW a \in Actor, Looping(a)
  PROVE  row.status \notin Paused /\ \A b \in Actor : b # a => co[b].pc \notin {"step", "turn", "pausing", "batch"}
BY DEF OneLoop, Looping, Paused

LEMMA ClaimReleases ==
  ASSUME GovernedInv, GovernedInv', ~ byToken, ~ byToken', AgentNext,
         NEW a \in Actor, a # Resume, Claim(a), row.status = Expected(a), row.ver = co[a].ver
  PROVE  \E p \in Batch : Governed!Release(p)
<1>0. /\ PromiseInv /\ AgentInv /\ Typed /\ Holders /\ CoTyped /\ AgentAssumption /\ row \in Row
  BY AgentAssumption DEF GovernedInv, AgentInv, Typed, RowTyped
<1>1. co[a].pc = "claim" /\ row.status = "PAUSED_FOR_APPROVAL"
  BY DEF Claim, Expected
<1>2. PICK p \in Gated : a = Handler(p)
  BY <1>0, <1>1 DEF Actor, PromiseInv, Consented
<1>3. /\ Claimant(p) /\ ticket[p] = "APPROVED" /\ co[a].batch = p /\ row.batch = p /\ p = asked
  BY <1>0, <1>1, <1>2 DEF Claimant, PromiseInv, Consented, Halts, Halted
<1>4. /\ row'.status = "RESUMING" /\ co'[a].pc = "batch" /\ co'[a].batch = p
      /\ \A b \in Actor : b # a => co'[b] = co[b]
      /\ UNCHANGED <<asked, ticket, ran, grants, desk>>
  <2>1. /\ row' = [row EXCEPT !.status = "RESUMING", !.ver = @ + 1]
        /\ Moves(a, "batch", row.ver + 1, co[a].batch)
        /\ UNCHANGED <<asked, ticket, ran, grants, desk>>
    BY DEF Claim, ticketVars
  <2>2. row'.status = "RESUMING"
    BY <1>0, <2>1 DEF Row
  <2>3. /\ co'[a].pc = "batch" /\ co'[a].batch = p
        /\ \A b \in Actor : b # a => co'[b] = co[b]
    BY <1>0, <1>3, <2>1 DEF Moves, CoTyped
  <2>4. QED
    BY <2>1, <2>2, <2>3
<1>5. \A b \in Actor : ~ Looping(b)
  BY <1>0, <1>1 DEF AgentInv, OneLoop
<1>6. Held(p) /\ Released(p)' /\ p \in Batch
  BY <1>0, <1>1, <1>3, <1>4 DEF Held, Released, AgentAssumption
<1>7. \A q \in Batch : q # p => (Held(q)' <=> Held(q)) /\ (Released(q)' <=> Released(q))
  BY <1>1, <1>3, <1>4, <1>5 DEF Held, Released, Looping
<1>8. \A q \in Batch : PhaseIs(q) /\ PhaseIs(q)'
  BY PhaseOfBatch, PhaseOfBatchNext
<1>9. Phases[p] = "held" /\ Phases'[p] = "released"
  BY <1>4, <1>6, <1>8 DEF PhaseIs
<1>10. \A q \in Batch : q # p => Phases'[q] = Phases[q]
  BY <1>4, <1>7, <1>8 DEF PhaseIs
<1>11. Phases' = [Phases EXCEPT ![p] = "released"]
  BY <1>6, <1>9, <1>10, Turns
<1>12. Consents' = Consents /\ Taken' = Taken /\ p \in Consents
  BY <1>3, <1>4 DEF Consents, Taken
<1>13. Governed!Release(p)
  BY <1>9, <1>11, <1>12 DEF Governed!Release, Governed!Becomes, Phases, Consents, Taken
<1>14. QED
  BY <1>6, <1>13

\* Every step of a task is a step of what the approver is promised, or none.
LEMMA PromiseStep ==
  ASSUME GovernedInv, GovernedInv', ~ byToken, ~ byToken', AgentNext
  PROVE  Rests \/ \E p \in Batch : \/ Governed!Hold(p) \/ Governed!Consent(p) \/ Governed!Release(p)
                                   \/ Governed!Act(p) \/ Governed!Close(p)
<1> DEFINE Goal == Rests \/ \E p \in Batch : \/ Governed!Hold(p) \/ Governed!Consent(p)
                             \/ Governed!Release(p) \/ Governed!Act(p) \/ Governed!Close(p)
           Quiet == UNCHANGED <<asked, ticket, ran>>
<1>0. /\ PromiseInv /\ AgentInv /\ Typed /\ Holders /\ CoTyped /\ RowTyped /\ WorldTyped
      /\ AgentAssumption /\ row \in Row
      /\ co \in [Actor -> Co] /\ desk \in [Desk -> DeskTask] /\ OneLoop
      /\ \A g \in DOMAIN grants : grants'[g].batch = grants[g].batch
  BY AgentAssumption, Grants DEF GovernedInv, AgentInv, Typed, RowTyped, CoTyped, WorldTyped
<1>1. ASSUME Quiet, NEW q,
             \A p \in Batch : IF p = q THEN (Held(p)' => Held(p)) /\ (Released(p)' => Released(p))
                              ELSE (Held(p)' <=> Held(p)) /\ (Released(p)' <=> Released(p))
      PROVE  Goal
  BY <1>1, LetGo
<1>2. ASSUME Quiet, \A p \in Batch : Same(p) PROVE Goal
  <2>1. \A p \in Batch : (Held(p)' <=> Held(p)) /\ (Released(p)' <=> Released(p))
    BY <1>2, SameHeld
  <2>2. QED
    BY <1>1, <1>2, <2>1
<1>3. ASSUME Quiet, NEW q, \A p \in Batch : Less(p) /\ (p # q => Same(p)) PROVE Goal
  <2>1. \A p \in Batch : IF p = q THEN (Held(p)' => Held(p)) /\ (Released(p)' => Released(p))
                              ELSE (Held(p)' <=> Held(p)) /\ (Released(p)' <=> Released(p))
    BY <1>3, SameHeld, LessHeld
  <2>2. QED
    BY <1>1, <1>3, <2>1
<1>4. ASSUME UNCHANGED desk, NEW p PROVE DeskSame(p) /\ DeskLess(p)
  <2>1. \A h \in Desk : desk'[h] = desk[h] /\ (AtWork(h)' <=> AtWork(h))
    BY <1>4 DEF AtWork
  <2>2. DeskSame(p)
    BY <1>0, <2>1, DesksStay
  <2>3. QED
    BY <2>2 DEF DeskSame, DeskLess
<1>5. ASSUME UNCHANGED co, NEW p PROVE CoSame(p) /\ CoLess(p)
  BY <1>5 DEF CoSame, CoLess, CoHas
<1>6. ASSUME row'.status = row.status, row'.batch = row.batch, NEW p PROVE RowSame(p) /\ RowLess(p)
  <2>1. RowSame(p)
    BY <1>6, RowStays
  <2>2. QED
    BY <2>1 DEF RowSame, RowLess
<1>7. ASSUME NEW a \in Actor, Stops(a)
      PROVE  \A p : CoLess(p) /\ (p # co[a].batch => CoSame(p))
                    /\ (co[a].pc \notin {"pausing", "batch", "step"} => CoSame(p))
  <2>1. (\A b \in Actor : b # a => co'[b] = co[b]) /\ co'[a].pc = "idle"
    BY <1>0, <1>7 DEF Stops, Idle
  <2>2. QED
    BY <2>1, CoLeaves
<1>8. ASSUME Cancels
      PROVE  \A p : RowLess(p) /\ (p # row.batch => RowSame(p))
  <2>1. row' = row \/ row'.status = "CANCELLED"
    BY <1>0, <1>8 DEF Cancels, Row
  <2>2. QED
    BY <1>6, <2>1, RowLeaves DEF Paused
<1>9. ASSUME Schedules PROVE \A p : CoSame(p)
  <2>1. CASE co[Resume] # Idle
    BY <1>5, <1>9, <2>1 DEF Schedules
  <2>2. CASE co[Resume] = Idle
    <3>1. /\ \A b \in Actor : b # Resume => co'[b] = co[b]
          /\ Resume \in Actor /\ co'[Resume].pc = "scheduled" /\ co[Resume].pc = "idle"
      BY <1>0, <1>9, <2>2 DEF Schedules, Actor, Co, Idle
    <3>2. QED
      BY <3>1, CoLeaves
  <2>3. QED
    BY <2>1, <2>2
<1>10. CASE StartTask
  <2>1. /\ Call \in Actor /\ co[Call].pc = "idle" /\ co'[Call].pc = "step" /\ co'[Call].batch = 0
        /\ \A b \in Actor : b # Call => co'[b] = co[b]
    BY <1>0, <1>10 DEF StartTask, Moves, Actor, Idle
  <2>2. row.status \notin Paused /\ row'.status \notin Paused
    BY <1>0, <1>10 DEF StartTask, Row, Paused
  <2>3. UNCHANGED <<asked, ticket, ran, desk>>
    BY <1>10 DEF StartTask, ticketVars, worldVars
  <2>4. \A p \in Batch : Same(p)
    BY <1>4, <2>1, <2>2, <2>3, CoStays, RowStays DEF Same
  <2>5. QED
    BY <1>2, <2>3, <2>4
<1>11. CASE CancelTask
  <2>1. UNCHANGED <<asked, ticket, ran, desk, co>> /\ Cancels
    BY <1>11 DEF CancelTask, ticketVars, worldVars
  <2>2. \A p \in Batch : Less(p) /\ (p # row.batch => Same(p))
    BY <1>4, <1>5, <1>8, <2>1 DEF Same, Less
  <2>3. QED
    BY <1>3, <2>1, <2>2
<1>12. CASE Crash
  <2>1. UNCHANGED <<asked, ticket, ran, row, grants>> /\ \A a \in Actor : co'[a].pc = "idle"
    BY <1>12 DEF Crash, Idle
  <2>2. ASSUME NEW h \in Desk
        PROVE  \/ AtWork(h)' /\ AtWork(h) /\ desk'[h].grant = desk[h].grant
               \/ ~ AtWork(h)' /\ ~ AtWork(h)
    <3>1. CASE desk[h].pc = "claim"
      BY <1>12, <3>1 DEF Crash, AtWork, Resting
    <3>2. CASE desk[h].pc = "record"
      <4>1. desk'[h] = [desk[h] EXCEPT !.pc = "report"] /\ desk[h] \in DeskTask
        BY <1>0, <1>12, <3>2 DEF Crash
      <4>2. QED
        BY <3>2, <4>1 DEF AtWork, DeskTask
    <3>3. CASE desk[h].pc \notin {"claim", "record"}
      <4>1. desk'[h] = desk[h]
        BY <1>12, <3>3 DEF Crash
      <4>2. QED
        BY <4>1 DEF AtWork
    <3>4. QED
      BY <3>1, <3>2, <3>3
  <2>3. \A p : DeskSame(p) /\ DeskLess(p)
    <3>1. \A p : DeskSame(p)
      BY <1>0, <2>2, DesksStay
    <3>2. QED
      BY <3>1 DEF DeskSame, DeskLess
  <2>4. \A p : CoLess(p)
    BY <2>1 DEF CoLess, CoHas, Pcs
  <2>5. ASSUME NEW q, \A a \in Actor : Looping(a) => co[a].batch = q, NEW p, p # q
        PROVE  CoSame(p)
    BY <2>1, <2>5 DEF CoSame, CoHas, Pcs, Looping
  <2>6. PICK q : \A a \in Actor : Looping(a) => co[a].batch = q
    <3>1. CASE \A a \in Actor : ~ Looping(a)
      BY <3>1
    <3>2. CASE \E a \in Actor : Looping(a)
      BY <1>0, <3>2 DEF OneLoop
    <3>3. QED
      BY <3>1, <3>2
  <2>7. \A p \in Batch : Less(p) /\ (p # q => Same(p))
    BY <1>6, <2>1, <2>3, <2>4, <2>5, <2>6 DEF Less, Same
  <2>8. QED
    BY <1>3, <2>1, <2>7
<1>13. ASSUME NEW a \in Actor, Runs(a) \/ Fail(a) PROVE Goal
  <2>1. CASE BuildContext(a)
    <3>1. co'[a].pc = "turn" /\ \A b \in Actor : b # a => co'[b] = co[b]
      BY <1>0, <2>1 DEF BuildContext, Moves
    <3>2. UNCHANGED <<asked, ticket, ran, row, desk>>
      BY <2>1 DEF BuildContext, ticketVars, worldVars
    <3>3. \A p \in Batch : Less(p) /\ (p # co[a].batch => Same(p))
      BY <1>4, <1>6, <3>1, <3>2, CoLeaves DEF Less, Same
    <3>4. QED
      BY <1>3, <3>2, <3>3
  <2>2. CASE EndTask(a)
    <3>1. UNCHANGED <<asked, ticket, ran, desk>> /\ row'.status \notin Paused
          /\ Stops(a) /\ co[a].pc = "turn"
      BY <2>2 DEF EndTask, ticketVars, worldVars, Writes, Paused
    <3>2. row.status \notin Paused
      BY <1>0, <3>1, Alone DEF Looping
    <3>3. \A p \in Batch : Same(p)
      BY <1>4, <1>7, <3>1, <3>2, RowStays DEF Same
    <3>4. QED
      BY <1>2, <3>1, <3>3
  <2>3. CASE Ask(a)
    BY <2>3, AskHolds
  <2>4. CASE Propose(a)
    BY <2>4, ProposeReleases
  <2>5. CASE PauseForApproval(a)
    <3>1. /\ UNCHANGED <<asked, ticket, ran, desk, grants>> /\ Stops(a) /\ co[a].pc = "pausing"
          /\ row'.status = "PAUSED_FOR_APPROVAL" /\ row'.batch = co[a].batch
      BY <2>5 DEF PauseForApproval, Writes, worldVars
    <3>2. /\ row.status \notin Paused
          /\ \A b \in Actor : b # a => co[b].pc \notin {"step", "turn", "pausing", "batch"}
      BY <1>0, <3>1, Alone DEF Looping
    <3>3. co'[a].pc = "idle" /\ \A b \in Actor : b # a => co'[b] = co[b]
      BY <1>0, <3>1 DEF Stops, Idle
    <3>4. \A p \in Batch : (Held(p)' <=> Held(p)) /\ (Released(p)' <=> Released(p))
      BY <3>1, <3>2, <3>3 DEF Held, Released, Paused
    <3>5. QED
      BY <1>1, <3>1, <3>4
  <2>6. CASE InvokeTools(a)
    <3>1. Goes(a, "step") /\ co[a].pc = "batch" /\ UNCHANGED <<asked, ticket, row, desk, grants>>
      BY <2>6 DEF InvokeTools, ticketVars
    <3>2. /\ co'[a].pc = "step" /\ co'[a].batch = co[a].batch
          /\ \A b \in Actor : b # a => co'[b] = co[b]
      BY <1>0, <3>1 DEF Goes, Co
    <3>3. \A p \in Batch : Same(p)
      BY <1>4, <1>6, <3>1, <3>2, CoStays DEF Same
    <3>4. CASE UNCHANGED ran
      BY <1>2, <3>1, <3>3, <3>4
    <3>5. CASE ~ UNCHANGED ran
      <4>1. ran' = [ran EXCEPT ![co[a].batch] = @ + 1] /\ ran \in [Batch -> Nat]
        BY <1>0, <2>6, <3>5 DEF InvokeTools, WorldTyped
      <4>2. PICK r \in Batch : r = co[a].batch
        BY <3>5, <4>1
      <4>3. Released(r) /\ AtHand(r)
        BY <3>1, <4>2 DEF Released, AtHand
      <4>4. ran[r] = 0
        BY <1>0, <4>3 DEF PromiseInv, Untouched
      <4>5. \A p \in Batch : (Held(p)' <=> Held(p)) /\ (Released(p)' <=> Released(p))
        BY <3>3, SameHeld
      <4>6. Governed!Act(r)
        BY <3>1, <4>1, <4>2, <4>3, <4>4, <4>5, TakesEffect
      <4>7. QED
        BY <4>2, <4>6
    <3>6. QED
      BY <3>4, <3>5
  <2>7. CASE PauseForBrowserExecution(a)
    <3>1. /\ UNCHANGED <<asked, ticket, ran, desk>> /\ Stops(a) /\ co[a].pc = "batch"
          /\ row'.status = "PAUSED_FOR_BROWSER_EXECUTION" /\ row'.batch = co[a].batch
      BY <2>7 DEF PauseForBrowserExecution, Writes, ticketVars
    <3>2. /\ row.status \notin Paused
          /\ \A b \in Actor : b # a => co[b].pc \notin {"step", "turn", "pausing", "batch"}
      BY <1>0, <3>1, Alone DEF Looping
    <3>3. co'[a].pc = "idle" /\ \A b \in Actor : b # a => co'[b] = co[b]
      BY <1>0, <3>1 DEF Stops, Idle
    <3>4. \A h \in Desk : AtWork(h) => grants'[desk'[h].grant].batch = grants[desk[h].grant].batch
      BY <1>0, <3>1 DEF Holders
    <3>5. \A p \in Batch : (Held(p)' <=> Held(p)) /\ (Released(p)' <=> Released(p))
      BY <3>1, <3>2, <3>3, <3>4 DEF Held, Released, Paused, AtWork
    <3>6. QED
      BY <1>1, <3>1, <3>5
  <2>8. CASE Reread(a)
    <3>1. /\ UNCHANGED <<asked, ticket, ran, row, desk>> /\ co[a].pc = "reread"
          /\ co'[a].pc \in {"claim", "idle"} /\ \A b \in Actor : b # a => co'[b] = co[b]
      BY <1>0, <2>8 DEF Reread, Moves, Stops, Idle, ticketVars, worldVars
    <3>2. \A p \in Batch : Same(p)
      BY <1>4, <1>6, <3>1, CoLeaves DEF Same
    <3>3. QED
      BY <1>2, <3>1, <3>2
  <2>9. CASE Claim(a)
    <3>0. UNCHANGED <<asked, ticket, ran, desk>> /\ co[a].pc = "claim"
      BY <2>9 DEF Claim, ticketVars
    <3>1. CASE ~ (row.status = Expected(a) /\ row.ver = co[a].ver)
      <4>1. Stops(a) /\ row' = row
        BY <2>9, <3>1 DEF Claim
      <4>2. \A p \in Batch : Same(p)
        BY <1>4, <1>6, <1>7, <3>0, <4>1 DEF Same
      <4>3. QED
        BY <1>2, <3>0, <4>2
    <3>2. CASE row.status = Expected(a) /\ row.ver = co[a].ver /\ a # Resume
      BY <2>9, <3>2, ClaimReleases
    <3>3. CASE row.status = Expected(a) /\ row.ver = co[a].ver /\ a = Resume
      <4>1. /\ row' = [row EXCEPT !.status = "RESUMING", !.ver = @ + 1]
            /\ Moves(a, "step", row.ver + 1, row.batch) /\ row.status = "PAUSED_FOR_BROWSER_EXECUTION"
        BY <2>9, <3>3 DEF Claim, Expected
      <4>2. row'.status = "RESUMING"
        BY <1>0, <4>1 DEF Row
      <4>3. /\ co'[a].pc = "step" /\ co'[a].batch = row.batch
            /\ \A b \in Actor : b # a => co'[b] = co[b]
        BY <1>0, <4>1 DEF Moves
      <4>4. \A b \in Actor : co[b].pc \notin {"step", "turn", "pausing", "batch"}
        BY <1>0, <4>1 DEF OneLoop, Looping
      <4>5. \A h \in Desk : AtWork(h) => grants'[desk'[h].grant].batch = grants[desk[h].grant].batch
        BY <1>0, <3>0 DEF Holders
      <4>6. \A p \in Batch : (Held(p)' <=> Held(p)) /\ (Released(p)' <=> Released(p))
        BY <3>0, <4>1, <4>2, <4>3, <4>4, <4>5 DEF Held, Released, AtWork
      <4>7. QED
        BY <1>1, <3>0, <4>6
    <3>4. QED
      BY <3>1, <3>2, <3>3
  <2>10. CASE Fail(a)
    <3>1. UNCHANGED <<asked, ticket, ran, row, desk>> /\ Stops(a)
      BY <2>10 DEF Fail, ticketVars, worldVars
    <3>2. \A p \in Batch : Less(p) /\ (p # co[a].batch => Same(p))
      BY <1>4, <1>6, <1>7, <3>1 DEF Less, Same
    <3>3. QED
      BY <1>3, <3>1, <3>2
  <2>11. QED
    BY <1>13, <2>1, <2>2, <2>3, <2>4, <2>5, <2>6, <2>7, <2>8, <2>9, <2>10 DEF Runs
<1>14. ASSUME NEW p \in Gated, Decide(p) PROVE Goal
  <2>1. /\ UNCHANGED <<asked, ran, row, desk, grants, co>> /\ ticket[p] = "PENDING" /\ p \in Batch
    BY <1>0, <1>14 DEF Decide, worldVars, AgentAssumption
  <2>2. PICK d \in {"APPROVED", "REFUSED"} : ticket' = [ticket EXCEPT ![p] = d]
    BY <1>14 DEF Decide
  <2>3. Phases' = Phases /\ Taken' = Taken
    BY <2>1 DEF Phases, Phase, Held, Released, Taken
  <2>4. ticket \in [Gated -> {"none", "PENDING", "APPROVED", "REFUSED"}]
    BY <1>0 DEF Typed, Small
  <2>5. CASE d = "APPROVED"
    <3>1. Consents' = Consents \cup {p} /\ p \notin Consents
      BY <2>1, <2>2, <2>4, <2>5 DEF Consents
    <3>2. Governed!Consent(p)
      BY <2>3, <3>1 DEF Governed!Consent, Phases, Consents, Taken
    <3>3. QED
      BY <2>1, <3>2
  <2>6. CASE d = "REFUSED"
    <3>1. Consents' = Consents
      BY <2>1, <2>2, <2>4, <2>6 DEF Consents
    <3>2. QED
      BY <2>3, <3>1 DEF Rests
  <2>7. QED
    BY <2>5, <2>6
<1>15. ASSUME NEW p \in Gated, Resumes(p) PROVE Goal
  <2>0. Handler(p) \in Actor
    BY DEF Actor
  <2>1. CASE OnApprovalDecided(p)
    <3>1. /\ UNCHANGED <<asked, ticket, ran, row, desk>>
          /\ \A b \in Actor : b # Handler(p) => co'[b] = co[b]
          /\ UNCHANGED co \/ co'[Handler(p)].pc \notin {"pausing", "batch", "step"}
      BY <1>0, <2>0, <2>1 DEF OnApprovalDecided, Moves, Reaction, worldVars
    <3>2. \A q \in Batch : Less(q) /\ (q # co[Handler(p)].batch => Same(q))
      BY <1>4, <1>5, <1>6, <2>0, <3>1, CoLeaves DEF Less, Same
    <3>3. QED
      BY <1>3, <3>1, <3>2
  <2>2. CASE CancelRefused(p)
    <3>1. /\ UNCHANGED <<asked, ticket, ran, desk>> /\ Cancels /\ Stops(Handler(p))
          /\ co[Handler(p)].pc = "cancel"
      BY <2>2 DEF CancelRefused, ticketVars, worldVars
    <3>2. \A q \in Batch : Less(q) /\ (q # row.batch => Same(q))
      BY <1>4, <1>7, <1>8, <2>0, <3>1 DEF Less, Same
    <3>3. QED
      BY <1>3, <3>1, <3>2
  <2>3. QED
    BY <1>15, <2>1, <2>2 DEF Resumes
<1>16. \A p \in Gated : ~ ResumeByToken(p)
  BY DEF ResumeByToken
<1>17. ASSUME UNCHANGED <<asked, ticket, ran, row, desk>>, UNCHANGED co PROVE Goal
  <2>1. \A p \in Batch : Same(p)
    BY <1>4, <1>5, <1>6, <1>17 DEF Same
  <2>2. QED
    BY <1>2, <1>17, <2>1
<1>18. CASE OtherArrives \/ OtherEnds \/ \E g \in Grant : GrantAges(g)
  BY <1>17, <1>18 DEF OtherArrives, OtherEnds, GrantAges, ticketVars, worldVars
<1>19. CASE ResumeBrowserTask
  <2>1. /\ UNCHANGED <<asked, ticket, ran, row, desk>> /\ co[Resume].pc = "scheduled" /\ Resume \in Actor
        /\ Goes(Resume, "reread") \/ Stops(Resume)
    BY <1>19 DEF ResumeBrowserTask, ticketVars, worldVars, Actor
  <2>2. CASE Goes(Resume, "reread")
    <3>1. co'[Resume].pc = "reread" /\ \A b \in Actor : b # Resume => co'[b] = co[b]
      BY <1>0, <2>1, <2>2 DEF Goes, Co
    <3>2. \A p \in Batch : Same(p)
      BY <1>4, <1>6, <2>1, <3>1, CoLeaves DEF Same
    <3>3. QED
      BY <1>2, <2>1, <3>2
  <2>3. CASE Stops(Resume)
    <3>1. \A p \in Batch : Same(p)
      BY <1>4, <1>6, <1>7, <2>1, <2>3 DEF Same
    <3>2. QED
      BY <1>2, <2>1, <3>1
  <2>4. QED
    BY <2>1, <2>2, <2>3
<1>20. CASE SweepBrowserExecutions
  <2>1. UNCHANGED <<asked, ticket, ran, row, desk>> /\ (Schedules \/ UNCHANGED co)
    BY <1>20 DEF SweepBrowserExecutions, ticketVars, worldVars
  <2>2. \A p \in Batch : Same(p)
    BY <1>4, <1>5, <1>6, <1>9, <2>1 DEF Same
  <2>3. QED
    BY <1>2, <2>1, <2>2
<1>21. CASE ExpireBrowserExecution
  <2>1. UNCHANGED <<asked, ticket, ran, desk, co>>
    BY <1>21 DEF ExpireBrowserExecution, ticketVars
  <2>2. row' = row \/ row'.status = "CANCELLED"
    BY <1>0, <1>21 DEF ExpireBrowserExecution, Row
  <2>3. \A p : RowLess(p) /\ (p # row.batch => RowSame(p))
    BY <1>6, <2>2, RowLeaves DEF Paused
  <2>4. \A p \in Batch : Less(p) /\ (p # row.batch => Same(p))
    BY <1>4, <1>5, <2>1, <2>3 DEF Less, Same
  <2>5. QED
    BY <1>3, <2>1, <2>4
<1>22. ASSUME NEW h \in Desk, Carries(h) PROVE Goal
  <2>0. desk[h] \in DeskTask
    BY <1>0
  <2>1. ASSUME UNCHANGED <<asked, ticket, ran>>, row'.status = row.status, row'.batch = row.batch,
               \A p : CoSame(p),
               NEW d, desk' = [desk EXCEPT ![h] = d],
               d.pc \in {"act", "report", "record"} => AtWork(h) /\ d.grant = desk[h].grant
        PROVE  Goal
    <3>1. desk'[h] = d /\ \A i \in Desk : i # h => desk'[i] = desk[i]
      BY <1>0, <2>1
    <3>2. AtWork(h)' => AtWork(h) /\ desk'[h].grant = desk[h].grant
      BY <2>1, <3>1 DEF AtWork
    <3>3. \A p : DeskLess(p) /\ (p # grants[desk[h].grant].batch => DeskSame(p))
      BY <1>0, <3>1, <3>2, DeskLeaves
    <3>4. \A p : CoLess(p)
      BY <2>1 DEF CoSame, CoLess
    <3>5. \A p \in Batch : Less(p) /\ (p # grants[desk[h].grant].batch => Same(p))
      BY <1>6, <2>1, <3>3, <3>4 DEF Less, Same
    <3>6. QED
      BY <1>3, <2>1, <3>5
  <2>2. CASE LoadBrowserPause(h)
    <3>1. UNCHANGED <<asked, ticket, ran, row, co>>
      BY <2>2 DEF LoadBrowserPause, ticketVars
    <3> DEFINE d == [pc |-> "claim", grant |-> row.grant, ver |-> row.ver, outcome |-> "none"]
    <3>2. desk' = [desk EXCEPT ![h] = d] /\ d.pc = "claim"
      BY <2>2 DEF LoadBrowserPause
    <3>3. QED
      BY <1>5, <2>1, <3>1, <3>2
  <2>3. CASE ClaimBrowserExecution(h)
    <3>0. UNCHANGED <<asked, ticket, ran, co, grants>> /\ desk[h].pc = "claim"
      BY <2>3 DEF ClaimBrowserExecution, ticketVars
    <3>1. row'.status = row.status /\ row'.batch = row.batch
      BY <1>0, <2>3 DEF ClaimBrowserExecution, Row
    <3>2. CASE desk' = [desk EXCEPT ![h] = Resting]
      BY <1>5, <2>1, <3>0, <3>1, <3>2 DEF Resting
    <3>3. CASE desk' # [desk EXCEPT ![h] = Resting]
      <4>1. Unchanged(desk[h].ver) /\ desk' = [desk EXCEPT ![h].pc = "act"]
        BY <2>3, <3>3 DEF ClaimBrowserExecution
      <4>2. /\ desk'[h].pc = "act" /\ desk'[h].grant = desk[h].grant
            /\ \A i \in Desk : i # h => desk'[i] = desk[i]
        BY <1>0, <2>0, <4>1 DEF DeskTask
      <4>3. PausedForBrowser /\ desk[h].grant = row.grant /\ grants[row.grant].batch = row.batch
        BY <1>0, <3>0, <4>1 DEF AgentInv, StampsMatch, Unchanged, Stamped, PausedForBrowser, Typed
      <4>4. \A p \in Batch : (Held(p)' <=> Held(p)) /\ (Released(p)' <=> Released(p))
        BY <3>0, <3>1, <4>2, <4>3 DEF Held, Released, PausedForBrowser
      <4>5. QED
        BY <1>1, <3>0, <4>4
    <3>4. QED
      BY <3>2, <3>3
  <2>4. CASE ExecuteGrantedAction(h)
    <3> DEFINE g == desk[h].grant
               usable == grants[g].age = "fresh" /\ ~ grants[g].redeemed
    <3>0. UNCHANGED <<asked, ticket, row, co>> /\ desk[h].pc = "act" /\ g \in DOMAIN grants /\ AtWork(h)
      BY <1>0, <2>4 DEF ExecuteGrantedAction, ticketVars, Holders, AtWork
    <3>1. PICK done \in BOOLEAN, o \in {"yes", "no", "unknown"} :
            /\ o = "no" => ~ done
            /\ ~ usable => o = "no"
            /\ desk' = [desk EXCEPT ![h] = [@ EXCEPT !.pc = "report", !.outcome = o]]
            /\ ran' = IF done THEN [ran EXCEPT ![grants[g].batch] = @ + 1] ELSE ran
      BY <2>4 DEF ExecuteGrantedAction
    <3>2. /\ desk'[h].pc = "report" /\ desk'[h].grant = g
          /\ \A i \in Desk : i # h => desk'[i] = desk[i]
      BY <1>0, <2>0, <3>1 DEF DeskTask
    <3>3. ASSUME NEW i \in Desk
          PROVE  \/ AtWork(i)' /\ AtWork(i) /\ desk'[i].grant = desk[i].grant
                 \/ ~ AtWork(i)' /\ ~ AtWork(i)
      BY <3>0, <3>2 DEF AtWork
    <3>4. \A p \in Batch : Same(p)
      BY <1>0, <1>5, <1>6, <3>0, <3>3, DesksStay DEF Same
    <3>5. CASE ~ done
      BY <1>2, <3>0, <3>1, <3>4, <3>5
    <3>6. CASE done
      <4>1. grants[g].batch \in Batch /\ ~ grants[g].redeemed
        BY <1>0, <3>0, <3>1, <3>6, GrantTyped DEF GrantRecord, AgentAssumption
      <4>2. PICK r \in Batch : r = grants[g].batch
        BY <4>1
      <4>3. ran[r] = 0
        BY <1>0, <3>0, <4>1, <4>2 DEF PromiseInv, OneGrant
      <4>4. Released(r)
        BY <3>0, <4>2 DEF Released
      <4>5. \A p \in Batch : (Held(p)' <=> Held(p)) /\ (Released(p)' <=> Released(p))
        BY <3>4, SameHeld
      <4>6. ran' = [ran EXCEPT ![r] = @ + 1]
        BY <3>1, <3>6, <4>2
      <4>7. Governed!Act(r)
        BY <3>0, <4>3, <4>4, <4>5, <4>6, TakesEffect
      <4>8. QED
        BY <4>7
    <3>7. QED
      BY <3>5, <3>6
  <2>5. CASE ReportExecution(h)
    <3>1. UNCHANGED <<asked, ticket, ran, row, co>> /\ AtWork(h)
      BY <2>5 DEF ReportExecution, ticketVars, AtWork
    <3>2. desk' = [desk EXCEPT ![h] = Resting]
          \/ desk' = [desk EXCEPT ![h] = [desk[h] EXCEPT !.pc = "record", !.ver = row.ver]]
      BY <2>5 DEF ReportExecution
    <3>3. [desk[h] EXCEPT !.pc = "record", !.ver = row.ver].grant = desk[h].grant
      BY <2>0 DEF DeskTask
    <3>4. QED
      BY <1>5, <2>1, <3>1, <3>2, <3>3 DEF Resting
  <2>6. CASE RecordReport(h)
    <3>1. UNCHANGED <<asked, ticket, ran>> /\ AtWork(h) /\ (Schedules \/ UNCHANGED co)
      BY <2>6 DEF RecordReport, ticketVars, AtWork
    <3>2. row'.status = row.status /\ row'.batch = row.batch
      BY <1>0, <2>6 DEF RecordReport, Row
    <3>3. desk' = [desk EXCEPT ![h] = Resting]
          \/ desk' = [desk EXCEPT ![h] = [desk[h] EXCEPT !.pc = "report"]]
      BY <2>6 DEF RecordReport
    <3>4. [desk[h] EXCEPT !.pc = "report"].grant = desk[h].grant
      BY <2>0 DEF DeskTask
    <3>5. QED
      BY <1>5, <1>9, <2>1, <3>1, <3>2, <3>3, <3>4 DEF Resting
  <2>7. CASE ReportUndelivered(h)
    <3>1. UNCHANGED <<asked, ticket, ran, row, co>> /\ desk' = [desk EXCEPT ![h] = Resting]
      BY <2>7 DEF ReportUndelivered, ticketVars
    <3>2. QED
      BY <1>5, <2>1, <3>1 DEF Resting
  <2>8. QED
    BY <1>22, <2>2, <2>3, <2>4, <2>5, <2>6, <2>7 DEF Carries
<1>23. QED
  BY <1>10, <1>11, <1>12, <1>13, <1>14, <1>15, <1>16, <1>18, <1>19, <1>20, <1>21, <1>22
  DEF AgentNext

\* A gated batch takes effect once, after its ticket was approved, and not after
\* its pause ended, unless the client resumes by token.
THEOREM ImplementsPromise == AgentSpec => GatedPromise
<1>1. AgentInit => Governed!Init
  <2>1. ASSUME AgentInit PROVE \A p \in Batch : Phase(p) = "none"
    <3>1. \A p \in Batch : p > asked /\ ~ (p <= asked)
      BY <2>1, AgentAssumption DEF AgentInit, Batch, AgentAssumption
    <3>2. QED
      BY <2>1, <3>1 DEF Phase
  <2>2. QED
    BY <2>1 DEF AgentInit, Governed!Init
<1>2. ASSUME GovernedInv, GovernedInv', AgentNext
      PROVE  [Governed!Next]_<<Phases, Consents, Taken>>
  <2>1. byToken' = byToken
    BY <1>2, ByTokenKept
  <2>2. CASE byToken
    BY <2>1, <2>2 DEF Phases, Phase, Consents, Taken
  <2>3. CASE ~ byToken
    BY <1>2, <2>1, <2>3, PromiseStep DEF Rests, Governed!Next
  <2>4. QED
    BY <2>2, <2>3
<1>3. ASSUME UNCHANGED agentVars PROVE UNCHANGED <<Phases, Consents, Taken>>
  <2>1. UNCHANGED <<row, asked, ticket, co, grants, desk, ran, byToken>>
    BY <1>3 DEF agentVars, ticketVars, worldVars
  <2>2. QED
    BY <2>1 DEF Phases, Phase, Held, Released, Consents, Taken
<1>4. GovernedInv /\ GovernedInv' /\ [AgentNext]_agentVars => [Governed!Next]_<<Phases, Consents, Taken>>
  BY <1>2, <1>3
<1>5. AgentSpec => []GovernedInv
  BY GovernedInit, GovernedStep, PTL DEF AgentSpec
<1>6. QED
  BY <1>1, <1>4, <1>5, PTL DEF AgentSpec, GatedPromise, Governed!Spec, Governed!vars, Phases,
     Consents, Taken

-----------------------------------------------------------------------------
(* Sequences *)

LEMMA AppendOf ==
  ASSUME NEW S, NEW q \in Seq(S), NEW x \in S
  PROVE  /\ Append(q, x) \in Seq(S)
         /\ DOMAIN Append(q, x) = 1..(Len(q) + 1) /\ DOMAIN q = 1..Len(q) /\ Len(q) \in Nat
         /\ \A i \in DOMAIN q : Append(q, x)[i] = q[i]
         /\ Append(q, x)[Len(q) + 1] = x
OBVIOUS
LEMMA ContainsAppend ==
  ASSUME NEW S, NEW q \in Seq(S), NEW x \in S, NEW y
  PROVE  Contains(Append(q, x), y) <=> Contains(q, y) \/ y = x
BY AppendOf DEF Contains

LEMMA BeforeAppend ==
  ASSUME NEW S, NEW q \in Seq(S), NEW x \in S, NEW j, NEW k
  PROVE  Before(Append(q, x), j, k) <=> Before(q, j, k) \/ (Contains(q, j) /\ k = x)
<1> DEFINE p == Append(q, x)
<1>1. /\ DOMAIN p = 1..(Len(q) + 1) /\ DOMAIN q = 1..Len(q) /\ Len(q) \in Nat
      /\ p[Len(q) + 1] = x /\ \A i \in DOMAIN q : p[i] = q[i]
  BY AppendOf
<1> HIDE DEF p
<1>2. Before(p, j, k) => Before(q, j, k) \/ (Contains(q, j) /\ k = x)
  BY <1>1 DEF Contains, Before
<1>3. Before(q, j, k) => Before(p, j, k)
  BY <1>1 DEF Before
<1>4. Contains(q, j) /\ k = x => Before(p, j, k)
  <2> SUFFICES ASSUME Contains(q, j), k = x PROVE Before(p, j, k)
    OBVIOUS
  <2>1. PICK i \in 1..Len(q) : q[i] = j
    BY DEF Contains
  <2>2. /\ i \in DOMAIN p /\ p[i] = j /\ i < Len(q) + 1
        /\ Len(q) + 1 \in DOMAIN p /\ p[Len(q) + 1] = k
    BY <1>1, <2>1
  <2> QED BY <2>2 DEF Before
<1> QED BY <1>2, <1>3, <1>4 DEF p

LEMMA InjectiveAppend ==
  ASSUME NEW S, NEW q \in Seq(S), NEW x \in S, IsInjective(q), ~Contains(q, x)
  PROVE  IsInjective(Append(q, x))
BY AppendOf DEF Contains, IsInjective

LEMMA NotBeforeItself ==
  ASSUME NEW S, NEW q \in Seq(S), IsInjective(q), NEW k
  PROVE  ~Before(q, k, k)
BY DEF Before, IsInjective

LEMMA TailOf ==
  ASSUME NEW S, NEW q \in Seq(S), q # <<>>
  PROVE  /\ Head(q) \in S /\ Head(q) = q[1] /\ 1 \in DOMAIN q
         /\ Tail(q) \in Seq(S) /\ DOMAIN Tail(q) = 1..(Len(q) - 1)
         /\ \A i \in DOMAIN Tail(q) : i + 1 \in DOMAIN q /\ Tail(q)[i] = q[i + 1]
OBVIOUS

-----------------------------------------------------------------------------
(* Types *)

SessionRecord == [of : Agent \cup {Anyone},
       at : {"unused", "asked", "granted", "open", "closed"},
       code : {"none", "unauthenticated", "other"}, confirmed : BOOLEAN,
       revoked : BOOLEAN, inbound : Seq(Command \cup {"status"}), outbound : Seq(Command)]
CallRecord == [at : {"idle", "waiting", "done"}, tenant : Tenant,
       to : Agent \cup {Anyone}, on : Session \cup {0},
       future : {"pending", "result", "gone"},
       outcome : {"none", "result", "gone", "timeout", "unavailable", "ambiguous"}]
MonitorRecord == [at : {"sleep", "asking", "told"}, asked : SUBSET Agent, still : SUBSET Agent]

LEMMA Types ==
  TypeOK <=>
    /\ session \in [Session -> SessionRecord] /\ call \in [Command -> CallRecord]
    /\ monitor \in MonitorRecord
    /\ enabled \in [Agent -> BOOLEAN] /\ toggles \in 0..MaxToggles /\ up \in BOOLEAN
    /\ link \in [Agent -> Session \cup {0}] /\ alive \in [Agent -> BOOLEAN]
    /\ work \in [Agent -> Seq(Command \X Session)]
    /\ sent \in Seq(Command) /\ did \in Seq(Command)
    /\ late \subseteq Command
BY DEF TypeOK, SessionRecord, CallRecord, MonitorRecord

\* A record with one field changed keeps its type.
LEMMA SessionWith ==
  ASSUME NEW r \in SessionRecord
  PROVE  /\ \A x \in {"unused", "asked", "granted", "open", "closed"} :
              [r EXCEPT !.at = x] \in SessionRecord
         /\ \A x \in Agent \cup {Anyone} : [r EXCEPT !.of = x] \in SessionRecord
         /\ \A x \in {"none", "unauthenticated", "other"} : [r EXCEPT !.code = x] \in SessionRecord
         /\ [r EXCEPT !.confirmed = TRUE] \in SessionRecord
         /\ [r EXCEPT !.revoked = TRUE] \in SessionRecord
         /\ \A q \in Seq(Command \cup {"status"}) : [r EXCEPT !.inbound = q] \in SessionRecord
         /\ \A q \in Seq(Command) : [r EXCEPT !.outbound = q] \in SessionRecord
         /\ r.inbound \in Seq(Command \cup {"status"}) /\ r.outbound \in Seq(Command)
         /\ r.of \in Agent \cup {Anyone}
BY DEF SessionRecord

LEMMA CallWith ==
  ASSUME NEW r \in CallRecord
  PROVE  /\ \A x \in {"pending", "result", "gone"} : [r EXCEPT !.future = x] \in CallRecord
         /\ \A x \in {"none", "result", "gone", "timeout", "unavailable", "ambiguous"} :
              [r EXCEPT !.outcome = x] \in CallRecord
         /\ \A x \in {"idle", "waiting", "done"} : [r EXCEPT !.at = x] \in CallRecord
         /\ \A x \in Session \cup {0} : [r EXCEPT !.on = x] \in CallRecord
         /\ \A x \in Tenant : [r EXCEPT !.tenant = x] \in CallRecord
         /\ \A x \in Agent \cup {Anyone} : [r EXCEPT !.to = x] \in CallRecord
         /\ r.future \in {"pending", "result", "gone"}
BY DEF CallRecord

LEMMA InitTyped == Init => TypeOK
<1> SUFFICES ASSUME Init PROVE TypeOK
  OBVIOUS
<1> USE GatewayAssumption
<1>1. (CHOOSE t \in Tenant : TRUE) \in Tenant
  OBVIOUS
<1>2. Unused \in SessionRecord
  BY DEF Unused, SessionRecord
<1>3. session \in [Session -> SessionRecord]
  BY <1>2 DEF Init
<1>4. call \in [Command -> CallRecord]
  BY <1>1 DEF Init, CallRecord
<1>5. /\ work \in [Agent -> Seq(Command \X Session)]
      /\ sent \in Seq(Command) /\ did \in Seq(Command)
  BY DEF Init
<1>6. monitor \in MonitorRecord
  BY DEF Init, Asleep, MonitorRecord
<1>7. /\ enabled \in [Agent -> BOOLEAN] /\ toggles \in 0..MaxToggles /\ up \in BOOLEAN
      /\ link \in [Agent -> Session \cup {0}] /\ alive \in [Agent -> BOOLEAN]
      /\ late \subseteq Command
  BY DEF Init
<1> QED BY <1>3, <1>4, <1>5, <1>6, <1>7, Types

LEMMA CloseTyped ==
  ASSUME session \in [Session -> SessionRecord], call \in [Command -> CallRecord],
         NEW s \in Session, NEW code \in {"unauthenticated", "other"}
  PROVE  /\ EndSession(s, code) \in [Session -> SessionRecord]
         /\ FailPending(s) \in [Command -> CallRecord]
<1>1. [[session[s] EXCEPT !.at = "closed"] EXCEPT !.code = code] \in SessionRecord
  <2>1. [session[s] EXCEPT !.at = "closed"] \in SessionRecord
    BY SessionWith
  <2> QED BY <2>1, SessionWith
<1>2. EndSession(s, code) = [session EXCEPT ![s] = [[session[s] EXCEPT !.at = "closed"] EXCEPT !.code = code]]
  BY DEF EndSession
<1>3. EndSession(s, code) \in [Session -> SessionRecord]
  BY <1>1, <1>2
<1>4. \A k \in Command : [call[k] EXCEPT !.future = "gone"] \in CallRecord
  BY CallWith
<1>5. FailPending(s) \in [Command -> CallRecord]
  BY <1>4 DEF FailPending
<1> QED BY <1>3, <1>5

\* A stream in use is an agent's, one that is not is blank; an agent's stream is its own.
Used(s) == session[s].at # "unused"
Owned ==
  /\ \A s \in Session : IF Used(s) THEN session[s].of \in Agent ELSE session[s] = Unused
  /\ \A a \in Agent : link[a] # 0 => session[link[a]].of = a /\ Used(link[a])

LEMMA GatewayTypeStep == TypeOK /\ Owned /\ [Next]_vars => TypeOK'
<1> SUFFICES ASSUME TypeOK, Owned, [Next]_vars PROVE TypeOK'
  OBVIOUS
<1> USE GatewayAssumption
<1>1. /\ session \in [Session -> SessionRecord] /\ call \in [Command -> CallRecord]
      /\ monitor \in MonitorRecord
      /\ enabled \in [Agent -> BOOLEAN] /\ toggles \in 0..MaxToggles /\ up \in BOOLEAN
      /\ link \in [Agent -> Session \cup {0}] /\ alive \in [Agent -> BOOLEAN]
      /\ work \in [Agent -> Seq(Command \X Session)]
      /\ sent \in Seq(Command) /\ did \in Seq(Command)
      /\ late \subseteq Command
  BY Types
<1>2. session' \in [Session -> SessionRecord]
  <2>1. CASE UNCHANGED session
    BY <1>1, <2>1
  <2>2. ASSUME NEW s \in Session, Serve(s) PROVE session' \in [Session -> SessionRecord]
    <3>0. session[s] \in SessionRecord
      BY <1>1
    <3>1. CASE Authorize(s)
      <4>1. [session[s] EXCEPT !.at = "granted"] \in SessionRecord
        BY <3>0, SessionWith
      <4>2. CASE session' = [session EXCEPT ![s].at = "granted"]
        BY <1>1, <4>1, <4>2
      <4>3. CASE session' = EndSession(s, "unauthenticated") \/ session' = EndSession(s, "other")
        BY <1>1, <4>3, CloseTyped
      <4> QED BY <3>1, <4>2, <4>3 DEF Authorize
    <3>2. CASE Establish(s)
      <4>1. [session[s] EXCEPT !.at = "open"] \in SessionRecord
        BY <3>0, SessionWith
      <4> QED BY <1>1, <3>2, <4>1 DEF Establish
    <3>3. CASE Push(s)
      <4>1. /\ session[s].outbound \in Seq(Command) /\ session[s].outbound # <<>>
        BY <3>0, <3>3, SessionWith DEF Push
      <4>2. Tail(session[s].outbound) \in Seq(Command)
        BY <4>1, TailOf
      <4>3. [session[s] EXCEPT !.outbound = Tail(session[s].outbound)] \in SessionRecord
        BY <3>0, <4>2, SessionWith
      <4>4. session' = [session EXCEPT ![s].outbound = Tail(@)]
        BY <3>3 DEF Push
      <4> QED BY <1>1, <4>3, <4>4
    <3>4. ASSUME ReceiveStatus(s) \/ ReceiveResult(s) PROVE session' \in [Session -> SessionRecord]
      <4>1. /\ session[s].inbound \in Seq(Command \cup {"status"}) /\ session[s].inbound # <<>>
        BY <3>0, <3>4, SessionWith DEF ReceiveStatus, ReceiveResult
      <4>2. Tail(session[s].inbound) \in Seq(Command \cup {"status"})
        BY <4>1, TailOf
      <4> DEFINE r == [session[s] EXCEPT !.confirmed = TRUE]
      <4>3. r \in SessionRecord
        BY <3>0, SessionWith
      <4>4. /\ [session[s] EXCEPT !.inbound = Tail(session[s].inbound)] \in SessionRecord
            /\ [r EXCEPT !.inbound = Tail(session[s].inbound)] \in SessionRecord
        BY <3>0, <4>2, <4>3, SessionWith
      <4>5. CASE session' = [session EXCEPT ![s].confirmed = TRUE, ![s].inbound = Tail(@)]
        <5>1. session' = [session EXCEPT ![s] = [r EXCEPT !.inbound = Tail(session[s].inbound)]]
          BY <1>1, <3>0, <4>5 DEF SessionRecord
        <5> HIDE DEF r
        <5> QED BY <1>1, <4>4, <5>1
      <4>6. CASE session' = [session EXCEPT ![s].inbound = Tail(@)]
        BY <1>1, <4>4, <4>6
      <4>7. CASE session' = EndSession(s, "unauthenticated")
        BY <1>1, <4>7, CloseTyped
      <4> QED BY <3>4, <4>5, <4>6, <4>7 DEF ReceiveStatus, ReceiveResult, Close
    <3>5. CASE Sever(s) \/ Hangup(s)
      <4>1. session' = EndSession(s, "unauthenticated") \/ session' = EndSession(s, "other")
        BY <3>5 DEF Sever, Hangup, Close
      <4> QED BY <1>1, <4>1, CloseTyped
    <3> QED BY <2>2, <3>1, <3>2, <3>3, <3>4, <3>5 DEF Serve
  <2>3. CASE SweepApply
    <3>1. \A s \in Session : [session[s] EXCEPT !.revoked = TRUE] \in SessionRecord
      BY <1>1, SessionWith
    <3> QED BY <1>1, <2>3, <3>1 DEF SweepApply
  <2>4. ASSUME NEW k \in Command, Send(k) PROVE session' \in [Session -> SessionRecord]
    <3>1. CASE UNCHANGED session
      BY <2>1, <3>1
    <3>2. ASSUME NEW t \in Tenant, NEW to \in Agent \cup {Anyone}, NEW s \in Candidates(t, to),
                 Accepted(k, t, to, s)
          PROVE session' \in [Session -> SessionRecord]
      <4>1. s \in Session
        BY DEF Candidates, Open
      <4>2. Append(session[s].outbound, k) \in Seq(Command)
        <5>1. session[s].outbound \in Seq(Command)
          BY <1>1, <4>1, SessionWith
        <5> QED BY <5>1, AppendOf
      <4>3. [session[s] EXCEPT !.outbound = Append(session[s].outbound, k)] \in SessionRecord
        BY <1>1, <4>1, <4>2, SessionWith
      <4>4. session' = [session EXCEPT ![s].outbound = Append(@, k)]
        BY <3>2 DEF Accepted, Enqueue
      <4> QED BY <1>1, <4>1, <4>3, <4>4
    <3> QED BY <2>4, <3>1, <3>2 DEF Send, Refused, gateway
  <2>5. ASSUME NEW a \in Agent, Connect(a) PROVE session' \in [Session -> SessionRecord]
    <3>1. <<"status">> \in Seq(Command \cup {"status"})
      OBVIOUS
    <3>2. [Unused EXCEPT !.of = a, !.at = "asked", !.inbound = <<"status">>] \in SessionRecord
      <4>1. Unused \in SessionRecord
        BY DEF Unused, SessionRecord
      <4>2. [Unused EXCEPT !.of = a] \in SessionRecord
        BY <4>1, SessionWith
      <4>3. [[Unused EXCEPT !.of = a] EXCEPT !.at = "asked"] \in SessionRecord
        BY <4>2, SessionWith
      <4> QED BY <3>1, <4>3, SessionWith
    <3> QED BY <1>1, <2>5, <3>2 DEF Connect
  <2>6. ASSUME NEW a \in Agent, Execute(a) PROVE session' \in [Session -> SessionRecord]
    <3> DEFINE k == Head(work[a])[1]
               s == Head(work[a])[2]
    <3>1. /\ work[a] \in Seq(Command \X Session) /\ work[a] # <<>>
      BY <1>1, <2>6 DEF Execute
    <3>2. Head(work[a]) \in Command \X Session
      BY <3>1, TailOf
    <3>3. k \in Command /\ s \in Session
      BY <3>2
    <3>4. session' = IF link[a] = s /\ session[s].at # "closed"
                     THEN [session EXCEPT ![s].inbound = Append(@, k)] ELSE session
      BY <2>6 DEF Execute
    <3> HIDE DEF k, s
    <3>5. Append(session[s].inbound, k) \in Seq(Command \cup {"status"})
      <4>1. session[s].inbound \in Seq(Command \cup {"status"})
        BY <1>1, <3>3, SessionWith
      <4> QED BY <3>3, <4>1, AppendOf
    <3>6. [session[s] EXCEPT !.inbound = Append(session[s].inbound, k)] \in SessionRecord
      BY <1>1, <3>3, <3>5, SessionWith
    <3> QED BY <1>1, <3>3, <3>4, <3>6
  <2> QED BY <2>1, <2>2, <2>3, <2>4, <2>5, <2>6
          DEF Next, Monitor, SweepStart, SweepRead, SweepFails, Stop, Caller, Return, TimeOut,
              Finish, Desktop, Learn, Drop, Toggle, gateway, vars
<1>3. call' \in [Command -> CallRecord]
  <2>1. CASE UNCHANGED call
    BY <1>1, <2>1
  <2>2. ASSUME NEW s \in Session, Serve(s) PROVE call' \in [Command -> CallRecord]
    <3>1. CASE call' = FailPending(s)
      BY <1>1, <3>1, CloseTyped
    <3>2. ASSUME NEW k, call' = Resolved(s, k), k \in Command
          PROVE  call' \in [Command -> CallRecord]
      <4>1. [call[k] EXCEPT !.future = "result"] \in CallRecord
        BY <1>1, <3>2, CallWith
      <4> QED BY <1>1, <3>2, <4>1 DEF Resolved
    <3> QED BY <2>1, <2>2, <3>1, <3>2
            DEF Serve, Authorize, Establish, Push, ReceiveStatus, ReceiveResult, Sever, Hangup, Close
  <2>3. ASSUME NEW k \in Command, Send(k) PROVE call' \in [Command -> CallRecord]
    <3>1. ASSUME NEW t \in Tenant, NEW to \in Agent \cup {Anyone},
                 NEW why \in {"unavailable", "ambiguous"}, Refused(k, t, to, why)
          PROVE  call' \in [Command -> CallRecord]
      <4>1. [[[[call[k] EXCEPT !.at = "done"] EXCEPT !.tenant = t] EXCEPT !.to = to]
                EXCEPT !.outcome = why] \in CallRecord
        <5>1. [call[k] EXCEPT !.at = "done"] \in CallRecord
          BY <1>1, CallWith
        <5>2. [[call[k] EXCEPT !.at = "done"] EXCEPT !.tenant = t] \in CallRecord
          BY <5>1, CallWith
        <5>3. [[[call[k] EXCEPT !.at = "done"] EXCEPT !.tenant = t] EXCEPT !.to = to] \in CallRecord
          BY <5>2, CallWith
        <5> QED BY <5>3, CallWith
      <4> QED BY <1>1, <3>1, <4>1 DEF Refused
    <3>2. ASSUME NEW t \in Tenant, NEW to \in Agent \cup {Anyone}, NEW s \in Candidates(t, to),
                 Accepted(k, t, to, s)
          PROVE  call' \in [Command -> CallRecord]
      <4>1. s \in Session
        BY DEF Candidates, Open
      <4>2. [[[[call[k] EXCEPT !.at = "waiting"] EXCEPT !.tenant = t] EXCEPT !.to = to]
                EXCEPT !.on = s] \in CallRecord
        <5>1. [call[k] EXCEPT !.at = "waiting"] \in CallRecord
          BY <1>1, CallWith
        <5>2. [[call[k] EXCEPT !.at = "waiting"] EXCEPT !.tenant = t] \in CallRecord
          BY <5>1, CallWith
        <5>3. [[[call[k] EXCEPT !.at = "waiting"] EXCEPT !.tenant = t] EXCEPT !.to = to] \in CallRecord
          BY <5>2, CallWith
        <5> QED BY <4>1, <5>3, CallWith
      <4> QED BY <1>1, <3>2, <4>2 DEF Accepted
    <3> QED BY <2>3, <3>1, <3>2 DEF Send
  <2>4. ASSUME NEW k \in Command, Return(k) \/ TimeOut(k) PROVE call' \in [Command -> CallRecord]
    <3>1. PICK outcome \in {"none", "result", "gone", "timeout"} : Finish(k, outcome)
      BY <1>1, <2>4, CallWith DEF Return, TimeOut
    <3>2. [[call[k] EXCEPT !.at = "done"] EXCEPT !.outcome = outcome] \in CallRecord
      <4>1. [call[k] EXCEPT !.at = "done"] \in CallRecord
        BY <1>1, CallWith
      <4> QED BY <4>1, CallWith
    <3>3. call' = [call EXCEPT ![k] = [call[k] EXCEPT !.at = "done", !.outcome = outcome]]
      BY <1>1, <3>1 DEF Finish
    <3> QED BY <1>1, <3>2, <3>3
  <2> QED BY <2>1, <2>2, <2>3, <2>4
          DEF Next, Monitor, SweepStart, SweepRead, SweepFails, SweepApply, Stop, Caller,
              Desktop, Connect, Execute, Learn, Drop, Toggle, gateway, vars
<1>4. monitor' \in MonitorRecord
  <2>1. CASE SweepStart
    <3>1. Agents(Open) \in SUBSET Agent
      BY DEF Agents, Open, Owned, Used
    <3> QED BY <1>1, <2>1, <3>1 DEF SweepStart, MonitorRecord
  <2>2. CASE SweepRead
    <3>1. {a \in monitor.asked : enabled[a]} \in SUBSET Agent
      BY <1>1 DEF MonitorRecord
    <3> QED BY <1>1, <2>2, <3>1 DEF SweepRead, MonitorRecord
  <2>3. ASSUME monitor' = Asleep PROVE monitor' \in MonitorRecord
    BY <2>3 DEF Asleep, MonitorRecord
  <2>4. CASE UNCHANGED monitor
    BY <1>1, <2>4
  <2> QED BY <2>1, <2>2, <2>3, <2>4, ZenonT(60)
          DEF Next, Monitor, SweepFails, SweepApply, Stop, Serve, Authorize, Establish, Push,
              ReceiveStatus, ReceiveResult, Sever, Hangup, Caller, Send, Refused, Accepted, Return,
              TimeOut, Finish, Desktop, Connect, Execute, Learn, Drop, Toggle, gateway, vars
<1>5. /\ enabled' \in [Agent -> BOOLEAN] /\ toggles' \in 0..MaxToggles /\ up' \in BOOLEAN
  <2>1. ASSUME NEW a \in Agent, Toggle(a)
        PROVE  enabled' \in [Agent -> BOOLEAN] /\ toggles' \in 0..MaxToggles /\ up' \in BOOLEAN
    <3>1. /\ toggles' = toggles + 1 /\ toggles < MaxToggles /\ up' = up
          /\ enabled' = [enabled EXCEPT ![a] = ~@]
      BY <2>1 DEF Toggle, gateway
    <3>2. toggles' \in 0..MaxToggles
      BY <1>1, <3>1
    <3>3. enabled' \in [Agent -> BOOLEAN]
      BY <1>1, <3>1, Zenon
    <3> QED BY <1>1, <3>1, <3>2, <3>3
  <2>2. CASE Stop
    BY <1>1, <2>2 DEF Stop
  <2>3. CASE UNCHANGED <<enabled, toggles, up>>
    BY <1>1, <2>3
  <2> QED BY <2>1, <2>2, <2>3, ZenonT(60)
          DEF Next, Monitor, SweepStart, SweepRead, SweepFails, SweepApply, Serve, Authorize,
              Establish, Push, ReceiveStatus, ReceiveResult, Sever, Hangup, Caller, Send, Refused,
              Accepted, Return, TimeOut, Finish, Desktop, Connect, Execute, Learn, Drop, gateway,
              vars
<1>6. link' \in [Agent -> Session \cup {0}] /\ alive' \in [Agent -> BOOLEAN]
  <2>1. CASE UNCHANGED <<link, alive>>
    BY <1>1, <2>1
  <2>2. ASSUME NEW a \in Agent, Desktop(a)
        PROVE  link' \in [Agent -> Session \cup {0}] /\ alive' \in [Agent -> BOOLEAN]
    <3>1. CASE Learn(a)
      <4>1. link' \in [Agent -> Session \cup {0}]
        BY <1>1, <3>1 DEF Learn
      <4>2. alive' \in [Agent -> BOOLEAN]
        <5> DEFINE fatal == session[link[a]].code = "unauthenticated"
        <5>1. alive' = [alive EXCEPT ![a] = @ /\ ~fatal]
          BY <3>1 DEF Learn
        <5> HIDE DEF fatal
        <5> QED BY <1>1, <5>1, Zenon
      <4> QED BY <4>1, <4>2
    <3> QED BY <1>1, <2>1, <2>2, <3>1, ZenonT(60)
               DEF Desktop, Connect, Execute, Drop, Toggle, gateway, desktop
  <2> QED BY <2>1, <2>2, ZenonT(60)
          DEF Next, Monitor, SweepStart, SweepRead, SweepFails, SweepApply, Serve, Authorize,
              Establish, Push, ReceiveStatus, ReceiveResult, Sever, Hangup, Caller, Send, Refused,
              Accepted, Return, TimeOut, Finish, Stop, desktop, vars
<1>7. work' \in [Agent -> Seq(Command \X Session)]
  <2>1. CASE UNCHANGED work
    BY <1>1, <2>1
  <2>2. ASSUME NEW s \in Session, Push(s) PROVE work' \in [Agent -> Seq(Command \X Session)]
    <3> DEFINE a == session[s].of
               k == Head(session[s].outbound)
    <3>1. session[s].outbound \in Seq(Command) /\ session[s].outbound # <<>>
      BY <1>1, <2>2, SessionWith DEF Push
    <3>2. k \in Command
      BY <3>1, TailOf
    <3>3. a \in Agent
      BY <2>2 DEF Push, Serving, Open, Owned, Used
    <3>4. Append(work[a], <<k, s>>) \in Seq(Command \X Session)
      BY <1>1, <3>2, <3>3
    <3>5. work' = IF link[a] = s THEN [work EXCEPT ![a] = Append(@, <<k, s>>)] ELSE work
      BY <2>2 DEF Push
    <3> HIDE DEF a, k
    <3> QED BY <1>1, <3>3, <3>4, <3>5
  <2>3. ASSUME NEW a \in Agent, Execute(a) PROVE work' \in [Agent -> Seq(Command \X Session)]
    <3>1. work[a] \in Seq(Command \X Session) /\ work[a] # <<>>
      BY <1>1, <2>3 DEF Execute
    <3>2. Tail(work[a]) \in Seq(Command \X Session)
      BY <3>1, TailOf
    <3>3. work' = [work EXCEPT ![a] = Tail(@)]
      BY <2>3 DEF Execute
    <3> QED BY <1>1, <3>2, <3>3
  <2>4. ASSUME NEW a \in Agent, Learn(a) PROVE work' \in [Agent -> Seq(Command \X Session)]
    BY <1>1, <2>4, SMTT(30) DEF Learn
  <2> QED BY <2>1, <2>2, <2>3, <2>4, ZenonT(60)
          DEF Next, Monitor, SweepStart, SweepRead, SweepFails, SweepApply, Serve, Authorize,
              Establish, ReceiveStatus, ReceiveResult, Sever, Hangup, Caller, Send, Refused,
              Accepted, Return, TimeOut, Finish, Stop, Desktop, Connect, Drop, Toggle, desktop, vars
<1>8. sent' \in Seq(Command) /\ did' \in Seq(Command) /\ late' \subseteq Command
  <2>1. CASE UNCHANGED history
    BY <1>1, <2>1 DEF history
  <2>2. ASSUME NEW k \in Command, Send(k)
        PROVE  sent' \in Seq(Command) /\ did' \in Seq(Command) /\ late' \subseteq Command
    <3>1. UNCHANGED history \/ /\ sent' = Append(sent, k) /\ did' = did
                               /\ (late' = late \cup {k} \/ late' = late)
      BY <2>2 DEF Send, Refused, Accepted
    <3>2. Append(sent, k) \in Seq(Command)
      BY <1>1, AppendOf
    <3> QED BY <1>1, <2>1, <3>1, <3>2
  <2>3. ASSUME NEW a \in Agent, Execute(a)
        PROVE  sent' \in Seq(Command) /\ did' \in Seq(Command) /\ late' \subseteq Command
    <3>1. Head(work[a]) \in Command \X Session
      BY <1>1, <2>3, TailOf DEF Execute
    <3>2. Head(work[a])[1] \in Command
      BY <3>1
    <3> QED BY <1>1, <2>3, <3>2 DEF Execute
  <2> QED BY <2>1, <2>2, <2>3
          DEF Next, Monitor, SweepStart, SweepRead, SweepFails, SweepApply, Serve, Authorize,
              Establish, Push, ReceiveStatus, ReceiveResult, Sever, Hangup, Caller, Return, TimeOut,
              Finish, Stop, Desktop, Connect, Learn, Drop, Toggle, vars
<1>9. TypeOK' <=>
        /\ session' \in [Session -> SessionRecord] /\ call' \in [Command -> CallRecord]
        /\ monitor' \in MonitorRecord
        /\ enabled' \in [Agent -> BOOLEAN] /\ toggles' \in 0..MaxToggles /\ up' \in BOOLEAN
        /\ link' \in [Agent -> Session \cup {0}] /\ alive' \in [Agent -> BOOLEAN]
        /\ work' \in [Agent -> Seq(Command \X Session)]
        /\ sent' \in Seq(Command) /\ did' \in Seq(Command)
        /\ late' \subseteq Command
  BY DEF TypeOK, SessionRecord, CallRecord, MonitorRecord
<1> QED BY <1>2, <1>3, <1>4, <1>5, <1>6, <1>7, <1>8, <1>9

-----------------------------------------------------------------------------
(* The invariant *)

Of(k) == session[call[k].on].of
InHand(a, k) == \E i \in DOMAIN work[a] : work[a][i][1] = k

\* A result is of a command that was run.
Heard ==
  /\ \A s \in Session, k \in Command : Contains(session[s].inbound, k) => Contains(did, k)
  /\ \A k \in Command : "result" \in {call[k].future, call[k].outcome} => Contains(did, k)

\* An accepted call has its session, for good.
Settled ==
  \A k \in Command :
    /\ call[k].at = "idle" => call[k].outcome = "none"
    /\ Contains(sent, k) =>
         /\ call[k].at # "idle" /\ call[k].outcome \notin {"unavailable", "ambiguous"}
         /\ call[k].on \in Session /\ Used(call[k].on)

\* A command is where its session took it, and one that is still queued there
\* is nowhere else.
Located ==
  /\ \A s \in Session, k \in Command : Contains(session[s].outbound, k) =>
       /\ Contains(sent, k) /\ call[k].on = s
       /\ ~Contains(did, k) /\ \A a \in Agent : ~InHand(a, k)
  /\ \A a \in Agent : \A i \in DOMAIN work[a] :
       LET k == work[a][i][1] IN Contains(sent, k) /\ call[k].on = work[a][i][2] /\ Of(k) = a
  /\ \A k \in Command : Contains(did, k) => Contains(sent, k)

\* What a revoked session accepts stays there.
Stranded ==
  \A k \in late : /\ Contains(sent, k) /\ session[call[k].on].revoked
                  /\ ~Contains(did, k) /\ \A a \in Agent : ~InHand(a, k)

Distinct == IsInjective(sent) /\ IsInjective(did)

\* What an agent has run, holds and is still to be sent on its present stream
\* is in the order of acceptance. An older stream's queue is not.
InOrder ==
  /\ \A j, k \in Command : Before(did, j, k) /\ SameAgent(j, k) => Before(sent, j, k)
  /\ \A a \in Agent : \A i, n \in DOMAIN work[a] :
       i < n => Before(sent, work[a][i][1], work[a][n][1])
  /\ \A a \in Agent, j \in Command : Contains(did, j) /\ Of(j) = a =>
       \A n \in DOMAIN work[a] : Before(sent, j, work[a][n][1])
  /\ \A s \in Session : \A i, n \in DOMAIN session[s].outbound :
       i < n => Before(sent, session[s].outbound[i], session[s].outbound[n])
  /\ \A a \in Agent : link[a] # 0 =>
       \A k \in Command : Contains(session[link[a]].outbound, k) =>
         /\ \A i \in DOMAIN work[a] : Before(sent, work[a][i][1], k)
         /\ \A j \in Command : Contains(did, j) /\ Of(j) = a => Before(sent, j, k)

GatewayInv == /\ TypeOK /\ Owned /\ GoneIsTold /\ Heard /\ Settled /\ Located /\ Stranded
              /\ Distinct /\ InOrder

-----------------------------------------------------------------------------
(* What the actions do, element by element *)

LEMMA SessionFields ==
  ASSUME NEW r \in SessionRecord
  PROVE  /\ \A x : LET q == [r EXCEPT !.at = x] IN
              /\ q.at = x /\ q.of = r.of /\ q.outbound = r.outbound /\ q.inbound = r.inbound
              /\ q.revoked = r.revoked
         /\ \A x : LET q == [r EXCEPT !.code = x] IN
              /\ q.at = r.at /\ q.of = r.of /\ q.outbound = r.outbound /\ q.inbound = r.inbound
              /\ q.revoked = r.revoked
         /\ \A x : LET q == [r EXCEPT !.confirmed = x] IN
              /\ q.at = r.at /\ q.of = r.of /\ q.outbound = r.outbound /\ q.inbound = r.inbound
              /\ q.revoked = r.revoked
         /\ \A x : LET q == [r EXCEPT !.revoked = x] IN
              /\ q.at = r.at /\ q.of = r.of /\ q.outbound = r.outbound /\ q.inbound = r.inbound
              /\ q.revoked = x
         /\ \A x : LET q == [r EXCEPT !.inbound = x] IN
              /\ q.at = r.at /\ q.of = r.of /\ q.outbound = r.outbound /\ q.inbound = x
              /\ q.revoked = r.revoked
         /\ \A x : LET q == [r EXCEPT !.outbound = x] IN
              /\ q.at = r.at /\ q.of = r.of /\ q.outbound = x /\ q.inbound = r.inbound
              /\ q.revoked = r.revoked
BY DEF SessionRecord

\* Stream s is closed or goes on to `where`; nothing else of a stream changes.
Moved(s, where) ==
  \A r \in Session :
    /\ session'[r].at = IF r = s THEN where ELSE session[r].at
    /\ session'[r].of = session[r].of /\ session'[r].outbound = session[r].outbound
    /\ session'[r].inbound = session[r].inbound /\ session'[r].revoked = session[r].revoked

LEMMA EndEffect ==
  ASSUME TypeOK, NEW s \in Session, NEW code \in {"unauthenticated", "other"},
         session' = EndSession(s, code)
  PROVE  Moved(s, "closed")
<1>1. session \in [Session -> SessionRecord]
  BY Types
<1> DEFINE r == [session[s] EXCEPT !.at = "closed"]
<1>2. session' = [session EXCEPT ![s] = [r EXCEPT !.code = code]]
  BY <1>1 DEF EndSession
<1>3. /\ r \in SessionRecord /\ r.at = "closed" /\ r.of = session[s].of
      /\ r.outbound = session[s].outbound /\ r.inbound = session[s].inbound
      /\ r.revoked = session[s].revoked
  <2>1. session[s] \in SessionRecord
    BY <1>1
  <2>2. r \in SessionRecord
    BY <2>1, SessionWith
  <2> QED BY <2>1, <2>2, SessionFields
<1> HIDE DEF r
<1>4. LET q == [r EXCEPT !.code = code] IN
        /\ q.at = r.at /\ q.of = r.of /\ q.outbound = r.outbound /\ q.inbound = r.inbound
        /\ q.revoked = r.revoked
  BY <1>3, SessionFields
<1> QED BY <1>1, <1>2, <1>3, <1>4 DEF Moved

LEMMA FailEffect ==
  ASSUME TypeOK, NEW s \in Session, call' = FailPending(s)
  PROVE  \A k \in Command :
           /\ call'[k].at = call[k].at /\ call'[k].on = call[k].on
           /\ call'[k].outcome = call[k].outcome
           /\ call'[k].future =
                IF call[k].at = "waiting" /\ call[k].on = s /\ call[k].future = "pending"
                THEN "gone" ELSE call[k].future
<1>1. call \in [Command -> CallRecord]
  BY Types
<1> QED BY <1>1 DEF FailPending, Awaited, CallRecord

\* What a step may do to a stream that is not pushed, queued upon, written to
\* or made: it is closed or goes on, is revoked, and its results are read.
Still ==
  \A s \in Session :
    /\ session'[s].of = session[s].of /\ session'[s].outbound = session[s].outbound
    /\ Used(s)' = Used(s)
    /\ session[s].revoked => session'[s].revoked
    /\ \A k : Contains(session'[s].inbound, k) => Contains(session[s].inbound, k)

LEMMA TailContains ==
  ASSUME NEW S, NEW q \in Seq(S), q # <<>>, NEW x
  PROVE  /\ Contains(Tail(q), x) => Contains(q, x)
         /\ Contains(q, Head(q))
BY TailOf DEF Contains

LEMMA ServeStill ==
  ASSUME TypeOK, NEW s \in Session, Serve(s), ~Push(s)
  PROVE  Still
<1> USE DEF Used
<1>1. session \in [Session -> SessionRecord]
  BY Types
<1>2. CASE Authorize(s)
  <2>1. CASE session' = [session EXCEPT ![s].at = "granted"]
    <3>1. session[s].at = "asked"
      BY <1>2 DEF Authorize
    <3> QED BY <1>1, <2>1, <3>1, SessionFields DEF Still
  <2>2. CASE session' = EndSession(s, "unauthenticated") \/ session' = EndSession(s, "other")
    <3>1. session[s].at = "asked" /\ Moved(s, "closed")
      BY <1>2, <2>2, EndEffect DEF Authorize
    <3> QED BY <3>1 DEF Still, Moved
  <2> QED BY <1>2, <2>1, <2>2 DEF Authorize
<1>3. CASE Establish(s)
  BY <1>1, <1>3, SessionFields DEF Still, Establish
<1>4. CASE ReceiveStatus(s) \/ ReceiveResult(s)
  <2>1. /\ session[s].at = "open" /\ session[s].inbound # <<>>
        /\ session[s].inbound \in Seq(Command \cup {"status"})
    BY <1>1, <1>4, SessionWith DEF ReceiveStatus, ReceiveResult, Serving, Open
  <2> DEFINE tail == Tail(session[s].inbound)
             r == [session[s] EXCEPT !.confirmed = TRUE]
  <2>2. \A k : Contains(tail, k) => Contains(session[s].inbound, k)
    BY <2>1, TailContains
  <2>3. /\ r \in SessionRecord /\ r.at = session[s].at /\ r.of = session[s].of
        /\ r.outbound = session[s].outbound /\ r.inbound = session[s].inbound
        /\ r.revoked = session[s].revoked
    <3>1. session[s] \in SessionRecord
      BY <1>1
    <3>2. r \in SessionRecord
      BY <3>1, SessionWith
    <3> QED BY <3>1, <3>2, SessionFields
  <2>4. CASE session' = [session EXCEPT ![s].confirmed = TRUE, ![s].inbound = Tail(@)]
    <3>1. session' = [session EXCEPT ![s] = [r EXCEPT !.inbound = tail]]
      BY <1>1, <2>4 DEF SessionRecord
    <3> HIDE DEF tail, r
    <3>2. LET q == [r EXCEPT !.inbound = tail] IN
            /\ q.at = r.at /\ q.of = r.of /\ q.outbound = r.outbound /\ q.inbound = tail
            /\ q.revoked = r.revoked
      BY <2>3, SessionFields
    <3> QED BY <1>1, <2>1, <2>2, <2>3, <3>1, <3>2 DEF Still
  <2>5. CASE session' = [session EXCEPT ![s].inbound = Tail(@)]
    <3>1. session' = [session EXCEPT ![s] = [session[s] EXCEPT !.inbound = tail]]
      BY <2>5
    <3> HIDE DEF tail
    <3> QED BY <1>1, <2>1, <2>2, <3>1, SessionFields DEF Still
  <2>6. CASE session' = EndSession(s, "unauthenticated")
    <3>1. Moved(s, "closed")
      BY <2>6, EndEffect
    <3> QED BY <2>1, <3>1 DEF Still, Moved
  <2> QED BY <1>4, <2>4, <2>5, <2>6 DEF ReceiveStatus, ReceiveResult, Close
<1>5. CASE Sever(s) \/ Hangup(s)
  <2>1. /\ session[s].at \in {"asked", "granted", "open"}
        /\ session' = EndSession(s, "unauthenticated") \/ session' = EndSession(s, "other")
    BY <1>5 DEF Sever, Hangup, Close, Open
  <2>2. Moved(s, "closed")
    BY <2>1, EndEffect
  <2> QED BY <2>1, <2>2 DEF Still, Moved
<1> QED BY <1>2, <1>3, <1>4, <1>5 DEF Serve

\* What a step may do to the calls that are not accepted by it.
CallsStill == \A k \in Command : call'[k].on = call[k].on

LEMMA ResolvedEffect ==
  ASSUME TypeOK, NEW s \in Session, NEW k \in Command, call' = Resolved(s, k)
  PROVE  \A j \in Command :
           /\ call'[j].at = call[j].at /\ call'[j].on = call[j].on
           /\ call'[j].outcome = call[j].outcome
           /\ call'[j].future \in IF j = k THEN {call[j].future, "result"} ELSE {call[j].future}
<1>1. call \in [Command -> CallRecord]
  BY Types
<1> QED BY <1>1 DEF Resolved, CallRecord

LEMMA ServeCalls ==
  ASSUME TypeOK, NEW s \in Session, Serve(s)
  PROVE  \A k \in Command :
           /\ call'[k].at = call[k].at /\ call'[k].on = call[k].on
           /\ call'[k].outcome = call[k].outcome
           /\ call'[k].future # call[k].future =>
                \/ call'[k].future = "gone"
                \/ call'[k].future = "result" /\ Contains(session[s].inbound, k)
<1>1. CASE UNCHANGED call
  BY <1>1
<1>2. CASE call' = FailPending(s)
  BY <1>2, FailEffect
<1>3. CASE ReceiveResult(s) /\ call' = Resolved(s, Head(session[s].inbound))
  <2>1. /\ session[s].inbound # <<>> /\ Head(session[s].inbound) \in Command
        /\ session[s].inbound \in Seq(Command \cup {"status"})
    BY <1>3, SessionWith, Types DEF ReceiveResult
  <2>2. Contains(session[s].inbound, Head(session[s].inbound))
    BY <2>1, TailContains
  <2> QED BY <1>3, <2>1, <2>2, ResolvedEffect
<1> QED BY <1>1, <1>2, <1>3
        DEF Serve, Authorize, Establish, Push, ReceiveStatus, ReceiveResult, Sever, Hangup, Close

LEMMA FinishEffect ==
  ASSUME TypeOK, NEW k \in Command, NEW outcome, Finish(k, outcome)
  PROVE  /\ \A j \in Command :
              /\ call'[j].on = call[j].on /\ call'[j].future = call[j].future
              /\ call'[j].at = IF j = k THEN "done" ELSE call[j].at
              /\ call'[j].outcome = IF j = k THEN outcome ELSE call[j].outcome
         /\ UNCHANGED <<session, link, work, sent, did, late>>
<1>1. call \in [Command -> CallRecord]
  BY Types
<1> QED BY <1>1 DEF Finish, gateway, desktop, history, CallRecord

LEMMA RefusedEffect ==
  ASSUME TypeOK, NEW k \in Command, NEW t, NEW to, NEW why, Refused(k, t, to, why)
  PROVE  /\ \A j \in Command :
              /\ call'[j].on = call[j].on /\ call'[j].future = call[j].future
              /\ call'[j].at = IF j = k THEN "done" ELSE call[j].at
              /\ call'[j].outcome = IF j = k THEN why ELSE call[j].outcome
         /\ UNCHANGED <<session, link, work, sent, did, late>>
<1>1. call \in [Command -> CallRecord]
  BY Types
<1> QED BY <1>1 DEF Refused, gateway, desktop, history, CallRecord

LEMMA AcceptedEffect ==
  ASSUME TypeOK, NEW k \in Command, NEW t \in Tenant, NEW to \in Agent \cup {Anyone},
         NEW s \in Candidates(t, to), Accepted(k, t, to, s)
  PROVE  /\ s \in Session /\ session[s].at = "open"
         /\ \A j \in Command :
              /\ call'[j].future = call[j].future /\ call'[j].outcome = call[j].outcome
              /\ call'[j].on = IF j = k THEN s ELSE call[j].on
              /\ call'[j].at = IF j = k THEN "waiting" ELSE call[j].at
         /\ \A r \in Session :
              /\ session'[r].at = session[r].at /\ session'[r].of = session[r].of
              /\ session'[r].inbound = session[r].inbound
              /\ session'[r].revoked = session[r].revoked
              /\ session'[r].outbound = IF r = s THEN Append(session[r].outbound, k)
                                                 ELSE session[r].outbound
         /\ sent' = Append(sent, k)
         /\ late' = IF session[s].revoked THEN late \cup {k} ELSE late
         /\ UNCHANGED <<link, work, did>>
<1>1. session \in [Session -> SessionRecord] /\ call \in [Command -> CallRecord]
  BY Types
<1>2. s \in Session /\ session[s].at = "open"
  BY DEF Candidates, Open
<1>3. \A j \in Command :
              /\ call'[j].future = call[j].future /\ call'[j].outcome = call[j].outcome
              /\ call'[j].on = IF j = k THEN s ELSE call[j].on
              /\ call'[j].at = IF j = k THEN "waiting" ELSE call[j].at
  BY <1>1 DEF Accepted, CallRecord
<1>4. session' = [session EXCEPT ![s] = [session[s] EXCEPT !.outbound = Append(session[s].outbound, k)]]
  BY DEF Accepted, Enqueue
<1>5. \A r \in Session :
              /\ session'[r].at = session[r].at /\ session'[r].of = session[r].of
              /\ session'[r].inbound = session[r].inbound
              /\ session'[r].revoked = session[r].revoked
              /\ session'[r].outbound = IF r = s THEN Append(session[r].outbound, k)
                                                 ELSE session[r].outbound
  BY <1>1, <1>2, <1>4, SessionFields
<1> QED BY <1>2, <1>3, <1>5 DEF Accepted, desktop

LEMMA PushEffect ==
  ASSUME TypeOK, Owned, NEW s \in Session, Push(s)
  PROVE  /\ session[s].at = "open" /\ ~session[s].revoked /\ session[s].of \in Agent
         /\ session[s].outbound \in Seq(Command) /\ session[s].outbound # <<>>
         /\ \A r \in Session :
              /\ session'[r].at = session[r].at /\ session'[r].of = session[r].of
              /\ session'[r].inbound = session[r].inbound
              /\ session'[r].revoked = session[r].revoked
              /\ session'[r].outbound = IF r = s THEN Tail(session[r].outbound)
                                                 ELSE session[r].outbound
         /\ \A a \in Agent :
              work'[a] = IF a = session[s].of /\ link[a] = s
                         THEN Append(work[a], <<Head(session[s].outbound), s>>) ELSE work[a]
         /\ UNCHANGED <<call, link, sent, did, late>>
<1>1. session \in [Session -> SessionRecord] /\ work \in [Agent -> Seq(Command \X Session)]
  BY Types
<1>2. /\ session[s].at = "open" /\ ~session[s].revoked /\ session[s].of \in Agent
      /\ session[s].outbound \in Seq(Command) /\ session[s].outbound # <<>>
  BY <1>1, SessionWith DEF Push, Serving, Open, Owned, Used
<1>3. session' = [session EXCEPT ![s] = [session[s] EXCEPT !.outbound = Tail(session[s].outbound)]]
  BY DEF Push
<1>4. \A r \in Session :
              /\ session'[r].at = session[r].at /\ session'[r].of = session[r].of
              /\ session'[r].inbound = session[r].inbound
              /\ session'[r].revoked = session[r].revoked
              /\ session'[r].outbound = IF r = s THEN Tail(session[r].outbound)
                                                 ELSE session[r].outbound
  BY <1>1, <1>3, SessionFields
<1> DEFINE x == <<Head(session[s].outbound), s>>
<1>5. work' = IF link[session[s].of] = s
              THEN [work EXCEPT ![session[s].of] = Append(@, x)] ELSE work
  BY DEF Push
<1> HIDE DEF x
<1>6. \A a \in Agent : work'[a] = IF a = session[s].of /\ link[a] = s
                                  THEN Append(work[a], x) ELSE work[a]
  BY <1>1, <1>2, <1>5
<1> QED BY <1>2, <1>4, <1>6 DEF Push, history, x

LEMMA ExecuteEffect ==
  ASSUME TypeOK, NEW a \in Agent, Execute(a)
  PROVE  LET k == work[a][1][1] IN
         /\ work[a] \in Seq(Command \X Session) /\ work[a] # <<>> /\ 1 \in DOMAIN work[a]
         /\ k \in Command
         /\ did' = Append(did, k)
         /\ \A b \in Agent : work'[b] = IF b = a THEN Tail(work[b]) ELSE work[b]
         /\ \A s \in Session :
              /\ session'[s].at = session[s].at /\ session'[s].of = session[s].of
              /\ session'[s].outbound = session[s].outbound
              /\ session'[s].revoked = session[s].revoked
              /\ session'[s].inbound \in {session[s].inbound, Append(session[s].inbound, k)}
         /\ UNCHANGED <<call, link, sent, late>>
<1>1. session \in [Session -> SessionRecord] /\ work \in [Agent -> Seq(Command \X Session)]
  BY Types
<1>2. work[a] \in Seq(Command \X Session) /\ work[a] # <<>>
  BY <1>1 DEF Execute
<1>3. Head(work[a]) \in Command \X Session /\ Head(work[a]) = work[a][1] /\ 1 \in DOMAIN work[a]
  BY <1>2, TailOf
<1> DEFINE k == Head(work[a])[1]
           s == Head(work[a])[2]
<1>4. k \in Command /\ s \in Session /\ k = work[a][1][1]
  BY <1>3
<1>5. /\ did' = Append(did, k) /\ work' = [work EXCEPT ![a] = Tail(@)]
      /\ session' = IF link[a] = s /\ session[s].at # "closed"
                    THEN [session EXCEPT ![s].inbound = Append(@, k)] ELSE session
      /\ UNCHANGED <<call, link, sent, late>>
  BY DEF Execute
<1> HIDE DEF k, s
<1>6. \A b \in Agent : work'[b] = IF b = a THEN Tail(work[b]) ELSE work[b]
  BY <1>1, <1>5
<1>7. \A r \in Session :
              /\ session'[r].at = session[r].at /\ session'[r].of = session[r].of
              /\ session'[r].outbound = session[r].outbound
              /\ session'[r].revoked = session[r].revoked
              /\ session'[r].inbound \in {session[r].inbound, Append(session[r].inbound, k)}
  <2>1. session' = session \/ session' = [session EXCEPT ![s] = [session[s] EXCEPT !.inbound = Append(session[s].inbound, k)]]
    BY <1>5
  <2>2. \A r \in Session : session'[r] = session[r] \/ session'[r] = [session[r] EXCEPT !.inbound = Append(session[r].inbound, k)]
    BY <1>1, <1>4, <2>1
  <2>3. SUFFICES ASSUME NEW r \in Session
                 PROVE  /\ session'[r].at = session[r].at /\ session'[r].of = session[r].of
                        /\ session'[r].outbound = session[r].outbound
                        /\ session'[r].revoked = session[r].revoked
                        /\ session'[r].inbound \in {session[r].inbound, Append(session[r].inbound, k)}
    OBVIOUS
  <2>4. session[r] \in SessionRecord
    BY <1>1
  <2>5. LET q == [session[r] EXCEPT !.inbound = Append(session[r].inbound, k)] IN
          /\ q.at = session[r].at /\ q.of = session[r].of /\ q.outbound = session[r].outbound
          /\ q.inbound = Append(session[r].inbound, k) /\ q.revoked = session[r].revoked
    BY <2>4, SessionFields
  <2> QED BY <2>2, <2>5
<1> QED BY <1>2, <1>3, <1>4, <1>5, <1>6, <1>7

LEMMA ConnectEffect ==
  ASSUME TypeOK, NEW a \in Agent, Connect(a)
  PROVE  \E s \in Session :
           /\ ~Used(s) /\ session'[s].of = a /\ session'[s].at = "asked"
           /\ session'[s].outbound = <<>> /\ session'[s].inbound = <<"status">>
           /\ \A r \in Session : r # s => session'[r] = session[r]
           /\ \A b \in Agent : link'[b] = IF b = a THEN s ELSE link[b]
           /\ UNCHANGED <<call, work, sent, did, late>>
<1>1. session \in [Session -> SessionRecord] /\ link \in [Agent -> Session \cup {0}]
  BY Types
<1>2. PICK s \in Session :
       /\ session[s].at = "unused"
       /\ session' = [session EXCEPT ![s] =
            [Unused EXCEPT !.of = a, !.at = "asked", !.inbound = <<"status">>]]
       /\ link' = [link EXCEPT ![a] = s]
  BY DEF Connect
<1>3. LET q == [Unused EXCEPT !.of = a, !.at = "asked", !.inbound = <<"status">>] IN
        q.of = a /\ q.at = "asked" /\ q.outbound = <<>> /\ q.inbound = <<"status">>
  BY DEF Unused
<1> QED BY <1>1, <1>2, <1>3 DEF Connect, Used, history

LEMMA SweepStill == TypeOK /\ SweepApply => Still /\ \A s \in Session : session'[s].at = session[s].at
<1> SUFFICES ASSUME TypeOK, SweepApply
             PROVE  Still /\ \A s \in Session : session'[s].at = session[s].at
  OBVIOUS
<1>1. session \in [Session -> SessionRecord]
  BY Types
<1>2. \A s \in Session : session'[s] = session[s] \/ session'[s] = [session[s] EXCEPT !.revoked = TRUE]
  BY DEF SweepApply
<1>3. ASSUME NEW s \in Session
      PROVE  /\ session'[s].at = session[s].at /\ session'[s].of = session[s].of
             /\ session'[s].outbound = session[s].outbound
             /\ session'[s].inbound = session[s].inbound
             /\ session[s].revoked => session'[s].revoked
  <2>1. session[s] \in SessionRecord
    BY <1>1
  <2>2. LET q == [session[s] EXCEPT !.revoked = TRUE] IN
          /\ q.at = session[s].at /\ q.of = session[s].of /\ q.outbound = session[s].outbound
          /\ q.inbound = session[s].inbound /\ q.revoked = TRUE
    BY <2>1, SessionFields
  <2> QED BY <1>2, <2>2
<1> QED BY <1>3 DEF Still, Used

LEMMA LearnEffect ==
  ASSUME TypeOK, NEW a \in Agent, Learn(a) \/ Drop(a)
  PROVE  /\ \A b \in Agent : link'[b] \in {link[b], 0} /\ work'[b] \in {work[b], <<>>}
         /\ UNCHANGED <<session, call, sent, did, late>>
<1>1. link \in [Agent -> Session \cup {0}] /\ work \in [Agent -> Seq(Command \X Session)]
  BY Types
<1> QED BY <1>1 DEF Learn, Drop, gateway, history

-----------------------------------------------------------------------------
(* Steps that move no command *)

Quiet ==
  /\ UNCHANGED <<sent, did, late>>
  /\ \A k \in Command : call'[k].on = call[k].on
  /\ \A s \in Session :
       /\ session'[s].outbound = session[s].outbound
       /\ Used(s) => /\ Used(s)' /\ session'[s].of = session[s].of
                     /\ session[s].revoked => session'[s].revoked
  /\ \A a \in Agent :
       /\ work'[a] \in {work[a], <<>>}
       /\ link'[a] \in {link[a], 0} \/ session'[link'[a]].outbound = <<>>

MovesCommand ==
  \/ \E s \in Session : Push(s)
  \/ \E a \in Agent : Execute(a)
  \/ \E k \in Command, t \in Tenant, to \in Agent \cup {Anyone} :
       \E s \in Candidates(t, to) : call[k].at = "idle" /\ Accepted(k, t, to, s)

LEMMA QuietStep ==
  ASSUME TypeOK, Owned, [Next]_vars, ~MovesCommand
  PROVE  Quiet
<1>1. CASE UNCHANGED <<session, call, link, work, sent, did, late>>
  BY <1>1 DEF Quiet, Used
<1>2. ASSUME NEW s \in Session, Serve(s) PROVE Quiet
  <2>1. Still /\ UNCHANGED <<link, work, sent, did, late>>
    BY <1>2, ServeStill
       DEF MovesCommand, Serve, Authorize, Establish, ReceiveStatus, ReceiveResult, Sever, Hangup,
           desktop, history
  <2>2. \A k \in Command : call'[k].on = call[k].on
    BY <1>2, ServeCalls
  <2> QED BY <2>1, <2>2 DEF Still, Quiet
<1>3. CASE SweepApply
  <2>1. Still /\ UNCHANGED <<call, link, work, sent, did, late>>
    BY <1>3, SweepStill DEF SweepApply, desktop, history
  <2> QED BY <2>1 DEF Still, Quiet
<1>4. ASSUME NEW k \in Command, Caller(k) PROVE Quiet
  <2>1. ASSUME NEW outcome, Finish(k, outcome) PROVE Quiet
    BY <2>1, FinishEffect DEF Quiet, Used
  <2>2. ASSUME NEW t, NEW to, NEW why, Refused(k, t, to, why) PROVE Quiet
    BY <2>2, RefusedEffect DEF Quiet, Used
  <2> QED BY <1>4, <2>1, <2>2 DEF Caller, Send, Return, TimeOut, MovesCommand
<1>5. ASSUME NEW a \in Agent, Connect(a) PROVE Quiet
  <2>1. PICK s \in Session :
           /\ ~Used(s) /\ session'[s].of = a /\ session'[s].at = "asked"
           /\ session'[s].outbound = <<>> /\ session'[s].inbound = <<"status">>
           /\ \A r \in Session : r # s => session'[r] = session[r]
           /\ \A b \in Agent : link'[b] = IF b = a THEN s ELSE link[b]
           /\ UNCHANGED <<call, work, sent, did, late>>
    BY <1>5, ConnectEffect
  <2>2. session[s].outbound = <<>>
    BY <2>1 DEF Owned, Unused
  <2> QED BY <2>1, <2>2 DEF Quiet, Used
<1>6. ASSUME NEW a \in Agent, Learn(a) \/ Drop(a) PROVE Quiet
  BY <1>6, LearnEffect DEF Quiet, Used
<1> QED BY <1>1, <1>2, <1>3, <1>4, <1>5, <1>6
        DEF MovesCommand, Next, Monitor, SweepStart, SweepRead, SweepFails, Stop, Desktop, Toggle,
            gateway, desktop, history, vars

LEMMA QuietKeeps ==
  ASSUME Settled, Located, Stranded, Distinct, InOrder, Quiet,
         work \in [Agent -> Seq(Command \X Session)],
         link' \in [Agent -> Session \cup {0}], late \subseteq Command
  PROVE  Located' /\ Stranded' /\ Distinct' /\ InOrder'
<1>1. \A k \in Command : Contains(sent, k) => Of(k)' = Of(k)
  BY DEF Settled, Quiet, Of
<1>2. \A a \in Agent : /\ DOMAIN work'[a] \subseteq DOMAIN work[a]
                       /\ \A i \in DOMAIN work'[a] : work'[a][i] = work[a][i]
  BY DEF Quiet
<1>3. \A a \in Agent, k \in Command : InHand(a, k)' => InHand(a, k)
  BY <1>2 DEF InHand
<1>4. \A s \in Session : session'[s].outbound = session[s].outbound
  BY DEF Quiet
<1>5. sent' = sent /\ did' = did /\ late' = late
  BY DEF Quiet
<1>6. Located'
  <2>1. \A s \in Session, k \in Command : Contains(session'[s].outbound, k) =>
          /\ Contains(sent', k) /\ call'[k].on = s
          /\ ~Contains(did', k) /\ \A a \in Agent : ~InHand(a, k)'
    BY <1>3, <1>4, <1>5 DEF Located, Quiet
  <2>2. ASSUME NEW a \in Agent, NEW i \in DOMAIN work'[a]
        PROVE  (LET k == work[a][i][1] IN
                Contains(sent, k) /\ call[k].on = work[a][i][2] /\ Of(k) = a)'
    <3>1. i \in DOMAIN work[a] /\ work'[a][i] = work[a][i]
      BY <1>2
    <3>2. PICK k \in Command : k = work[a][i][1]
      <4>1. work[a] \in Seq(Command \X Session)
        OBVIOUS
      <4>2. work[a][i] \in Command \X Session
        BY <3>1, <4>1
      <4> QED BY <4>2
    <3>3. Contains(sent, k) /\ call[k].on = work[a][i][2] /\ Of(k) = a
      BY <3>1, <3>2 DEF Located
    <3>4. Of(k)' = a /\ call'[k].on = work'[a][i][2]
      BY <1>1, <3>1, <3>3 DEF Quiet
    <3> QED BY <1>5, <3>1, <3>2, <3>3, <3>4 DEF Of
  <2>3. \A k \in Command : Contains(did', k) => Contains(sent', k)
    BY <1>5 DEF Located
  <2> QED BY <2>1, <2>2, <2>3 DEF Located
<1>7. Stranded'
  BY <1>3, <1>5 DEF Stranded, Quiet, Settled
<1>8. Distinct'
  BY <1>5 DEF Distinct
<1>9. InOrder'
  <2>1. ASSUME NEW j \in Command, NEW k \in Command, Before(did', j, k), SameAgent(j, k)'
        PROVE  Before(sent', j, k)
    <3>1. Contains(did, j) /\ Contains(did, k)
      BY <1>5, <2>1 DEF Before, Contains
    <3>2. Of(j)' = Of(j) /\ Of(k)' = Of(k)
      BY <1>1, <3>1 DEF Located
    <3> QED BY <1>5, <2>1, <3>2 DEF InOrder, SameAgent, Of
  <2>2. \A a \in Agent : \A i, n \in DOMAIN work'[a] :
          i < n => Before(sent', work'[a][i][1], work'[a][n][1])
    BY <1>2, <1>5 DEF InOrder
  <2>3. ASSUME NEW j \in Command, Contains(did', j) PROVE Of(j)' = Of(j) /\ Contains(did, j)
    BY <1>1, <1>5, <2>3 DEF Located
  <2>4. \A a \in Agent, j \in Command : Contains(did', j) /\ Of(j)' = a =>
          \A n \in DOMAIN work'[a] : Before(sent', j, work'[a][n][1])
    BY <1>2, <1>5, <2>3 DEF InOrder
  <2>5. \A s \in Session : \A i, n \in DOMAIN session'[s].outbound :
          i < n => Before(sent', session'[s].outbound[i], session'[s].outbound[n])
    BY <1>4, <1>5 DEF InOrder
  <2>6. ASSUME NEW a \in Agent, link'[a] # 0, NEW k \in Command,
               Contains(session'[link'[a]].outbound, k)
        PROVE  /\ \A i \in DOMAIN work'[a] : Before(sent', work'[a][i][1], k)
               /\ \A j \in Command : Contains(did', j) /\ Of(j)' = a => Before(sent', j, k)
    <3>1. link'[a] = link[a]
      <4>1. ~Contains(<<>>, k)
        BY DEF Contains
      <4> QED BY <2>6, <4>1 DEF Quiet
    <3>2. Contains(session[link[a]].outbound, k)
      BY <1>4, <2>6, <3>1
    <3> QED BY <1>2, <1>5, <2>3, <2>6, <3>1, <3>2 DEF InOrder
  <2> QED BY <2>1, <2>2, <2>4, <2>5, <2>6 DEF InOrder
<1> QED BY <1>6, <1>7, <1>8, <1>9

-----------------------------------------------------------------------------
(* Steps that move a command *)

LEMMA AcceptedKeeps ==
  ASSUME TypeOK, Owned, Settled, Located, Stranded, Distinct, InOrder,
         NEW k \in Command, NEW t \in Tenant, NEW to \in Agent \cup {Anyone},
         NEW s \in Candidates(t, to), call[k].at = "idle", Accepted(k, t, to, s)
  PROVE  Located' /\ Stranded' /\ Distinct' /\ InOrder'
<1>1. /\ session \in [Session -> SessionRecord] /\ sent \in Seq(Command)
      /\ work \in [Agent -> Seq(Command \X Session)] /\ late \subseteq Command
  BY Types
<1>2. /\ s \in Session /\ session[s].at = "open"
      /\ \A j \in Command : call'[j].on = IF j = k THEN s ELSE call[j].on
      /\ \A r \in Session :
           /\ session'[r].of = session[r].of /\ session'[r].revoked = session[r].revoked
           /\ session'[r].outbound = IF r = s THEN Append(session[r].outbound, k)
                                              ELSE session[r].outbound
      /\ sent' = Append(sent, k)
      /\ late' = IF session[s].revoked THEN late \cup {k} ELSE late
      /\ UNCHANGED <<link, work, did>>
  BY AcceptedEffect
<1>3. \A r \in Session : session[r].outbound \in Seq(Command)
  BY <1>1, SessionWith
<1>4. ~Contains(sent, k) /\ ~Contains(did, k) /\ \A a \in Agent : ~InHand(a, k)
  BY DEF Settled, Located, InHand
<1>5. \A j \in Command : Contains(sent', j) <=> Contains(sent, j) \/ j = k
  BY <1>1, <1>2, ContainsAppend
<1>6. \A j \in Command : Contains(sent, j) => Of(j)' = Of(j) /\ call'[j].on = call[j].on
  BY <1>2, <1>4 DEF Of, Settled
<1>7. \A i, j \in Command : Before(sent, i, j) => Before(sent', i, j)
  BY <1>1, <1>2, BeforeAppend
<1>8. \A j \in Command : Contains(sent, j) => Before(sent', j, k)
  BY <1>1, <1>2, BeforeAppend
<1>9. \A r \in Session, j \in Command :
        Contains(session'[r].outbound, j) <=> Contains(session[r].outbound, j) \/ (r = s /\ j = k)
  BY <1>2, <1>3, ContainsAppend
<1>10. \A a \in Agent : \A i \in DOMAIN work[a] : work[a][i][1] \in Command
  <2> SUFFICES ASSUME NEW a \in Agent, NEW i \in DOMAIN work[a] PROVE work[a][i][1] \in Command
    OBVIOUS
  <2>1. work[a] \in Seq(Command \X Session)
    BY <1>1
  <2>2. work[a][i] \in Command \X Session
    BY <2>1
  <2> QED BY <2>2
<1>11. Located'
  <2>1. \A r \in Session, j \in Command : Contains(session'[r].outbound, j) =>
          /\ Contains(sent', j) /\ call'[j].on = r
          /\ ~Contains(did', j) /\ \A a \in Agent : ~InHand(a, j)'
    BY <1>2, <1>4, <1>5, <1>9 DEF Located, InHand
  <2>2. ASSUME NEW a \in Agent, NEW i \in DOMAIN work'[a]
        PROVE  (LET j == work[a][i][1] IN
                Contains(sent, j) /\ call[j].on = work[a][i][2] /\ Of(j) = a)'
    <3>1. PICK j \in Command : j = work[a][i][1]
      BY <1>2, <1>10
    <3>2. Contains(sent, j) /\ call[j].on = work[a][i][2] /\ Of(j) = a
      BY <1>2, <2>2, <3>1 DEF Located
    <3>3. Of(j)' = a /\ call'[j].on = work'[a][i][2] /\ Contains(sent', j)
      BY <1>2, <1>5, <1>6, <3>2
    <3> QED BY <1>2, <3>1, <3>3 DEF Of
  <2>3. \A j \in Command : Contains(did', j) => Contains(sent', j)
    BY <1>2, <1>5 DEF Located
  <2> QED BY <2>1, <2>2, <2>3 DEF Located
<1>12. Stranded'
  <2>1. ASSUME NEW j \in late'
        PROVE  /\ Contains(sent', j) /\ session'[call'[j].on].revoked
               /\ ~Contains(did', j) /\ \A a \in Agent : ~InHand(a, j)'
    <3>1. CASE j \in late
      <4>1. j \in Command /\ Contains(sent, j) /\ session[call[j].on].revoked
        BY <1>1, <3>1 DEF Stranded
      <4>2. call[j].on \in Session /\ call'[j].on = call[j].on
        BY <1>6, <4>1 DEF Settled
      <4> QED BY <1>2, <1>5, <3>1, <4>1, <4>2 DEF Stranded, InHand
    <3>2. CASE j = k /\ session[s].revoked
      BY <1>2, <1>4, <1>5, <3>2 DEF InHand
    <3> QED BY <1>2, <2>1, <3>1, <3>2
  <2> QED BY <2>1 DEF Stranded
<1>13. Distinct'
  BY <1>1, <1>2, <1>4, InjectiveAppend DEF Distinct
<1>14. InOrder'
  <2>1. ASSUME NEW j \in Command, Contains(did', j)
        PROVE  Of(j)' = Of(j) /\ Contains(did, j) /\ Contains(sent, j)
    BY <1>2, <1>6, <2>1 DEF Located
  <2>2. ASSUME NEW i \in Command, NEW j \in Command, Before(did', i, j), SameAgent(i, j)'
        PROVE  Before(sent', i, j)
    <3>1. Contains(did', i) /\ Contains(did', j)
      <4>1. did' \in Seq(Command)
        BY <1>2, Types
      <4> QED BY <2>2, <4>1 DEF Before, Contains
    <3> QED BY <1>2, <1>7, <2>1, <2>2, <3>1 DEF InOrder, SameAgent, Of
  <2>3. \A a \in Agent : \A i, n \in DOMAIN work'[a] :
          i < n => Before(sent', work'[a][i][1], work'[a][n][1])
    BY <1>2, <1>7, <1>10 DEF InOrder
  <2>4. \A a \in Agent, j \in Command : Contains(did', j) /\ Of(j)' = a =>
          \A n \in DOMAIN work'[a] : Before(sent', j, work'[a][n][1])
    BY <1>2, <1>7, <1>10, <2>1 DEF InOrder
  <2>5. ASSUME NEW r \in Session, NEW i \in DOMAIN session'[r].outbound,
               NEW n \in DOMAIN session'[r].outbound, i < n
        PROVE  Before(sent', session'[r].outbound[i], session'[r].outbound[n])
    <3> DEFINE q == session[r].outbound
               p == Append(q, k)
    <3>0. q \in Seq(Command)
      BY <1>3
    <3>1. /\ DOMAIN p = 1..(Len(q) + 1) /\ DOMAIN q = 1..Len(q) /\ Len(q) \in Nat
          /\ p[Len(q) + 1] = k /\ \A m \in DOMAIN q : p[m] = q[m]
      BY <3>0, AppendOf
    <3>2. session'[r].outbound = IF r = s THEN p ELSE q
      BY <1>2
    <3>3. /\ \A m \in DOMAIN q : q[m] \in Command /\ Contains(sent, q[m])
          /\ \A l, m \in DOMAIN q : l < m => Before(sent, q[l], q[m])
      BY <3>0 DEF Located, InOrder, Contains
    <3> HIDE DEF p, q
    <3>4. CASE i \in DOMAIN q /\ n \in DOMAIN q
      BY <1>7, <2>5, <3>1, <3>2, <3>3, <3>4
    <3>5. CASE r = s /\ i \in DOMAIN q /\ n = Len(q) + 1
      BY <1>8, <3>1, <3>2, <3>3, <3>5
    <3> QED BY <2>5, <3>1, <3>2, <3>4, <3>5
  <2>6. ASSUME NEW a \in Agent, link'[a] # 0, NEW j \in Command,
               Contains(session'[link'[a]].outbound, j)
        PROVE  /\ \A i \in DOMAIN work'[a] : Before(sent', work'[a][i][1], j)
               /\ \A h \in Command : Contains(did', h) /\ Of(h)' = a => Before(sent', h, j)
    <3>0. link[a] \in Session /\ link[a] # 0
      BY <1>2, <2>6, Types
    <3>1. CASE Contains(session[link[a]].outbound, j)
      <4>1. /\ \A i \in DOMAIN work[a] : Before(sent, work[a][i][1], j)
            /\ \A h \in Command : Contains(did, h) /\ Of(h) = a => Before(sent, h, j)
        BY <3>0, <3>1 DEF InOrder
      <4> QED BY <1>2, <1>7, <1>10, <2>1, <4>1
    <3>2. CASE j = k
      <4>1. \A i \in DOMAIN work[a] : Contains(sent, work[a][i][1])
        BY DEF Located
      <4> QED BY <1>2, <1>8, <1>10, <2>1, <3>2, <4>1
    <3> QED BY <1>2, <1>9, <2>6, <3>0, <3>1, <3>2
  <2> QED BY <2>2, <2>3, <2>4, <2>5, <2>6 DEF InOrder
<1> QED BY <1>11, <1>12, <1>13, <1>14

LEMMA PushKeeps ==
  ASSUME TypeOK, Owned, Settled, Located, Stranded, Distinct, InOrder,
         NEW s \in Session, Push(s)
  PROVE  Located' /\ Stranded' /\ Distinct' /\ InOrder'
<1> DEFINE q == session[s].outbound
           k == Head(q)
           b == session[s].of
<1>1. /\ session \in [Session -> SessionRecord] /\ sent \in Seq(Command)
      /\ work \in [Agent -> Seq(Command \X Session)] /\ late \subseteq Command
      /\ link \in [Agent -> Session \cup {0}] /\ did \in Seq(Command)
  BY Types
<1>2. /\ ~session[s].revoked /\ b \in Agent /\ q \in Seq(Command) /\ q # <<>>
      /\ \A r \in Session :
           /\ session'[r].of = session[r].of /\ session'[r].revoked = session[r].revoked
           /\ session'[r].outbound = IF r = s THEN Tail(q) ELSE session[r].outbound
      /\ \A a \in Agent :
           work'[a] = IF a = b /\ link[a] = s THEN Append(work[a], <<k, s>>) ELSE work[a]
      /\ UNCHANGED <<call, link, sent, did, late>>
  BY PushEffect
<1>3. /\ k \in Command /\ k = q[1] /\ 1 \in DOMAIN q /\ Contains(q, k)
      /\ DOMAIN Tail(q) = 1..(Len(q) - 1)
      /\ \A i \in DOMAIN Tail(q) : i + 1 \in DOMAIN q /\ Tail(q)[i] = q[i + 1]
  BY <1>2, TailOf, TailContains
<1>4. \A r \in Session, j \in Command :
        Contains(session'[r].outbound, j) => Contains(session[r].outbound, j)
  BY <1>2, TailContains
<1>5. /\ Contains(sent, k) /\ call[k].on = s /\ Of(k) = b
      /\ ~Contains(did, k) /\ \A a \in Agent : ~InHand(a, k)
  BY <1>3 DEF Located, Of
<1>6. \A j \in Command : Contains(Tail(q), j) => j # k /\ Before(sent, k, j)
  <2> SUFFICES ASSUME NEW j \in Command, Contains(Tail(q), j) PROVE j # k /\ Before(sent, k, j)
    OBVIOUS
  <2>1. PICK i \in DOMAIN Tail(q) : Tail(q)[i] = j
    <3>1. Tail(q) \in Seq(Command)
      BY <1>2, TailOf
    <3>2. DOMAIN Tail(q) = 1..Len(Tail(q))
      BY <3>1
    <3> QED BY <3>2 DEF Contains
  <2>2. i + 1 \in DOMAIN q /\ q[i + 1] = j /\ 1 < i + 1
    BY <1>2, <1>3, <2>1
  <2>3. Before(sent, k, j)
    BY <1>3, <2>2 DEF InOrder
  <2> QED BY <1>1, <2>3, NotBeforeItself DEF Distinct
<1>7. \A j \in Command : Contains(sent, j) => Of(j)' = Of(j)
  BY <1>2 DEF Of, Settled
<1>8. \A a \in Agent : \A i \in DOMAIN work'[a] :
        \/ i \in DOMAIN work[a] /\ work'[a][i] = work[a][i]
        \/ /\ a = b /\ link[a] = s /\ work'[a][i] = <<k, s>> /\ i = Len(work[a]) + 1
           /\ \A n \in DOMAIN work'[a] : n # i => n < i
  <2> SUFFICES ASSUME NEW a \in Agent, NEW i \in DOMAIN work'[a]
               PROVE  \/ i \in DOMAIN work[a] /\ work'[a][i] = work[a][i]
                      \/ /\ a = b /\ link[a] = s /\ work'[a][i] = <<k, s>> /\ i = Len(work[a]) + 1
                         /\ \A n \in DOMAIN work'[a] : n # i => n < i
    OBVIOUS
  <2>1. CASE a = b /\ link[a] = s
    <3> DEFINE x == <<k, s>>
    <3>1. work[a] \in Seq(Command \X Session) /\ x \in Command \X Session
      BY <1>1, <1>3
    <3>2. work'[a] = Append(work[a], x)
      BY <1>2, <2>1
    <3> HIDE DEF x
    <3>3. /\ DOMAIN work'[a] = 1..(Len(work[a]) + 1) /\ DOMAIN work[a] = 1..Len(work[a])
          /\ Len(work[a]) \in Nat /\ work'[a][Len(work[a]) + 1] = x
          /\ \A n \in DOMAIN work[a] : work'[a][n] = work[a][n]
      BY <3>1, <3>2, AppendOf
    <3> QED BY <2>1, <3>3 DEF x
  <2>2. CASE ~(a = b /\ link[a] = s)
    BY <1>2, <2>2
  <2> QED BY <2>1, <2>2
<1> HIDE DEF k
<1>9. \A a \in Agent, j \in Command : InHand(a, j)' => InHand(a, j) \/ j = k
  BY <1>8 DEF InHand
<1>10. \A a \in Agent : \A i \in DOMAIN work'[a] : work'[a][i][1] \in Command
  <2> SUFFICES ASSUME NEW a \in Agent, NEW i \in DOMAIN work'[a] PROVE work'[a][i][1] \in Command
    OBVIOUS
  <2>1. CASE i \in DOMAIN work[a] /\ work'[a][i] = work[a][i]
    <3>1. work[a] \in Seq(Command \X Session)
      BY <1>1
    <3>2. work[a][i] \in Command \X Session
      BY <2>1, <3>1
    <3> QED BY <2>1, <3>2
  <2>2. CASE work'[a][i] = <<k, s>>
    BY <1>3, <2>2
  <2> QED BY <1>8, <2>1, <2>2
<1>11. Located'
  <2>1. ASSUME NEW r \in Session, NEW j \in Command, Contains(session'[r].outbound, j)
        PROVE  /\ Contains(sent', j) /\ call'[j].on = r
               /\ ~Contains(did', j) /\ \A a \in Agent : ~InHand(a, j)'
    <3>1. /\ Contains(sent, j) /\ call[j].on = r
          /\ ~Contains(did, j) /\ \A a \in Agent : ~InHand(a, j)
      BY <1>4, <2>1 DEF Located
    <3>2. j # k
      BY <1>2, <1>5, <1>6, <2>1, <3>1
    <3> QED BY <1>2, <1>9, <3>1, <3>2
  <2>2. ASSUME NEW a \in Agent, NEW i \in DOMAIN work'[a]
        PROVE  (LET j == work[a][i][1] IN
                Contains(sent, j) /\ call[j].on = work[a][i][2] /\ Of(j) = a)'
    <3>1. PICK j \in Command : j = work'[a][i][1]
      BY <1>10
    <3>2. Contains(sent, j) /\ call[j].on = work'[a][i][2] /\ Of(j) = a
      <4>1. CASE i \in DOMAIN work[a] /\ work'[a][i] = work[a][i]
        BY <3>1, <4>1 DEF Located
      <4>2. CASE a = b /\ work'[a][i] = <<k, s>>
        BY <1>5, <3>1, <4>2
      <4> QED BY <1>8, <4>1, <4>2
    <3>3. Of(j)' = a
      BY <1>7, <3>2
    <3> QED BY <1>2, <3>1, <3>2, <3>3 DEF Of
  <2>3. \A j \in Command : Contains(did', j) => Contains(sent', j)
    BY <1>2 DEF Located
  <2> QED BY <2>1, <2>2, <2>3 DEF Located
<1>12. Stranded'
  <2>1. ASSUME NEW j \in late
        PROVE  /\ Contains(sent', j) /\ session'[call'[j].on].revoked
               /\ ~Contains(did', j) /\ \A a \in Agent : ~InHand(a, j)'
    <3>1. /\ j \in Command /\ Contains(sent, j) /\ session[call[j].on].revoked
          /\ ~Contains(did, j) /\ \A a \in Agent : ~InHand(a, j)
      BY <1>1, <2>1 DEF Stranded
    <3>2. call[j].on \in Session /\ j # k
      BY <1>2, <1>5, <3>1 DEF Settled
    <3> QED BY <1>2, <1>9, <3>1, <3>2
  <2> QED BY <1>2, <2>1 DEF Stranded
<1>13. Distinct'
  BY <1>2 DEF Distinct
<1>14. InOrder'
  <2>1. ASSUME NEW j \in Command, Contains(did', j)
        PROVE  Of(j)' = Of(j) /\ Contains(did, j) /\ Contains(sent, j)
    BY <1>2, <1>7, <2>1 DEF Located
  <2>2. ASSUME NEW i \in Command, NEW j \in Command, Before(did', i, j), SameAgent(i, j)'
        PROVE  Before(sent', i, j)
    <3>1. Contains(did', i) /\ Contains(did', j)
      BY <1>1, <1>2, <2>2 DEF Before, Contains
    <3> QED BY <1>2, <2>1, <2>2, <3>1 DEF InOrder, SameAgent, Of
  <2>3. ASSUME NEW a \in Agent, NEW i \in DOMAIN work'[a], NEW n \in DOMAIN work'[a], i < n
        PROVE  Before(sent', work'[a][i][1], work'[a][n][1])
    <3>0. i \in Int /\ n \in Int
      BY <1>1, <1>8
    <3>1. i \in DOMAIN work[a] /\ work'[a][i] = work[a][i]
      BY <1>8, <2>3, <3>0
    <3>2. CASE n \in DOMAIN work[a] /\ work'[a][n] = work[a][n]
      BY <1>2, <2>3, <3>1, <3>2 DEF InOrder
    <3>3. CASE a = b /\ link[a] = s /\ work'[a][n] = <<k, s>>
      <4>1. link[a] # 0 /\ Contains(session[link[a]].outbound, k)
        BY <1>3, <3>3 DEF Session
      <4>2. Before(sent, work[a][i][1], k)
        BY <1>3, <3>1, <4>1 DEF InOrder
      <4> QED BY <1>2, <3>1, <3>3, <4>2
    <3> QED BY <1>8, <3>2, <3>3
  <2>4. ASSUME NEW a \in Agent, NEW j \in Command, Contains(did', j), Of(j)' = a,
               NEW n \in DOMAIN work'[a]
        PROVE  Before(sent', j, work'[a][n][1])
    <3>1. CASE n \in DOMAIN work[a] /\ work'[a][n] = work[a][n]
      BY <1>2, <2>1, <2>4, <3>1 DEF InOrder
    <3>2. CASE a = b /\ link[a] = s /\ work'[a][n] = <<k, s>>
      <4>1. link[a] # 0 /\ Contains(session[link[a]].outbound, k)
        BY <1>3, <3>2 DEF Session
      <4>2. Before(sent, j, k)
        BY <1>3, <2>1, <2>4, <4>1 DEF InOrder
      <4> QED BY <1>2, <3>2, <4>2
    <3> QED BY <1>8, <3>1, <3>2
  <2>5. ASSUME NEW r \in Session, NEW i \in DOMAIN session'[r].outbound,
               NEW n \in DOMAIN session'[r].outbound, i < n
        PROVE  Before(sent', session'[r].outbound[i], session'[r].outbound[n])
    <3>1. CASE r = s
      <4>1. /\ i + 1 \in DOMAIN q /\ session'[r].outbound[i] = q[i + 1]
            /\ n + 1 \in DOMAIN q /\ session'[r].outbound[n] = q[n + 1]
            /\ i \in Int /\ n \in Int
        <5>1. session'[r].outbound = Tail(q) /\ Len(q) \in Nat
          BY <1>2, <3>1
        <5>2. i \in 1..(Len(q) - 1) /\ n \in 1..(Len(q) - 1)
          BY <1>3, <2>5, <5>1
        <5> HIDE DEF q
        <5> QED BY <1>3, <2>5, <5>1, <5>2
      <4>2. i + 1 < n + 1
        BY <2>5, <4>1
      <4> QED BY <1>2, <3>1, <4>1, <4>2 DEF InOrder
    <3>2. CASE r # s
      BY <1>2, <2>5, <3>2 DEF InOrder
    <3> QED BY <3>1, <3>2
  <2>6. ASSUME NEW a \in Agent, link'[a] # 0, NEW j \in Command,
               Contains(session'[link'[a]].outbound, j)
        PROVE  /\ \A i \in DOMAIN work'[a] : Before(sent', work'[a][i][1], j)
               /\ \A h \in Command : Contains(did', h) /\ Of(h)' = a => Before(sent', h, j)
    <3>0. link[a] \in Session /\ link[a] # 0
      BY <1>1, <1>2, <2>6
    <3>1. Contains(session[link[a]].outbound, j)
      BY <1>2, <1>4, <2>6, <3>0
    <3>2. /\ \A i \in DOMAIN work[a] : Before(sent, work[a][i][1], j)
          /\ \A h \in Command : Contains(did, h) /\ Of(h) = a => Before(sent, h, j)
      BY <3>0, <3>1 DEF InOrder
    <3>3. link[a] = s => Before(sent, k, j)
      BY <1>2, <1>6, <2>6
    <3>4. \A i \in DOMAIN work'[a] : Before(sent', work'[a][i][1], j)
      BY <1>2, <1>8, <3>2, <3>3
    <3> QED BY <1>2, <2>1, <3>2, <3>4
  <2> QED BY <2>2, <2>3, <2>4, <2>5, <2>6 DEF InOrder
<1> QED BY <1>11, <1>12, <1>13, <1>14

LEMMA ExecuteKeeps ==
  ASSUME TypeOK, Owned, Settled, Located, Stranded, Distinct, InOrder,
         NEW b \in Agent, Execute(b)
  PROVE  Located' /\ Stranded' /\ Distinct' /\ InOrder'
<1> DEFINE q == work[b]
           k == q[1][1]
<1>1. /\ sent \in Seq(Command) /\ did \in Seq(Command) /\ late \subseteq Command
      /\ work \in [Agent -> Seq(Command \X Session)] /\ link \in [Agent -> Session \cup {0}]
  BY Types
<1>2. /\ q \in Seq(Command \X Session) /\ q # <<>> /\ 1 \in DOMAIN q /\ k \in Command
      /\ did' = Append(did, k)
      /\ \A a \in Agent : work'[a] = IF a = b THEN Tail(work[a]) ELSE work[a]
      /\ \A s \in Session :
           /\ session'[s].of = session[s].of /\ session'[s].revoked = session[s].revoked
           /\ session'[s].outbound = session[s].outbound
      /\ UNCHANGED <<call, link, sent, late>>
  BY ExecuteEffect
<1>3. Contains(sent, k) /\ call[k].on = q[1][2] /\ Of(k) = b /\ InHand(b, k)
  BY <1>2 DEF Located, InHand
<1>4. /\ DOMAIN Tail(q) = 1..(Len(q) - 1)
      /\ \A i \in DOMAIN Tail(q) : i + 1 \in DOMAIN q /\ Tail(q)[i] = q[i + 1]
  BY <1>2, TailOf
<1>5. \A a \in Agent : \A i \in DOMAIN work'[a] :
        \/ a # b /\ i \in DOMAIN work[a] /\ work'[a][i] = work[a][i]
        \/ a = b /\ i \in Int /\ 1 < i + 1 /\ i + 1 \in DOMAIN work[a] /\ work'[a][i] = work[a][i + 1]
  <2> SUFFICES ASSUME NEW a \in Agent, NEW i \in DOMAIN work'[a]
               PROVE  \/ a # b /\ i \in DOMAIN work[a] /\ work'[a][i] = work[a][i]
                      \/ /\ a = b /\ i \in Int /\ 1 < i + 1 /\ i + 1 \in DOMAIN work[a]
                         /\ work'[a][i] = work[a][i + 1]
    OBVIOUS
  <2>1. CASE a = b
    <3>1. work'[a] = Tail(q) /\ Len(q) \in Nat
      BY <1>2, <2>1
    <3>2. i \in 1..(Len(q) - 1)
      BY <1>4, <3>1
    <3>3. i \in Int /\ 1 < i + 1
      BY <3>1, <3>2
    <3> QED BY <1>4, <2>1, <3>1, <3>3
  <2>2. CASE a # b
    BY <1>2, <2>2
  <2> QED BY <2>1, <2>2
<1>6. ~Contains(did, k)
  <2>1. Contains(did, k) => Before(sent, k, k)
    BY <1>2, <1>3 DEF InOrder
  <2> QED BY <1>1, <2>1, NotBeforeItself DEF Distinct
<1> HIDE DEF k
<1>7. \A j \in Command : Contains(did', j) <=> Contains(did, j) \/ j = k
  BY <1>1, <1>2, ContainsAppend
<1>8. \A j \in Command : Contains(sent, j) => Of(j)' = Of(j)
  BY <1>2 DEF Of, Settled
<1>9. \A a \in Agent, j \in Command : InHand(a, j)' => InHand(a, j)
  BY <1>5 DEF InHand
<1>10. \A a \in Agent : \A i \in DOMAIN work[a] : work[a][i][1] \in Command
  <2> SUFFICES ASSUME NEW a \in Agent, NEW i \in DOMAIN work[a] PROVE work[a][i][1] \in Command
    OBVIOUS
  <2>1. work[a] \in Seq(Command \X Session)
    BY <1>1
  <2>2. work[a][i] \in Command \X Session
    BY <2>1
  <2> QED BY <2>2
<1>11. Located'
  <2>1. \A s \in Session, j \in Command : Contains(session'[s].outbound, j) =>
          /\ Contains(sent', j) /\ call'[j].on = s
          /\ ~Contains(did', j) /\ \A a \in Agent : ~InHand(a, j)'
    BY <1>2, <1>3, <1>7, <1>9 DEF Located
  <2>2. ASSUME NEW a \in Agent, NEW i \in DOMAIN work'[a]
        PROVE  (LET j == work[a][i][1] IN
                Contains(sent, j) /\ call[j].on = work[a][i][2] /\ Of(j) = a)'
    <3>1. PICK n \in DOMAIN work[a] : work'[a][i] = work[a][n]
      BY <1>5, <2>2
    <3>2. PICK j \in Command : j = work[a][n][1]
      BY <1>10
    <3>3. Contains(sent, j) /\ call[j].on = work[a][n][2] /\ Of(j) = a
      BY <3>2 DEF Located
    <3>4. Of(j)' = a
      BY <1>8, <3>3
    <3> QED BY <1>2, <3>1, <3>2, <3>3, <3>4 DEF Of
  <2>3. \A j \in Command : Contains(did', j) => Contains(sent', j)
    BY <1>2, <1>3, <1>7 DEF Located
  <2> QED BY <2>1, <2>2, <2>3 DEF Located
<1>12. Stranded'
  <2>1. ASSUME NEW j \in late
        PROVE  /\ Contains(sent', j) /\ session'[call'[j].on].revoked
               /\ ~Contains(did', j) /\ \A a \in Agent : ~InHand(a, j)'
    <3>1. /\ j \in Command /\ Contains(sent, j) /\ session[call[j].on].revoked
          /\ ~Contains(did, j) /\ \A a \in Agent : ~InHand(a, j)
      BY <1>1, <2>1 DEF Stranded
    <3>2. call[j].on \in Session /\ j # k
      BY <1>3, <3>1 DEF Settled
    <3> QED BY <1>2, <1>7, <1>9, <3>1, <3>2
  <2> QED BY <1>2, <2>1 DEF Stranded
<1>13. Distinct'
  BY <1>1, <1>2, <1>6, InjectiveAppend DEF Distinct
<1>14. InOrder'
  <2>1. ASSUME NEW j \in Command, Contains(did', j)
        PROVE  Of(j)' = Of(j) /\ (Contains(did, j) \/ j = k)
    BY <1>3, <1>7, <1>8, <2>1 DEF Located
  <2>2. ASSUME NEW i \in Command, NEW j \in Command, Before(did', i, j), SameAgent(i, j)'
        PROVE  Before(sent', i, j)
    <3>1. Before(did, i, j) \/ (Contains(did, i) /\ j = k)
      BY <1>1, <1>2, <2>2, BeforeAppend
    <3>2. Contains(did, i) /\ (Contains(did, j) \/ j = k)
      BY <1>1, <3>1 DEF Before, Contains
    <3>3. Of(i)' = Of(i) /\ Of(j)' = Of(j)
      BY <1>7, <2>1, <3>2
    <3>4. Of(i) = Of(j)
      BY <2>2, <3>3 DEF SameAgent, Of
    <3>5. CASE Before(did, i, j)
      BY <1>2, <3>4, <3>5 DEF InOrder, SameAgent, Of
    <3>6. CASE j = k
      <4>1. Before(sent, i, work[b][1][1])
        BY <1>2, <1>3, <3>2, <3>4, <3>6 DEF InOrder
      <4> QED BY <1>2, <3>6, <4>1 DEF k
    <3> QED BY <3>1, <3>5, <3>6
  <2>3. ASSUME NEW a \in Agent, NEW i \in DOMAIN work'[a], NEW n \in DOMAIN work'[a], i < n
        PROVE  Before(sent', work'[a][i][1], work'[a][n][1])
    <3>1. CASE a = b
      <4>1. /\ i \in Int /\ i + 1 \in DOMAIN work[a] /\ work'[a][i] = work[a][i + 1]
            /\ n \in Int /\ n + 1 \in DOMAIN work[a] /\ work'[a][n] = work[a][n + 1]
        BY <1>5, <2>3, <3>1
      <4>2. i + 1 < n + 1
        BY <2>3, <4>1
      <4> QED BY <1>2, <4>1, <4>2 DEF InOrder
    <3>2. CASE a # b
      BY <1>2, <1>5, <2>3, <3>2 DEF InOrder
    <3> QED BY <3>1, <3>2
  <2>4. ASSUME NEW a \in Agent, NEW j \in Command, Contains(did', j), Of(j)' = a,
               NEW n \in DOMAIN work'[a]
        PROVE  Before(sent', j, work'[a][n][1])
    <3>1. PICK m \in DOMAIN work[a] : work'[a][n] = work[a][m] /\ (a = b => 1 < m)
      BY <1>5, <2>4
    <3>2. CASE Contains(did, j)
      BY <1>2, <2>1, <2>4, <3>1, <3>2 DEF InOrder
    <3>3. CASE j = k
      <4>1. a = b
        BY <1>3, <1>8, <2>4, <3>3
      <4>2. Before(sent, work[b][1][1], work[b][m][1])
        BY <1>2, <3>1, <4>1 DEF InOrder
      <4> QED BY <1>2, <3>1, <3>3, <4>1, <4>2 DEF k
    <3> QED BY <2>1, <2>4, <3>2, <3>3
  <2>5. \A s \in Session : \A i, n \in DOMAIN session'[s].outbound :
          i < n => Before(sent', session'[s].outbound[i], session'[s].outbound[n])
    BY <1>2 DEF InOrder
  <2>6. ASSUME NEW a \in Agent, link'[a] # 0, NEW j \in Command,
               Contains(session'[link'[a]].outbound, j)
        PROVE  /\ \A i \in DOMAIN work'[a] : Before(sent', work'[a][i][1], j)
               /\ \A h \in Command : Contains(did', h) /\ Of(h)' = a => Before(sent', h, j)
    <3>0. link[a] \in Session /\ link[a] # 0
      BY <1>1, <1>2, <2>6
    <3>1. Contains(session[link[a]].outbound, j)
      BY <1>2, <2>6, <3>0
    <3>2. /\ \A i \in DOMAIN work[a] : Before(sent, work[a][i][1], j)
          /\ \A h \in Command : Contains(did, h) /\ Of(h) = a => Before(sent, h, j)
      BY <3>0, <3>1 DEF InOrder
    <3>3. \A i \in DOMAIN work'[a] : Before(sent', work'[a][i][1], j)
      BY <1>2, <1>5, <3>2
    <3>4. ASSUME NEW h \in Command, Contains(did', h), Of(h)' = a PROVE Before(sent', h, j)
      <4>1. CASE Contains(did, h)
        BY <1>2, <2>1, <3>2, <3>4, <4>1
      <4>2. CASE h = k
        <5>1. a = b
          BY <1>3, <1>8, <3>4, <4>2, SMTT(30)
        <5> QED BY <1>2, <3>2, <4>2, <5>1 DEF k
      <4> QED BY <2>1, <3>4, <4>1, <4>2
    <3> QED BY <3>3, <3>4
  <2> QED BY <2>2, <2>3, <2>4, <2>5, <2>6 DEF InOrder
<1> QED BY <1>11, <1>12, <1>13, <1>14

-----------------------------------------------------------------------------
(* The other parts *)

LEMMA OwnedStep ==
  ASSUME TypeOK, Owned, [Next]_vars
  PROVE  Owned'
<1> USE DEF Used
<1>0. session \in [Session -> SessionRecord] /\ link \in [Agent -> Session \cup {0}]
  BY Types
<1>1. CASE UNCHANGED <<session, link>>
  BY <1>1 DEF Owned
<1>2. ASSUME NEW s \in Session, Serve(s) PROVE Owned'
  <2>1. UNCHANGED link
    BY <1>2 DEF Serve, Authorize, Establish, Push, ReceiveStatus, ReceiveResult, Sever, Hangup,
                desktop
  <2>2. session[s].at # "unused"
    BY <1>2 DEF Serve, Authorize, Establish, Push, ReceiveStatus, ReceiveResult, Sever, Hangup,
                Serving, Open
  <2>3. \A r \in Session : r # s => session'[r] = session[r]
    BY <1>0, <1>2
       DEF Serve, Authorize, Establish, Push, ReceiveStatus, ReceiveResult, Sever, Hangup, Close,
           EndSession
  <2>4. session'[s].of = session[s].of /\ session'[s].at # "unused"
    BY <1>2, <2>2, ServeStill, PushEffect DEF Still
  <2> QED BY <1>0, <2>1, <2>2, <2>3, <2>4 DEF Owned
<1>3. CASE SweepApply
  <2>2. /\ \A s \in Session : session'[s].at = session[s].at /\ session'[s].of = session[s].of
        /\ UNCHANGED link
    BY <1>3, SweepStill DEF SweepApply, Still, desktop
  <2>3. \A s \in Session : session'[s] = session[s] \/ session[s].at = "open"
    BY <1>3 DEF SweepApply, Open
  <2> QED BY <1>0, <2>2, <2>3 DEF Owned
<1>4. ASSUME NEW k \in Command, NEW t \in Tenant, NEW to \in Agent \cup {Anyone},
             NEW s \in Candidates(t, to), Accepted(k, t, to, s)
      PROVE  Owned'
  <2>1. /\ s \in Session /\ session[s].at = "open" /\ UNCHANGED link
        /\ \A r \in Session : session'[r].at = session[r].at /\ session'[r].of = session[r].of
    BY <1>4, AcceptedEffect
  <2>2. \A r \in Session : r # s => session'[r] = session[r]
    BY <1>0, <1>4, <2>1 DEF Accepted
  <2> QED BY <1>0, <2>1, <2>2 DEF Owned
<1>5. ASSUME NEW a \in Agent, Connect(a) PROVE Owned'
  <2>1. PICK s \in Session :
           /\ ~Used(s) /\ session'[s].of = a /\ session'[s].at = "asked"
           /\ \A r \in Session : r # s => session'[r] = session[r]
           /\ \A b \in Agent : link'[b] = IF b = a THEN s ELSE link[b]
    BY <1>5, ConnectEffect
  <2> QED BY <1>0, <2>1 DEF Owned
<1>6. ASSUME NEW a \in Agent, Execute(a) PROVE Owned'
  <2>1. /\ UNCHANGED link
        /\ \A s \in Session : session'[s].at = session[s].at /\ session'[s].of = session[s].of
    BY <1>6, ExecuteEffect
  <2>2. \A s \in Session : session'[s] = session[s] \/ (s = link[a] /\ session[s].at # "unused")
    <3> DEFINE k == Head(work[a])[1]
               r == Head(work[a])[2]
    <3>1. session' = IF link[a] = r /\ session[r].at # "closed"
                     THEN [session EXCEPT ![r].inbound = Append(@, k)] ELSE session
      BY <1>6 DEF Execute
    <3> HIDE DEF k, r
    <3>2. session' = session \/ \A s \in Session : s # link[a] => session'[s] = session[s]
      BY <1>0, <3>1
    <3>3. session[link[a]].at # "unused" \/ link[a] = 0
      BY <1>0 DEF Owned
    <3>4. \A s \in Session : s # 0
      BY DEF Session
    <3> QED BY <3>2, <3>3, <3>4
  <2> QED BY <1>0, <2>1, <2>2 DEF Owned
<1>7. ASSUME NEW a \in Agent, Learn(a) \/ Drop(a) PROVE Owned'
  BY <1>7, LearnEffect DEF Owned
<1> QED BY <1>1, <1>2, <1>3, <1>4, <1>5, <1>6, <1>7, ZenonT(60)
        DEF Next, Monitor, SweepStart, SweepRead, SweepFails, Stop, Caller, Send, Refused, Return,
            TimeOut, Finish, Desktop, Toggle, gateway, desktop, vars

LEMMA GoneStep ==
  ASSUME TypeOK, Owned, GoneIsTold, [Next]_vars
  PROVE  GoneIsTold'
<1> DEFINE Told(k) == call[k].at = "waiting" /\ call[k].future = "pending" =>
                        call[k].on \in Session /\ session[call[k].on].at = "open"
<1>1. \A k \in Command : Told(k)
  BY DEF GoneIsTold, Awaited, Open
<1>2. SUFFICES \A k \in Command : Told(k)'
  BY DEF GoneIsTold, Awaited, Open
<1>3. CASE UNCHANGED <<session, call>>
  BY <1>1, <1>3
<1>4. ASSUME NEW s \in Session, Serve(s) PROVE \A k \in Command : Told(k)'
  <2>1. \A k \in Command : call'[k].at = call[k].at /\ call'[k].on = call[k].on
    BY <1>4, ServeCalls
  <2>2. \A k \in Command : call'[k].future = "pending" => call[k].future = "pending"
    BY <1>4, ServeCalls
  <2>3. CASE \A r \in Session : session[r].at = "open" => session'[r].at = "open"
    BY <1>1, <2>1, <2>2, <2>3
  <2>4. ASSUME NEW code \in {"unauthenticated", "other"}, Close(s, code)
        PROVE  \A k \in Command : Told(k)'
    <3>1. Moved(s, "closed")
      BY <2>4, EndEffect DEF Close
    <3>2. \A k \in Command : call'[k].future = "pending" => ~(call[k].at = "waiting" /\ call[k].on = s)
      BY <2>2, <2>4, FailEffect DEF Close
    <3> QED BY <1>1, <2>1, <2>2, <3>1, <3>2 DEF Moved
  <2>5. session \in [Session -> SessionRecord]
    BY Types
  <2>6. CASE Authorize(s)
    <3>1. session[s].at = "asked" /\ \A r \in Session : r # s => session'[r] = session[r]
      BY <2>5, <2>6 DEF Authorize, EndSession
    <3> QED BY <2>3, <3>1
  <2>7. CASE Establish(s)
    <3>1. session[s].at = "granted" /\ \A r \in Session : r # s => session'[r] = session[r]
      BY <2>5, <2>7 DEF Establish
    <3> QED BY <2>3, <3>1
  <2>8. CASE Push(s)
    BY <2>3, <2>8, PushEffect
  <2>9. CASE session' = [session EXCEPT ![s].confirmed = TRUE, ![s].inbound = Tail(@)]
             \/ session' = [session EXCEPT ![s].inbound = Tail(@)]
    <3> DEFINE p == [session[s] EXCEPT !.confirmed = TRUE]
    <3>1. session[s] \in SessionRecord /\ p \in SessionRecord /\ p.at = session[s].at
      <4>1. session[s] \in SessionRecord
        BY <2>5
      <4>2. p \in SessionRecord
        BY <4>1, SessionWith
      <4> QED BY <4>1, <4>2, SessionFields
    <3>2. PICK r \in {p, session[s]} :
            session' = [session EXCEPT ![s] = [r EXCEPT !.inbound = Tail(session[s].inbound)]]
      <4>1. CASE session' = [session EXCEPT ![s].confirmed = TRUE, ![s].inbound = Tail(@)]
        BY <2>5, <4>1 DEF SessionRecord
      <4>2. CASE session' = [session EXCEPT ![s].inbound = Tail(@)]
        BY <4>2
      <4> QED BY <2>9, <4>1, <4>2
    <3> HIDE DEF p
    <3>3. r \in SessionRecord /\ r.at = session[s].at
      BY <3>1, <3>2
    <3>4. [r EXCEPT !.inbound = Tail(session[s].inbound)].at = r.at
      BY <3>3, SessionFields
    <3>5. \A q \in Session : session'[q].at = session[q].at
      BY <2>5, <3>2, <3>3, <3>4
    <3> QED BY <2>3, <3>5
  <2> QED BY <1>4, <2>4, <2>6, <2>7, <2>8, <2>9 DEF Serve, ReceiveStatus, ReceiveResult, Sever, Hangup
<1>5. CASE SweepApply
  BY <1>1, <1>5, SweepStill DEF SweepApply
<1>6. ASSUME NEW k \in Command, NEW t \in Tenant, NEW to \in Agent \cup {Anyone},
             NEW s \in Candidates(t, to), Accepted(k, t, to, s)
      PROVE  \A j \in Command : Told(j)'
  <2>1. /\ s \in Session /\ session[s].at = "open"
        /\ \A j \in Command :
              /\ call'[j].future = call[j].future
              /\ call'[j].on = IF j = k THEN s ELSE call[j].on
              /\ call'[j].at = IF j = k THEN "waiting" ELSE call[j].at
        /\ \A r \in Session : session'[r].at = session[r].at
    BY <1>6, AcceptedEffect
  <2> QED BY <1>1, <2>1
<1>7. ASSUME NEW k \in Command, NEW t, NEW to, NEW why, Refused(k, t, to, why)
      PROVE  \A j \in Command : Told(j)'
  BY <1>1, <1>7, RefusedEffect
<1>8. ASSUME NEW k \in Command, NEW outcome, Finish(k, outcome)
      PROVE  \A j \in Command : Told(j)'
  BY <1>1, <1>8, FinishEffect
<1>9. ASSUME NEW a \in Agent, Connect(a) PROVE \A k \in Command : Told(k)'
  <2>1. PICK s \in Session :
           /\ ~Used(s) /\ \A r \in Session : r # s => session'[r] = session[r]
           /\ UNCHANGED call
    BY <1>9, ConnectEffect
  <2> QED BY <1>1, <2>1 DEF Used
<1>10. ASSUME NEW a \in Agent, Execute(a) PROVE \A k \in Command : Told(k)'
  <2>1. UNCHANGED call /\ \A s \in Session : session'[s].at = session[s].at
    BY <1>10, ExecuteEffect
  <2> QED BY <1>1, <2>1
<1> HIDE DEF Told
<1> QED BY <1>3, <1>4, <1>5, <1>6, <1>7, <1>8, <1>9, <1>10
        DEF Next, Monitor, SweepStart, SweepRead, SweepFails, Stop, Caller, Send, Return,
            TimeOut, Desktop, Learn, Drop, Toggle, gateway, vars

LEMMA HeardStep ==
  ASSUME TypeOK, Owned, Heard, [Next]_vars
  PROVE  Heard'
<1> USE GatewayAssumption
<1>1. CASE UNCHANGED <<session, call, did>>
  BY <1>1 DEF Heard
<1>2. ASSUME NEW s \in Session, Serve(s) PROVE Heard'
  <2>1. UNCHANGED did
    BY <1>2 DEF Serve, Authorize, Establish, Push, ReceiveStatus, ReceiveResult, Sever, Hangup,
                history
  <2>2. \A r \in Session, k \in Command :
          Contains(session'[r].inbound, k) => Contains(session[r].inbound, k)
    BY <1>2, ServeStill, PushEffect DEF Still
  <2>3. \A k \in Command : "result" \in {call'[k].future, call'[k].outcome} =>
          "result" \in {call[k].future, call[k].outcome} \/ Contains(session[s].inbound, k)
    BY <1>2, ServeCalls
  <2> QED BY <2>1, <2>2, <2>3 DEF Heard
<1>3. CASE SweepApply
  <2>1. Still /\ UNCHANGED <<call, did>>
    BY <1>3, SweepStill DEF SweepApply, history
  <2> QED BY <2>1 DEF Heard, Still
<1>4. ASSUME NEW k \in Command, NEW t \in Tenant, NEW to \in Agent \cup {Anyone},
             NEW s \in Candidates(t, to), Accepted(k, t, to, s)
      PROVE  Heard'
  <2>1. /\ \A j \in Command : call'[j].future = call[j].future /\ call'[j].outcome = call[j].outcome
        /\ \A r \in Session : session'[r].inbound = session[r].inbound
        /\ UNCHANGED did
    BY <1>4, AcceptedEffect
  <2> QED BY <2>1 DEF Heard
<1>5. ASSUME NEW k \in Command, NEW t, NEW to, NEW why \in {"unavailable", "ambiguous"},
             Refused(k, t, to, why)
      PROVE  Heard'
  <2>1. /\ \A j \in Command :
              /\ call'[j].future = call[j].future
              /\ call'[j].outcome = IF j = k THEN why ELSE call[j].outcome
         /\ UNCHANGED <<session, did>>
    BY <1>5, RefusedEffect
  <2> QED BY <2>1 DEF Heard
<1>6. ASSUME NEW k \in Command, Return(k) \/ TimeOut(k) PROVE Heard'
  <2>1. PICK outcome : Finish(k, outcome) /\ outcome \in {call[k].future, "timeout"}
    BY <1>6 DEF Return, TimeOut
  <2>2. /\ \A j \in Command :
              /\ call'[j].future = call[j].future
              /\ call'[j].outcome = IF j = k THEN outcome ELSE call[j].outcome
         /\ UNCHANGED <<session, did>>
    BY <2>1, FinishEffect
  <2> QED BY <2>1, <2>2 DEF Heard
<1>7. ASSUME NEW a \in Agent, Connect(a) PROVE Heard'
  <2>1. PICK s \in Session :
           /\ session'[s].inbound = <<"status">>
           /\ \A r \in Session : r # s => session'[r] = session[r]
           /\ UNCHANGED <<call, did>>
    BY <1>7, ConnectEffect
  <2>2. \A k \in Command : ~Contains(session'[s].inbound, k)
    BY <2>1 DEF Contains
  <2> QED BY <2>1, <2>2 DEF Heard
<1>8. ASSUME NEW a \in Agent, Execute(a) PROVE Heard'
  <2> DEFINE k == work[a][1][1]
  <2>1. /\ k \in Command /\ did' = Append(did, k) /\ UNCHANGED call
        /\ \A s \in Session :
             session'[s].inbound \in {session[s].inbound, Append(session[s].inbound, k)}
    BY <1>8, ExecuteEffect
  <2> HIDE DEF k
  <2>2. did \in Seq(Command)
    BY Types
  <2>3. \A j \in Command : Contains(did', j) <=> Contains(did, j) \/ j = k
    BY <2>1, <2>2, ContainsAppend
  <2>4. \A s \in Session : session[s].inbound \in Seq(Command \cup {"status"})
    BY SessionWith, Types
  <2>5. \A s \in Session, j \in Command :
          Contains(session'[s].inbound, j) => Contains(session[s].inbound, j) \/ j = k
    <3> SUFFICES ASSUME NEW s \in Session, NEW j \in Command, Contains(session'[s].inbound, j)
                 PROVE  Contains(session[s].inbound, j) \/ j = k
      OBVIOUS
    <3>1. session[s].inbound \in Seq(Command \cup {"status"}) /\ k \in Command \cup {"status"}
      BY <2>1, <2>4
    <3>2. Contains(Append(session[s].inbound, k), j) <=> Contains(session[s].inbound, j) \/ j = k
      BY <3>1, ContainsAppend
    <3> QED BY <2>1, <3>2
  <2> QED BY <2>1, <2>3, <2>5 DEF Heard
<1> QED BY <1>1, <1>2, <1>3, <1>4, <1>5, <1>6, <1>7, <1>8
        DEF Next, Monitor, SweepStart, SweepRead, SweepFails, Stop, Caller, Send, Desktop, Learn,
            Drop, Toggle, gateway, history, vars

LEMMA SettledStep ==
  ASSUME TypeOK, Owned, Settled, [Next]_vars
  PROVE  Settled'
<1>1. sent \in Seq(Command) /\ session \in [Session -> SessionRecord]
  BY Types
<1>2. \A s \in Session : Used(s) => Used(s)'
  <2>1. CASE Quiet
    BY <2>1 DEF Quiet
  <2>2. ASSUME NEW s \in Session, Push(s) PROVE \A r \in Session : Used(r)' = Used(r)
    BY <2>2, PushEffect DEF Used
  <2>3. ASSUME NEW a \in Agent, Execute(a) PROVE \A r \in Session : Used(r)' = Used(r)
    BY <2>3, ExecuteEffect DEF Used
  <2>4. ASSUME NEW k \in Command, NEW t \in Tenant, NEW to \in Agent \cup {Anyone},
               NEW s \in Candidates(t, to), Accepted(k, t, to, s)
        PROVE  \A r \in Session : Used(r)' = Used(r)
    BY <2>4, AcceptedEffect DEF Used
  <2> QED BY <2>1, <2>2, <2>3, <2>4, QuietStep DEF MovesCommand
<1>3. CASE UNCHANGED <<call, sent>>
  BY <1>2, <1>3 DEF Settled
<1>4. ASSUME NEW s \in Session, Serve(s) PROVE Settled'
  <2>1. UNCHANGED sent
    BY <1>4 DEF Serve, Authorize, Establish, Push, ReceiveStatus, ReceiveResult, Sever, Hangup,
                history
  <2>2. \A k \in Command : /\ call'[k].at = call[k].at /\ call'[k].on = call[k].on
                           /\ call'[k].outcome = call[k].outcome
    BY <1>4, ServeCalls
  <2> QED BY <1>2, <2>1, <2>2 DEF Settled
<1>5. ASSUME NEW k \in Command, NEW t \in Tenant, NEW to \in Agent \cup {Anyone},
             NEW s \in Candidates(t, to), call[k].at = "idle", Accepted(k, t, to, s)
      PROVE  Settled'
  <2>1. /\ s \in Session /\ session[s].at = "open"
        /\ \A j \in Command :
              /\ call'[j].outcome = call[j].outcome
              /\ call'[j].on = IF j = k THEN s ELSE call[j].on
              /\ call'[j].at = IF j = k THEN "waiting" ELSE call[j].at
        /\ sent' = Append(sent, k)
    BY <1>5, AcceptedEffect
  <2>2. \A j \in Command : Contains(sent', j) <=> Contains(sent, j) \/ j = k
    BY <1>1, <2>1, ContainsAppend
  <2>3. call[k].outcome = "none"
    BY <1>5 DEF Settled
  <2> QED BY <1>2, <2>1, <2>2, <2>3 DEF Settled, Used
<1>6. ASSUME NEW k \in Command, call[k].at = "idle", NEW t, NEW to, NEW why, Refused(k, t, to, why)
      PROVE  Settled'
  <2>1. /\ \A j \in Command :
              /\ call'[j].on = call[j].on
              /\ call'[j].at = IF j = k THEN "done" ELSE call[j].at
              /\ call'[j].outcome = IF j = k THEN why ELSE call[j].outcome
        /\ UNCHANGED sent
    BY <1>6, RefusedEffect
  <2>2. ~Contains(sent, k)
    BY <1>6 DEF Settled
  <2> QED BY <1>2, <2>1, <2>2 DEF Settled
<1>7. ASSUME NEW k \in Command, Return(k) \/ TimeOut(k) PROVE Settled'
  <2>1. PICK outcome : Finish(k, outcome) /\ outcome \in {call[k].future, "timeout"}
    BY <1>7 DEF Return, TimeOut
  <2>2. outcome \notin {"unavailable", "ambiguous"}
    BY <2>1, CallWith, Types, ZenonT(60)
  <2>3. /\ \A j \in Command :
              /\ call'[j].on = call[j].on
              /\ call'[j].at = IF j = k THEN "done" ELSE call[j].at
              /\ call'[j].outcome = IF j = k THEN outcome ELSE call[j].outcome
        /\ UNCHANGED sent
    BY <2>1, FinishEffect
  <2> QED BY <1>2, <2>2, <2>3 DEF Settled
<1>8. ASSUME NEW a \in Agent, Connect(a) \/ Execute(a) PROVE UNCHANGED <<call, sent>>
  BY <1>8 DEF Connect, Execute, history
<1> QED BY <1>3, <1>4, <1>5, <1>6, <1>7, <1>8
        DEF Next, Monitor, SweepStart, SweepRead, SweepFails, SweepApply, Stop, Caller, Send,
            Desktop, Learn, Drop, Toggle, gateway, history, vars

-----------------------------------------------------------------------------
(* The theorems *)

LEMMA GatewayInit == Init => GatewayInv
<1> SUFFICES ASSUME Init PROVE GatewayInv
  OBVIOUS
<1>1. TypeOK
  BY InitTyped
<1>2. /\ session = [s \in Session |-> Unused] /\ link = [a \in Agent |-> 0]
      /\ work = [a \in Agent |-> <<>>] /\ sent = <<>> /\ did = <<>> /\ late = {}
      /\ \A k \in Command : /\ call[k].at = "idle" /\ call[k].outcome = "none"
                            /\ call[k].future = "pending"
  BY DEF Init
<1>3. Owned /\ GoneIsTold
  BY <1>2 DEF Owned, Used, Unused, GoneIsTold, Awaited
<1>4. \A x : ~Contains(<<>>, x)
  BY DEF Contains
<1>5. Unused.inbound = <<>> /\ Unused.outbound = <<>>
  BY DEF Unused
<1>6. Heard /\ Settled
  BY <1>2, <1>4, <1>5 DEF Heard, Settled
<1>7. \A a \in Agent : DOMAIN work[a] = {} /\ work[a] = <<>>
  BY <1>2
<1>8. \A s \in Session : DOMAIN session[s].outbound = {} /\ session[s].outbound = <<>>
  BY <1>2, <1>5
<1>9. Located /\ Stranded /\ Distinct
  BY <1>2, <1>4, <1>7, <1>8 DEF Located, Stranded, Distinct, IsInjective
<1>10. InOrder
  <2>1. \A j, k : ~Before(<<>>, j, k)
    BY DEF Before
  <2>2. \A a \in Agent : link[a] = 0
    BY <1>2
  <2> QED BY <1>2, <1>4, <1>7, <1>8, <2>1, <2>2 DEF InOrder
<1> QED BY <1>1, <1>3, <1>6, <1>9, <1>10 DEF GatewayInv

LEMMA GatewayStep == GatewayInv /\ [Next]_vars => GatewayInv'
<1> SUFFICES ASSUME GatewayInv, [Next]_vars PROVE GatewayInv'
  OBVIOUS
<1>1. /\ TypeOK /\ Owned /\ GoneIsTold /\ Heard /\ Settled /\ Located /\ Stranded
      /\ Distinct /\ InOrder
  BY DEF GatewayInv
<1>2. TypeOK' /\ Owned' /\ GoneIsTold' /\ Heard' /\ Settled'
  BY <1>1, GatewayTypeStep, OwnedStep, GoneStep, HeardStep, SettledStep
<1>3. Located' /\ Stranded' /\ Distinct' /\ InOrder'
  <2>1. CASE ~MovesCommand
    <3>1. Quiet
      BY <1>1, <2>1, QuietStep
    <3>2. /\ work \in [Agent -> Seq(Command \X Session)] /\ late \subseteq Command
          /\ link' \in [Agent -> Session \cup {0}]
      BY <1>1, <1>2, Types DEF TypeOK
    <3> QED BY <1>1, <3>1, <3>2, QuietKeeps
  <2>2. ASSUME NEW s \in Session, Push(s) PROVE Located' /\ Stranded' /\ Distinct' /\ InOrder'
    BY <1>1, <2>2, PushKeeps
  <2>3. ASSUME NEW a \in Agent, Execute(a) PROVE Located' /\ Stranded' /\ Distinct' /\ InOrder'
    BY <1>1, <2>3, ExecuteKeeps
  <2>4. ASSUME NEW k \in Command, NEW t \in Tenant, NEW to \in Agent \cup {Anyone},
               NEW s \in Candidates(t, to), call[k].at = "idle", Accepted(k, t, to, s)
        PROVE  Located' /\ Stranded' /\ Distinct' /\ InOrder'
    BY <1>1, <2>4, AcceptedKeeps
  <2> QED BY <2>1, <2>2, <2>3, <2>4 DEF MovesCommand
<1> QED BY <1>2, <1>3 DEF GatewayInv

\* What is true of the gateway, its streams and the agents in every state.
THEOREM GatewayInvariant == Spec => []GatewayInv
<1>1. Init => GatewayInv
  BY GatewayInit
<1>2. GatewayInv /\ [Next]_vars => GatewayInv'
  BY GatewayStep
<1> QED BY <1>1, <1>2, PTL DEF Spec

\* Every variable of the gateway keeps its type.
THEOREM GatewayTypeCorrect == Spec => []TypeOK
<1>1. GatewayInv => TypeOK
  BY DEF GatewayInv
<1> QED BY <1>1, GatewayInvariant, PTL

\* The finally of Connect fails every future of the session that ends: nobody
\* waits on a session that is gone.
THEOREM GoneIsToldAlways == Spec => []GoneIsTold
<1>1. GatewayInv => GoneIsTold
  BY DEF GatewayInv
<1> QED BY <1>1, GatewayInvariant, PTL

\* Only what was run is answered with a result, and a call refused before it
\* was queued is never run.
THEOREM ToldIsDoneAlways == Spec => []ToldIsDone
<1>1. GatewayInv => ToldIsDone
  BY DEF GatewayInv, ToldIsDone, Heard, Settled, Located
<1> QED BY <1>1, GatewayInvariant, PTL

\* An agent runs what was accepted for it at most once and in the order of
\* acceptance, whatever streams it came on, and nothing that a revoked stream
\* accepted.
THEOREM RunsAsSentAlways == Spec => []RunsAsSent
<1>1. GatewayInv => RunsAsSent
  BY DEF GatewayInv, RunsAsSent, Distinct, InOrder, Stranded
<1> QED BY <1>1, GatewayInvariant, PTL
=============================================================================
