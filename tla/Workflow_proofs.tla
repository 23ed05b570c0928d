-------------------------- MODULE Workflow_proofs --------------------------
(***************************************************************************)
(* Theorems about Scheduler for any schedules, finite set of tickers,      *)
(* max_runs, faults and calls of users, and about WorkflowInstance for any *)
(* number of steps, runners and callers, and any bounds.                   *)
(*                                                                         *)
(* The scheduler. A claim is won on a row that is ACTIVE and due, and the  *)
(* row leaves ACTIVE with it. It comes back to ACTIVE under a live claim   *)
(* only when the lease ends (Leases) or a user re-arms the row. The first  *)
(* is what overrun remembers. The second moves a recurrent schedule to     *)
(* another instant, which takes it from the candidates of every ticker,    *)
(* so a claim of the instant that had passed still has one holder          *)
(* (OneInstant); a schedule no user has moved has one holder altogether,   *)
(* and the row keeps the count the holder has seen (OneClaim). That holder *)
(* records at most one instance at a time (Working), so the count is off   *)
(* by it and by the lost records alone (Counted).                          *)
(*                                                                         *)
(* The instance. InstanceShape gives every variable its type and every     *)
(* task that is inside an operation the step, the ticket or the writes it  *)
(* is there with. TerminalFinal follows from Finality, which needs the     *)
(* order in which the writes of one instance are committed. A run nothing  *)
(* disturbs is driven by one token - a task on its way, or a place where   *)
(* the instance waits for one - and that token stands right after the      *)
(* steps taken (Driven): InOrder. Disturbed, a step is taken again only by *)
(* a token of its own, and tokens are made by events that are counted: the *)
(* steps taken twice, the tokens that still can take them twice and the    *)
(* events not yet used add up to at most what the events allow (Budget):   *)
(* RepeatsBounded. And a run that gives up undoes the steps it took, last  *)
(* first, by what its unwinding task still has before it (Undoing):        *)
(* CompensatedOnFailure.                                                   *)
(***************************************************************************)
EXTENDS Scheduler, WorkflowInstance, FiniteSetTheorems, SequenceTheorems, TLAPS

\* Where a ticker is in its tick: it holds claims only after it has selected,
\* and starts and records them one by one.
Working ==
  \A t \in Ticker :
    /\ \A s \in begun[t] : s \in mine[t] /\ todo[t] = {}
    /\ \A s, r \in begun[t] : s = r
    /\ \A s \in mine[t] \cup todo[t] : at[t] = "claiming"

\* A schedule without a row is not worked on, and a user's call is remembered.
Rows ==
  \A s \in Schedule :
    /\ status[s] = "ABSENT" => (\A t \in Ticker : s \notin mine[t]) /\ call[s] = "none"
    /\ call[s] # "none" => s \in byHand

\* A claim whose lease is over has no ticker, or its ticker outlived it.
Leases == \A s \in stale, t \in Ticker : s \in mine[t] => s \in overrun

\* Nobody claims what was stopped in quiet.
Stopped ==
  \A s \in quiet : /\ status[s] \in {"PAUSED", "DISABLED"} /\ call[s] = "none"
                   /\ \A t \in Ticker : s \notin mine[t]

\* As long as no user moves it on, a claimed schedule has one holder, which
\* knows its count.
OneClaim ==
  \A s \in Schedule \ (byHand \cup overrun), t \in Ticker : s \in mine[t] =>
    /\ status[s] # "ACTIVE" /\ seen[t][s] = runs[s]
    /\ \A u \in Ticker : s \in mine[u] => u = t

\* And a claimed instant has one holder whatever users do.
OneInstant ==
  \A s \in Schedule \ overrun, t \in Ticker :
    (s \in once => s \notin byHand) /\ s \in mine[t] /\ s \in past[t] =>
      /\ status[s] # "ACTIVE"
      /\ \A u \in Ticker : s \in mine[u] /\ s \in past[u] => u = t

\* RunsAccounted, with at most one ticker about to record.
Counted ==
  \A s \in Schedule \ (byHand \cup overrun) :
    /\ \A t \in Ticker : s \in begun[t] => started[s] = runs[s] + lost[s] + 1
    /\ (\A t \in Ticker : s \notin begun[t]) => started[s] = runs[s] + lost[s]

SchedulerInv ==
  /\ TypeOK /\ Working /\ Rows /\ Leases /\ Stopped
  /\ OneClaim /\ OneInstant /\ Counted

-----------------------------------------------------------------------------
(* What the helpers of the actions do, element by element.                 *)

\* A claim that is dealt with leaves its ticker.
Dropped(t, s) ==
    /\ mine' \in [Ticker -> SUBSET Schedule]
    /\ begun' \in [Ticker -> SUBSET Schedule]
    /\ seen' \in [Ticker -> [Schedule -> Nat]]
    /\ \A u \in Ticker, r \in Schedule :
         /\ r \in mine'[u] <=> r \in mine[u] /\ (u # t \/ r # s)
         /\ r \in begun'[u] <=> r \in begun[u] /\ u # t
         /\ u # t \/ r # s => seen'[u][r] = seen[u][r]

\* Dropping a claim does that.
LEMMA DropEffect ==
  ASSUME TypeOK, NEW t \in Ticker, NEW s \in Schedule, Drop(t, s)
  PROVE Dropped(t, s)
<1>1. /\ mine' \in [Ticker -> SUBSET Schedule] /\ begun' \in [Ticker -> SUBSET Schedule]
      /\ mine'[t] = mine[t] \ {s} /\ begun'[t] = {}
      /\ \A u \in Ticker \ {t} : mine'[u] = mine[u] /\ begun'[u] = begun[u]
  BY DEF Drop, TypeOK
<1>2. /\ seen' \in [Ticker -> [Schedule -> Nat]]
      /\ \A u \in Ticker, r \in Schedule : u # t \/ r # s => seen'[u][r] = seen[u][r]
  <2>1. seen' = [seen EXCEPT ![t] = [seen[t] EXCEPT ![s] = 0]]
    BY DEF Drop
  <2>2. [seen[t] EXCEPT ![s] = 0] \in [Schedule -> Nat]
    BY DEF TypeOK
  <2>3. QED
    BY <2>1, <2>2 DEF TypeOK
<1>3. QED
  BY <1>1, <1>2 DEF Dropped

\* A ticker that gives up its tick keeps no claim.
Forgotten(t) ==
    /\ past' \in [Ticker -> SUBSET Schedule] /\ todo' \in [Ticker -> SUBSET Schedule]
    /\ mine' \in [Ticker -> SUBSET Schedule] /\ begun' \in [Ticker -> SUBSET Schedule]
    /\ seen' \in [Ticker -> [Schedule -> Nat]]
    /\ \A u \in Ticker, r \in Schedule :
         /\ r \in past'[u] <=> r \in past[u] /\ u # t
         /\ todo'[u] = IF u = t THEN {} ELSE todo[u]
         /\ r \in mine'[u] <=> r \in mine[u] /\ u # t
         /\ r \in begun'[u] <=> r \in begun[u] /\ u # t
         /\ u # t => seen'[u][r] = seen[u][r]

\* Forgetting a tick does that.
LEMMA ForgetEffect ==
  ASSUME TypeOK, NEW t \in Ticker, Forget(t)
  PROVE Forgotten(t)
BY DEF Forget, Forgotten, TypeOK

\* A claim is won with the row as it is, or the candidate is dropped.
Claimed(t, s) ==
    /\ s \in todo[t]
    /\ past' \in [Ticker -> SUBSET Schedule] /\ todo' \in [Ticker -> SUBSET Schedule]
    /\ mine' \in [Ticker -> SUBSET Schedule]
    /\ seen' \in [Ticker -> [Schedule -> Nat]]
    /\ status' \in [Schedule -> Status \cup {"ABSENT"}] /\ stale' \subseteq stale
    /\ \A u \in Ticker : todo'[u] \subseteq todo[u] /\ past'[u] \subseteq past[u]
    /\ \A u \in Ticker, r \in Schedule : u # t \/ r # s =>
         (r \in mine'[u] <=> r \in mine[u]) /\ seen'[u][r] = seen[u][r]
    /\ \A r \in Schedule \ {s} : status'[r] = status[r]
    /\ \/ /\ status[s] = "ACTIVE" /\ s \in past[t] /\ status'[s] = "TRIGGERING"
          /\ s \notin stale' /\ seen'[t][s] = runs[s]
       \/ /\ status'[s] = status[s] /\ (s \in mine'[t] <=> s \in mine[t])
          /\ seen'[t][s] = seen[t][s]
    /\ UNCHANGED <<once, runs, armed, due, at, looping, begun, users, started, lost,
                   overrun, quiet, byHand, bounds>>

\* Both outcomes of the compare-and-swap do that.
LEMMA ClaimEffect ==
  ASSUME TypeOK, NEW t \in Ticker, NEW s \in Schedule, Claim(t, s)
  PROVE Claimed(t, s)
<1> UNCHANGED <<once, runs, armed, due, at, looping, begun, users, started, lost,
                overrun, quiet, byHand, bounds>>
  BY DEF Claim
<1>1. /\ s \in todo[t]
      /\ todo' \in [Ticker -> SUBSET Schedule] /\ todo'[t] = todo[t] \ {s}
      /\ \A u \in Ticker \ {t} : todo'[u] = todo[u]
  BY DEF Claim, TypeOK
<1>2. CASE Wins(t, s)
  <2>1. /\ status' = [status EXCEPT ![s] = "TRIGGERING"] /\ stale' = stale \ {s}
        /\ mine' = [mine EXCEPT ![t] = mine[t] \cup {s}]
        /\ seen' = [seen EXCEPT ![t] = [seen[t] EXCEPT ![s] = runs[s]]]
        /\ past' = past
    BY <1>2 DEF Claim, Write
  <2>2. status[s] = "ACTIVE" /\ s \in past[t]
    BY <1>2 DEF Wins, Claimable
  <2>3. [seen[t] EXCEPT ![s] = runs[s]] \in [Schedule -> Nat]
    BY DEF TypeOK
  <2>4. /\ seen' \in [Ticker -> [Schedule -> Nat]] /\ seen'[t][s] = runs[s]
        /\ \A u \in Ticker, r \in Schedule : u # t \/ r # s => seen'[u][r] = seen[u][r]
    BY <2>1, <2>3 DEF TypeOK
  <2>5. /\ status' \in [Schedule -> Status \cup {"ABSENT"}] /\ status'[s] = "TRIGGERING"
        /\ stale' \subseteq stale /\ s \notin stale'
        /\ \A r \in Schedule \ {s} : status'[r] = status[r]
    BY <2>1 DEF TypeOK, Status
  <2>6. /\ mine' \in [Ticker -> SUBSET Schedule]
        /\ \A u \in Ticker, r \in Schedule : u # t \/ r # s =>
             (r \in mine'[u] <=> r \in mine[u])
    BY <2>1 DEF TypeOK
  <2>7. /\ past' \in [Ticker -> SUBSET Schedule]
        /\ \A u \in Ticker : todo'[u] \subseteq todo[u] /\ past'[u] \subseteq past[u]
    BY <1>1, <2>1 DEF TypeOK
  <2>8. QED
    BY <1>1, <2>2, <2>4, <2>5, <2>6, <2>7 DEF Claimed
<1>3. CASE ~Wins(t, s)
  <2>1. /\ status' = status /\ stale' = stale /\ mine' = mine /\ seen' = seen
        /\ past' = [past EXCEPT ![t] = past[t] \ {s}]
    BY <1>3 DEF Claim
  <2>2. /\ past' \in [Ticker -> SUBSET Schedule] /\ past'[t] \subseteq past[t]
        /\ \A u \in Ticker \ {t} : past'[u] = past[u]
    BY <2>1 DEF TypeOK
  <2>3. QED
    BY <1>1, <2>1, <2>2 DEF Claimed, TypeOK
<1>4. QED
  BY <1>2, <1>3

\* A new instant takes the schedule from all candidates, the old one from none.
Moved(s) ==
    /\ armed' \subseteq Schedule /\ due' \subseteq Schedule
    /\ past' \in [Ticker -> SUBSET Schedule]
    /\ \A u \in Ticker, r \in Schedule : r # s => (r \in past'[u] <=> r \in past[u])
    /\ \A u \in Ticker : s \in past'[u] => s \in past[u]
    /\ Rearm(s) /\ s \notin once => \A u \in Ticker : s \notin past'[u]

\* Re-arming a row and disarming it do that.
LEMMA RearmEffect ==
  ASSUME TypeOK, NEW s \in Schedule, Rearm(s) \/ Disarm(s)
  PROVE Moved(s)
<1>1. CASE UNCHANGED <<due, past>>
  BY <1>1 DEF Moved, Rearm, Disarm, TypeOK
<1>2. CASE /\ s \notin once /\ armed' = armed \cup {s} /\ due' = due \ {s}
           /\ past' = [t \in Ticker |-> past[t] \ {s}]
  BY <1>2 DEF Moved, TypeOK
<1>3. QED
  BY <1>1, <1>2 DEF Rearm, Disarm

\* A record writes the row whatever it says, and drops the claim.
Recorded(t, s) ==
    /\ s \in begun[t] /\ Dropped(t, s) /\ Moved(s)
    /\ runs' = [runs EXCEPT ![s] = seen[t][s] + 1]
    /\ status' \in [Schedule -> Status \cup {"ABSENT"}]
    /\ \/ status'[s] = "COMPLETED"
       \/ status'[s] = "ACTIVE" /\ s \notin once /\ \A u \in Ticker : s \notin past'[u]
    /\ \A r \in Schedule \ {s} : status'[r] = status[r]
    /\ stale' = stale \ {s}
    /\ UNCHANGED <<once, at, looping, todo, users, started, lost, overrun, quiet, byHand,
                   bounds>>

\* A record does that, for the last run as for any other.
LEMMA RecordEffect ==
  ASSUME TypeOK, NEW t \in Ticker, NEW s \in Schedule, Record(t, s)
  PROVE Recorded(t, s)
<1>1. /\ s \in begun[t] /\ Drop(t, s) /\ (Rearm(s) \/ Disarm(s))
      /\ runs' = [runs EXCEPT ![s] = seen[t][s] + 1]
      /\ \/ Write(s, "COMPLETED")
         \/ Write(s, "ACTIVE") /\ s \notin once /\ Rearm(s)
      /\ UNCHANGED <<once, at, looping, todo, users, started, lost, overrun, quiet,
         byHand,
                     bounds>>
  BY DEF Record, LastRun
<1>2. Dropped(t, s) /\ Moved(s)
  BY <1>1, DropEffect, RearmEffect
<1>3. Rearm(s) /\ s \notin once => \A u \in Ticker : s \notin past'[u]
  BY <1>2 DEF Moved
<1>4. \A st \in Status : Write(s, st) =>
        /\ status' \in [Schedule -> Status \cup {"ABSENT"}] /\ status'[s] = st
        /\ \A r \in Schedule \ {s} : status'[r] = status[r]
        /\ stale' = stale \ {s}
  BY DEF Write, TypeOK
<1>5. QED
  BY <1>1, <1>2, <1>3, <1>4 DEF Recorded, Status

\* A user's call writes back what it has read.
Called(s) ==
    /\ call[s] # "none" /\ call' = [call EXCEPT ![s] = "none"]
    /\ read' = [read EXCEPT ![s] = Nobody]
    /\ runs' \in [Schedule -> Nat] /\ (\A r \in Schedule \ {s} : runs'[r] = runs[r])
    /\ status' \in [Schedule -> Status \cup {"ABSENT"}] /\ status'[s] \in Status
    /\ \A r \in Schedule \ {s} : status'[r] = status[r]
    /\ stale' = stale \ {s}
    /\ Moved(s)
    /\ \/ s \in once
       \/ status'[s] # "ACTIVE"
       \/ \A u \in Ticker : s \notin past'[u]
    /\ UNCHANGED <<once, work, started, lost, overrun, quiet, byHand, bounds>>

\* A resume and the record of a trigger do that.
LEMMA CallEffect ==
  ASSUME TypeOK, NEW s \in Schedule, Resume(s) \/ TriggerRecord(s)
  PROVE Called(s)
<1>1. /\ call[s] # "none" /\ Return(s) /\ (Rearm(s) \/ Disarm(s))
      /\ UNCHANGED <<once, work, started, lost, overrun, quiet, byHand, bounds>>
  BY DEF Resume, TriggerRecord
<1>2. PICK n \in Nat : runs' = [runs EXCEPT ![s] = n]
  <2>1. read[s].runs \in Nat /\ read[s].runs + 1 \in Nat
    BY DEF TypeOK
  <2>2. QED
    BY <2>1 DEF Resume, TriggerRecord
<1>3. PICK st \in Status : Write(s, st) /\ (st = "ACTIVE" => Rearm(s))
  <2>1. read[s].status \in Status
    BY DEF TypeOK
  <2>2. QED
    BY <2>1 DEF Resume, TriggerRecord, Status
<1>4. Moved(s) /\ (Rearm(s) /\ s \notin once => \A u \in Ticker : s \notin past'[u])
  BY <1>1, RearmEffect DEF Moved
<1>5. /\ status' \in [Schedule -> Status \cup {"ABSENT"}] /\ status'[s] = st
      /\ \A r \in Schedule \ {s} : status'[r] = status[r]
      /\ stale' = stale \ {s}
  BY <1>3 DEF Write, TypeOK
<1>6. runs' \in [Schedule -> Nat] /\ (\A r \in Schedule \ {s} : runs'[r] = runs[r])
  BY <1>2 DEF TypeOK
<1>7. QED
  BY <1>1, <1>3, <1>4, <1>5, <1>6 DEF Called, Return

-----------------------------------------------------------------------------
(* Every part of the invariant is kept.                                    *)

\* Abbreviations, always expanded in this section.
USE DEF rows, work, ticks, users, history, bounds, Fault, Executing

\* Every step keeps the types.
LEMMA TypeStep ==
  ASSUME TypeOK, [Next]_vars
  PROVE TypeOK'
<1> USE SchedulerAssumption
<1>1. ASSUME NEW t \in Ticker, StartTick(t) PROVE TypeOK'
  BY <1>1 DEF TypeOK, Status, Nobody, StartTick, Abandoned, ResetTo
<1>2. ASSUME NEW t \in Ticker, Select(t) PROVE TypeOK'
  BY <1>2 DEF TypeOK, Status, Nobody, Select, Claimable
<1>3. ASSUME NEW t \in Ticker, EndTick(t) PROVE TypeOK'
  BY <1>3 DEF TypeOK, Status, Nobody, EndTick
<1>4. ASSUME NEW t \in Ticker, NEW s \in Schedule, Claim(t, s) PROVE TypeOK'
  <2>1. Claimed(t, s)
    BY <1>4, ClaimEffect
  <2>2. QED
    BY <1>4, <2>1 DEF TypeOK, Status, Nobody, Claimed
<1>5. ASSUME NEW t \in Ticker, NEW s \in Schedule, StartInstance(t, s) PROVE TypeOK'
  BY <1>5 DEF TypeOK, Status, Nobody, StartInstance
<1>6. ASSUME NEW t \in Ticker, NEW s \in Schedule, StartRaises(t, s) PROVE TypeOK'
  <2>1. Dropped(t, s)
    BY <1>6, DropEffect DEF StartRaises
  <2>2. QED
    BY <1>6, <2>1 DEF TypeOK, Status, Nobody, Dropped, StartRaises
<1>7. ASSUME NEW t \in Ticker, NEW s \in Schedule, RecordRaises(t, s) PROVE TypeOK'
  <2>1. Dropped(t, s)
    BY <1>7, DropEffect DEF RecordRaises
  <2>2. QED
    BY <1>7, <2>1 DEF TypeOK, Status, Nobody, Dropped, RecordRaises
<1>8. ASSUME NEW t \in Ticker, NEW s \in Schedule, Record(t, s) PROVE TypeOK'
  <2>1. Recorded(t, s)
    BY <1>8, RecordEffect
  <2>2. QED
    BY <1>8, <2>1 DEF TypeOK, Status, Nobody, Recorded, Dropped, Moved
<1>9. ASSUME NEW t \in Ticker, TickRaises(t) PROVE TypeOK'
  <2>1. Forgotten(t)
    BY <1>9, ForgetEffect DEF TickRaises
  <2>2. at' \in [Ticker -> {"off", "idle", "selecting", "claiming"}]
    BY <1>9 DEF TickRaises, TypeOK
  <2>3. faults' \in 0..MaxFaults /\ lost' \in [Schedule -> Nat] /\ looping' \subseteq Ticker
    BY <1>9 DEF TickRaises, TypeOK
  <2>4. QED
    BY <1>9, <2>1, <2>2, <2>3 DEF TypeOK, Forgotten, TickRaises
<1>10. ASSUME NEW t \in Ticker, Crash(t) PROVE TypeOK'
  <2>1. Forgotten(t)
    BY <1>10, ForgetEffect DEF Crash
  <2>2. at' \in [Ticker -> {"off", "idle", "selecting", "claiming"}]
    BY <1>10 DEF Crash, TypeOK
  <2>3. faults' \in 0..MaxFaults /\ lost' \in [Schedule -> Nat] /\ looping' \subseteq Ticker
    BY <1>10 DEF Crash, TypeOK
  <2>4. QED
    BY <1>10, <2>1, <2>2, <2>3 DEF TypeOK, Forgotten, Crash
<1>11. ASSUME NEW s \in Schedule, Create(s) PROVE TypeOK'
  <2>1. Moved(s)
    BY <1>11, RearmEffect DEF Create
  <2>2. QED
    BY <1>11, <2>1 DEF TypeOK, Status, Nobody, Moved, Create, Write
<1>12. ASSUME NEW s \in Schedule, InstantPasses(s) PROVE TypeOK'
  BY <1>12 DEF TypeOK, Status, Nobody, InstantPasses
<1>13. ASSUME NEW s \in Schedule, LeaseExpires(s) PROVE TypeOK'
  BY <1>13 DEF TypeOK, Status, Nobody, LeaseExpires, Held
<1>14. ASSUME NEW s \in Schedule, NEW st \in {"PAUSED", "DISABLED"}, Stop(s, st)
      PROVE TypeOK'
  BY <1>14 DEF TypeOK, Status, Nobody, Stop, Write, Held
<1>15. ASSUME NEW s \in Schedule, BeginResume(s) \/ BeginTrigger(s) PROVE TypeOK'
  <2>1. PICK next \in {"resuming", "triggering"} : ReadRow(s, next)
    BY <1>15 DEF BeginResume, BeginTrigger
  <2>2. calls' \in 0..MaxCalls
    BY <2>1 DEF ReadRow, TypeOK
  <2>3. call' \in [Schedule -> {"none", "resuming", "triggering", "started"}]
    BY <2>1 DEF ReadRow, TypeOK
  <2>4. [status |-> status[s], runs |-> runs[s]] \in [status : Status, runs : Nat]
    BY <2>1 DEF ReadRow, TypeOK
  <2>5. read' \in [Schedule -> [status : Status, runs : Nat]]
    BY <2>1, <2>4 DEF ReadRow, TypeOK
  <2>6. QED
    BY <2>1, <2>2, <2>3, <2>5 DEF ReadRow, TypeOK
<1>16. ASSUME NEW s \in Schedule, TriggerStart(s) PROVE TypeOK'
  BY <1>16 DEF TypeOK, Status, Nobody, TriggerStart
<1>17. ASSUME NEW s \in Schedule, CallFails(s) PROVE TypeOK'
  BY <1>17 DEF TypeOK, Status, Nobody, CallFails, Return
<1>18. ASSUME NEW s \in Schedule, Resume(s) \/ TriggerRecord(s) PROVE TypeOK'
  <2>1. Called(s)
    BY <1>18, CallEffect
  <2>2. QED
    BY <1>18, <2>1 DEF TypeOK, Status, Nobody, Called, Moved
<1>19. CASE UNCHANGED vars
  BY <1>19 DEF TypeOK, Status, Nobody, vars
<1>20. QED
  BY <1>1, <1>2, <1>3, <1>4, <1>5, <1>6, <1>7, <1>8, <1>9, <1>10, <1>11, <1>12, <1>13,
     <1>14, <1>15, <1>16, <1>17, <1>18, <1>19 DEF Next, TickStep, Fails, UserStep

\* A ticker claims, then starts and records one claim after the other.
LEMMA WorkingStep ==
  ASSUME TypeOK, Working, [Next]_vars
  PROVE Working'
<1> USE SchedulerAssumption
<1>1. ASSUME NEW t \in Ticker, StartTick(t) PROVE Working'
  BY <1>1 DEF TypeOK, Working, StartTick, Abandoned, ResetTo
<1>2. ASSUME NEW t \in Ticker, Select(t) PROVE Working'
  BY <1>2 DEF TypeOK, Working, Select, Claimable
<1>3. ASSUME NEW t \in Ticker, EndTick(t) PROVE Working'
  BY <1>3 DEF TypeOK, Working, EndTick
<1>4. ASSUME NEW t \in Ticker, NEW s \in Schedule, Claim(t, s) PROVE Working'
  <2>1. Claimed(t, s)
    BY <1>4, ClaimEffect
  <2>2. QED
    BY <1>4, <2>1 DEF TypeOK, Working, Claimed
<1>5. ASSUME NEW t \in Ticker, NEW s \in Schedule, StartInstance(t, s) PROVE Working'
  BY <1>5 DEF TypeOK, Working, StartInstance
<1>6. ASSUME NEW t \in Ticker, NEW s \in Schedule, StartRaises(t, s) PROVE Working'
  <2>1. Dropped(t, s)
    BY <1>6, DropEffect DEF StartRaises
  <2>2. QED
    BY <1>6, <2>1 DEF TypeOK, Working, Dropped, StartRaises
<1>7. ASSUME NEW t \in Ticker, NEW s \in Schedule, RecordRaises(t, s) PROVE Working'
  <2>1. Dropped(t, s)
    BY <1>7, DropEffect DEF RecordRaises
  <2>2. QED
    BY <1>7, <2>1 DEF TypeOK, Working, Dropped, RecordRaises
<1>8. ASSUME NEW t \in Ticker, NEW s \in Schedule, Record(t, s) PROVE Working'
  <2>1. Recorded(t, s)
    BY <1>8, RecordEffect
  <2>2. QED
    BY <1>8, <2>1 DEF TypeOK, Working, Recorded, Dropped, Moved
<1>9. ASSUME NEW t \in Ticker, TickRaises(t) PROVE Working'
  <2>1. Forgotten(t)
    BY <1>9, ForgetEffect DEF TickRaises
  <2>2. \A u \in Ticker \ {t} : at'[u] = at[u]
    BY <1>9 DEF TickRaises, TypeOK
  <2>3. QED
    BY <2>1, <2>2 DEF TypeOK, Working, Forgotten
<1>10. ASSUME NEW t \in Ticker, Crash(t) PROVE Working'
  <2>1. Forgotten(t)
    BY <1>10, ForgetEffect DEF Crash
  <2>2. \A u \in Ticker \ {t} : at'[u] = at[u]
    BY <1>10 DEF Crash, TypeOK
  <2>3. QED
    BY <2>1, <2>2 DEF TypeOK, Working, Forgotten
<1>11. ASSUME NEW s \in Schedule, Create(s) PROVE Working'
  <2>1. Moved(s)
    BY <1>11, RearmEffect DEF Create
  <2>2. QED
    BY <1>11, <2>1 DEF TypeOK, Working, Moved, Create, Write
<1>12. ASSUME NEW s \in Schedule, InstantPasses(s) PROVE Working'
  BY <1>12 DEF TypeOK, Working, InstantPasses
<1>13. ASSUME NEW s \in Schedule, LeaseExpires(s) PROVE Working'
  BY <1>13 DEF TypeOK, Working, LeaseExpires, Held
<1>14. ASSUME NEW s \in Schedule, NEW st \in {"PAUSED", "DISABLED"}, Stop(s, st)
      PROVE Working'
  BY <1>14 DEF TypeOK, Working, Stop, Write, Held
<1>15. ASSUME NEW s \in Schedule, BeginResume(s) \/ BeginTrigger(s) PROVE Working'
  BY <1>15 DEF TypeOK, Working, BeginResume, BeginTrigger, ReadRow
<1>16. ASSUME NEW s \in Schedule, TriggerStart(s) PROVE Working'
  BY <1>16 DEF TypeOK, Working, TriggerStart
<1>17. ASSUME NEW s \in Schedule, CallFails(s) PROVE Working'
  BY <1>17 DEF TypeOK, Working, CallFails, Return
<1>18. ASSUME NEW s \in Schedule, Resume(s) \/ TriggerRecord(s) PROVE Working'
  <2>1. Called(s)
    BY <1>18, CallEffect
  <2>2. QED
    BY <1>18, <2>1 DEF TypeOK, Working, Called, Moved
<1>19. CASE UNCHANGED vars
  BY <1>19 DEF TypeOK, Working, vars
<1>20. QED
  BY <1>1, <1>2, <1>3, <1>4, <1>5, <1>6, <1>7, <1>8, <1>9, <1>10, <1>11, <1>12, <1>13,
     <1>14, <1>15, <1>16, <1>17, <1>18, <1>19 DEF Next, TickStep, Fails, UserStep

\* No step works on a row that is not there.
LEMMA RowsStep ==
  ASSUME TypeOK, Working, Rows, [Next]_vars
  PROVE Rows'
<1> USE SchedulerAssumption
<1>1. ASSUME NEW t \in Ticker, StartTick(t) PROVE Rows'
  BY <1>1 DEF TypeOK, Working, Rows, Status, StartTick, Abandoned, ResetTo
<1>2. ASSUME NEW t \in Ticker, Select(t) PROVE Rows'
  BY <1>2 DEF TypeOK, Working, Rows, Status, Select, Claimable
<1>3. ASSUME NEW t \in Ticker, EndTick(t) PROVE Rows'
  BY <1>3 DEF TypeOK, Working, Rows, Status, EndTick
<1>4. ASSUME NEW t \in Ticker, NEW s \in Schedule, Claim(t, s) PROVE Rows'
  <2>1. Claimed(t, s)
    BY <1>4, ClaimEffect
  <2>2. QED
    BY <1>4, <2>1 DEF TypeOK, Working, Rows, Status, Claimed
<1>5. ASSUME NEW t \in Ticker, NEW s \in Schedule, StartInstance(t, s) PROVE Rows'
  BY <1>5 DEF TypeOK, Working, Rows, Status, StartInstance
<1>6. ASSUME NEW t \in Ticker, NEW s \in Schedule, StartRaises(t, s) PROVE Rows'
  <2>1. Dropped(t, s)
    BY <1>6, DropEffect DEF StartRaises
  <2>2. QED
    BY <1>6, <2>1 DEF TypeOK, Working, Rows, Status, Dropped, StartRaises
<1>7. ASSUME NEW t \in Ticker, NEW s \in Schedule, RecordRaises(t, s) PROVE Rows'
  <2>1. Dropped(t, s)
    BY <1>7, DropEffect DEF RecordRaises
  <2>2. QED
    BY <1>7, <2>1 DEF TypeOK, Working, Rows, Status, Dropped, RecordRaises
<1>8. ASSUME NEW t \in Ticker, NEW s \in Schedule, Record(t, s) PROVE Rows'
  <2>1. Recorded(t, s)
    BY <1>8, RecordEffect
  <2>2. QED
    BY <1>8, <2>1, SMTT(30) DEF TypeOK, Working, Rows, Status, Recorded, Dropped, Moved
<1>9. ASSUME NEW t \in Ticker, TickRaises(t) PROVE Rows'
  <2>1. Forgotten(t)
    BY <1>9, ForgetEffect DEF TickRaises
  <2>2. QED
    BY <1>9, <2>1 DEF TypeOK, Working, Rows, Status, Forgotten, TickRaises
<1>10. ASSUME NEW t \in Ticker, Crash(t) PROVE Rows'
  <2>1. Forgotten(t)
    BY <1>10, ForgetEffect DEF Crash
  <2>2. QED
    BY <1>10, <2>1 DEF TypeOK, Working, Rows, Status, Forgotten, Crash
<1>11. ASSUME NEW s \in Schedule, Create(s) PROVE Rows'
  <2>1. Moved(s)
    BY <1>11, RearmEffect DEF Create
  <2>2. QED
    BY <1>11, <2>1 DEF TypeOK, Working, Rows, Status, Moved, Create, Write
<1>12. ASSUME NEW s \in Schedule, InstantPasses(s) PROVE Rows'
  BY <1>12 DEF TypeOK, Working, Rows, Status, InstantPasses
<1>13. ASSUME NEW s \in Schedule, LeaseExpires(s) PROVE Rows'
  BY <1>13 DEF TypeOK, Working, Rows, Status, LeaseExpires, Held
<1>14. ASSUME NEW s \in Schedule, NEW st \in {"PAUSED", "DISABLED"}, Stop(s, st)
      PROVE Rows'
  BY <1>14 DEF TypeOK, Working, Rows, Status, Stop, Write, Held
<1>15. ASSUME NEW s \in Schedule, BeginResume(s) \/ BeginTrigger(s) PROVE Rows'
  BY <1>15 DEF TypeOK, Working, Rows, Status, BeginResume, BeginTrigger, ReadRow
<1>16. ASSUME NEW s \in Schedule, TriggerStart(s) PROVE Rows'
  BY <1>16 DEF TypeOK, Working, Rows, Status, TriggerStart
<1>17. ASSUME NEW s \in Schedule, CallFails(s) PROVE Rows'
  BY <1>17 DEF TypeOK, Working, Rows, Status, CallFails, Return
<1>18. ASSUME NEW s \in Schedule, Resume(s) \/ TriggerRecord(s) PROVE Rows'
  <2>1. Called(s)
    BY <1>18, CallEffect
  <2>2. QED
    BY <1>18, <2>1 DEF TypeOK, Working, Rows, Status, Called, Moved
<1>19. CASE UNCHANGED vars
  BY <1>19 DEF TypeOK, Working, Rows, Status, vars
<1>20. QED
  BY <1>1, <1>2, <1>3, <1>4, <1>5, <1>6, <1>7, <1>8, <1>9, <1>10, <1>11, <1>12, <1>13,
     <1>14, <1>15, <1>16, <1>17, <1>18, <1>19 DEF Next, TickStep, Fails, UserStep

\* A lease that ends under a live claim is remembered.
LEMMA LeasesStep ==
  ASSUME TypeOK, Leases, Working, [Next]_vars
  PROVE Leases'
<1> USE SchedulerAssumption
<1>1. ASSUME NEW t \in Ticker, StartTick(t) PROVE Leases'
  BY <1>1 DEF TypeOK, Working, Leases, StartTick, Abandoned, ResetTo
<1>2. ASSUME NEW t \in Ticker, Select(t) PROVE Leases'
  BY <1>2 DEF TypeOK, Working, Leases, Select, Claimable
<1>3. ASSUME NEW t \in Ticker, EndTick(t) PROVE Leases'
  BY <1>3 DEF TypeOK, Working, Leases, EndTick
<1>4. ASSUME NEW t \in Ticker, NEW s \in Schedule, Claim(t, s) PROVE Leases'
  <2>1. Claimed(t, s)
    BY <1>4, ClaimEffect
  <2>2. QED
    BY <1>4, <2>1 DEF TypeOK, Working, Leases, Claimed
<1>5. ASSUME NEW t \in Ticker, NEW s \in Schedule, StartInstance(t, s) PROVE Leases'
  BY <1>5 DEF TypeOK, Working, Leases, StartInstance
<1>6. ASSUME NEW t \in Ticker, NEW s \in Schedule, StartRaises(t, s) PROVE Leases'
  <2>1. Dropped(t, s)
    BY <1>6, DropEffect DEF StartRaises
  <2>2. QED
    BY <1>6, <2>1 DEF TypeOK, Working, Leases, Dropped, StartRaises
<1>7. ASSUME NEW t \in Ticker, NEW s \in Schedule, RecordRaises(t, s) PROVE Leases'
  <2>1. Dropped(t, s)
    BY <1>7, DropEffect DEF RecordRaises
  <2>2. QED
    BY <1>7, <2>1 DEF TypeOK, Working, Leases, Dropped, RecordRaises
<1>8. ASSUME NEW t \in Ticker, NEW s \in Schedule, Record(t, s) PROVE Leases'
  <2>1. Recorded(t, s)
    BY <1>8, RecordEffect
  <2>2. QED
    BY <1>8, <2>1 DEF TypeOK, Working, Leases, Recorded, Dropped, Moved
<1>9. ASSUME NEW t \in Ticker, TickRaises(t) PROVE Leases'
  <2>1. Forgotten(t)
    BY <1>9, ForgetEffect DEF TickRaises
  <2>2. QED
    BY <1>9, <2>1 DEF TypeOK, Working, Leases, Forgotten, TickRaises
<1>10. ASSUME NEW t \in Ticker, Crash(t) PROVE Leases'
  <2>1. Forgotten(t)
    BY <1>10, ForgetEffect DEF Crash
  <2>2. QED
    BY <1>10, <2>1 DEF TypeOK, Working, Leases, Forgotten, Crash
<1>11. ASSUME NEW s \in Schedule, Create(s) PROVE Leases'
  <2>1. Moved(s)
    BY <1>11, RearmEffect DEF Create
  <2>2. QED
    BY <1>11, <2>1 DEF TypeOK, Working, Leases, Moved, Create, Write
<1>12. ASSUME NEW s \in Schedule, InstantPasses(s) PROVE Leases'
  BY <1>12 DEF TypeOK, Working, Leases, InstantPasses
<1>13. ASSUME NEW s \in Schedule, LeaseExpires(s) PROVE Leases'
  BY <1>13 DEF TypeOK, Working, Leases, LeaseExpires, Held
<1>14. ASSUME NEW s \in Schedule, NEW st \in {"PAUSED", "DISABLED"}, Stop(s, st)
      PROVE Leases'
  BY <1>14 DEF TypeOK, Working, Leases, Stop, Write, Held
<1>15. ASSUME NEW s \in Schedule, BeginResume(s) \/ BeginTrigger(s) PROVE Leases'
  BY <1>15 DEF TypeOK, Working, Leases, BeginResume, BeginTrigger, ReadRow
<1>16. ASSUME NEW s \in Schedule, TriggerStart(s) PROVE Leases'
  BY <1>16 DEF TypeOK, Working, Leases, TriggerStart
<1>17. ASSUME NEW s \in Schedule, CallFails(s) PROVE Leases'
  BY <1>17 DEF TypeOK, Working, Leases, CallFails, Return
<1>18. ASSUME NEW s \in Schedule, Resume(s) \/ TriggerRecord(s) PROVE Leases'
  <2>1. Called(s)
    BY <1>18, CallEffect
  <2>2. QED
    BY <1>18, <2>1 DEF TypeOK, Working, Leases, Called, Moved
<1>19. CASE UNCHANGED vars
  BY <1>19 DEF TypeOK, Working, Leases, vars
<1>20. QED
  BY <1>1, <1>2, <1>3, <1>4, <1>5, <1>6, <1>7, <1>8, <1>9, <1>10, <1>11, <1>12, <1>13,
     <1>14, <1>15, <1>16, <1>17, <1>18, <1>19 DEF Next, TickStep, Fails, UserStep

\* A stopped schedule is no candidate, not even one selected before.
LEMMA StoppedStep ==
  ASSUME TypeOK, Rows, Working, Stopped, [Next]_vars
  PROVE Stopped'
<1> USE SchedulerAssumption
<1>1. ASSUME NEW t \in Ticker, StartTick(t) PROVE Stopped'
  BY <1>1 DEF TypeOK, Rows, Working, Stopped, StartTick, Abandoned, ResetTo
<1>2. ASSUME NEW t \in Ticker, Select(t) PROVE Stopped'
  BY <1>2 DEF TypeOK, Rows, Working, Stopped, Select, Claimable
<1>3. ASSUME NEW t \in Ticker, EndTick(t) PROVE Stopped'
  BY <1>3 DEF TypeOK, Rows, Working, Stopped, EndTick
<1>4. ASSUME NEW t \in Ticker, NEW s \in Schedule, Claim(t, s) PROVE Stopped'
  <2>1. Claimed(t, s)
    BY <1>4, ClaimEffect
  <2>2. ASSUME NEW r \in quiet
        PROVE  /\ status'[r] \in {"PAUSED", "DISABLED"} /\ call'[r] = "none"
               /\ \A u \in Ticker : r \notin mine'[u]
    <3>1. /\ r \in Schedule /\ status[r] \in {"PAUSED", "DISABLED"} /\ call[r] = "none"
          /\ \A u \in Ticker : r \notin mine[u]
      BY DEF TypeOK, Stopped
    <3>2. CASE r # s
      BY <2>1, <3>1, <3>2 DEF Claimed
    <3>3. CASE r = s
      BY <2>1, <3>1, <3>3 DEF Claimed
    <3>4. QED
      BY <3>2, <3>3
  <2>3. QED
    BY <2>1, <2>2 DEF Stopped, Claimed
<1>5. ASSUME NEW t \in Ticker, NEW s \in Schedule, StartInstance(t, s) PROVE Stopped'
  BY <1>5 DEF TypeOK, Rows, Working, Stopped, StartInstance
<1>6. ASSUME NEW t \in Ticker, NEW s \in Schedule, StartRaises(t, s) PROVE Stopped'
  <2>1. Dropped(t, s)
    BY <1>6, DropEffect DEF StartRaises
  <2>2. QED
    BY <1>6, <2>1 DEF TypeOK, Rows, Working, Stopped, Dropped, StartRaises
<1>7. ASSUME NEW t \in Ticker, NEW s \in Schedule, RecordRaises(t, s) PROVE Stopped'
  <2>1. Dropped(t, s)
    BY <1>7, DropEffect DEF RecordRaises
  <2>2. QED
    BY <1>7, <2>1 DEF TypeOK, Rows, Working, Stopped, Dropped, RecordRaises
<1>8. ASSUME NEW t \in Ticker, NEW s \in Schedule, Record(t, s) PROVE Stopped'
  <2>1. Recorded(t, s)
    BY <1>8, RecordEffect
  <2>2. s \notin quiet
    BY <2>1 DEF Recorded, Working, Stopped
  <2>3. ASSUME NEW r \in quiet
        PROVE  /\ status'[r] \in {"PAUSED", "DISABLED"} /\ call'[r] = "none"
               /\ \A u \in Ticker : r \notin mine'[u]
    <3>1. r \in Schedule \ {s} /\ status[r] \in {"PAUSED", "DISABLED"} /\ call[r] = "none"
      BY <2>2 DEF TypeOK, Stopped
    <3>2. \A u \in Ticker : r \notin mine[u]
      BY DEF Stopped
    <3>3. QED
      BY <2>1, <3>1, <3>2 DEF Recorded, Dropped
  <2>4. QED
    BY <2>1, <2>3 DEF Stopped, Recorded
<1>9. ASSUME NEW t \in Ticker, TickRaises(t) PROVE Stopped'
  <2>1. Forgotten(t)
    BY <1>9, ForgetEffect DEF TickRaises
  <2>2. QED
    BY <1>9, <2>1 DEF TypeOK, Rows, Working, Stopped, Forgotten, TickRaises
<1>10. ASSUME NEW t \in Ticker, Crash(t) PROVE Stopped'
  <2>1. Forgotten(t)
    BY <1>10, ForgetEffect DEF Crash
  <2>2. QED
    BY <1>10, <2>1 DEF TypeOK, Rows, Working, Stopped, Forgotten, Crash
<1>11. ASSUME NEW s \in Schedule, Create(s) PROVE Stopped'
  <2>1. Moved(s)
    BY <1>11, RearmEffect DEF Create
  <2>2. QED
    BY <1>11, <2>1 DEF TypeOK, Rows, Working, Stopped, Moved, Create, Write
<1>12. ASSUME NEW s \in Schedule, InstantPasses(s) PROVE Stopped'
  BY <1>12 DEF TypeOK, Rows, Working, Stopped, InstantPasses
<1>13. ASSUME NEW s \in Schedule, LeaseExpires(s) PROVE Stopped'
  BY <1>13 DEF TypeOK, Rows, Working, Stopped, LeaseExpires, Held
<1>14. ASSUME NEW s \in Schedule, NEW st \in {"PAUSED", "DISABLED"}, Stop(s, st)
      PROVE Stopped'
  BY <1>14 DEF TypeOK, Rows, Working, Stopped, Stop, Write, Held
<1>15. ASSUME NEW s \in Schedule, BeginResume(s) \/ BeginTrigger(s) PROVE Stopped'
  BY <1>15 DEF TypeOK, Rows, Working, Stopped, BeginResume, BeginTrigger, ReadRow
<1>16. ASSUME NEW s \in Schedule, TriggerStart(s) PROVE Stopped'
  BY <1>16 DEF TypeOK, Rows, Working, Stopped, TriggerStart
<1>17. ASSUME NEW s \in Schedule, CallFails(s) PROVE Stopped'
  BY <1>17 DEF TypeOK, Rows, Working, Stopped, CallFails, Return
<1>18. ASSUME NEW s \in Schedule, Resume(s) \/ TriggerRecord(s) PROVE Stopped'
  <2>1. Called(s)
    BY <1>18, CallEffect
  <2>2. QED
    BY <1>18, <2>1 DEF TypeOK, Rows, Working, Stopped, Called, Moved
<1>19. CASE UNCHANGED vars
  BY <1>19 DEF TypeOK, Rows, Working, Stopped, vars
<1>20. QED
  BY <1>1, <1>2, <1>3, <1>4, <1>5, <1>6, <1>7, <1>8, <1>9, <1>10, <1>11, <1>12, <1>13,
     <1>14, <1>15, <1>16, <1>17, <1>18, <1>19 DEF Next, TickStep, Fails, UserStep

\* Nobody wins a claim of a schedule that is held, and none of its counts is
\* written by another.
LEMMA OneClaimStep ==
  ASSUME TypeOK, Rows, Working, Leases, OneClaim, [Next]_vars
  PROVE OneClaim'
<1> USE SchedulerAssumption
<1>1. ASSUME NEW t \in Ticker, StartTick(t) PROVE OneClaim'
  BY <1>1 DEF TypeOK, Rows, Working, Leases, OneClaim, StartTick, Abandoned, ResetTo
<1>2. ASSUME NEW t \in Ticker, Select(t) PROVE OneClaim'
  BY <1>2 DEF TypeOK, Rows, Working, Leases, OneClaim, Select, Claimable
<1>3. ASSUME NEW t \in Ticker, EndTick(t) PROVE OneClaim'
  BY <1>3 DEF TypeOK, Rows, Working, Leases, OneClaim, EndTick
<1>4. ASSUME NEW t \in Ticker, NEW s \in Schedule, Claim(t, s) PROVE OneClaim'
  <2>1. Claimed(t, s)
    BY <1>4, ClaimEffect
  <2>2. QED
    BY <1>4, <2>1 DEF TypeOK, Rows, Working, Leases, OneClaim, Claimed
<1>5. ASSUME NEW t \in Ticker, NEW s \in Schedule, StartInstance(t, s) PROVE OneClaim'
  BY <1>5 DEF TypeOK, Rows, Working, Leases, OneClaim, StartInstance
<1>6. ASSUME NEW t \in Ticker, NEW s \in Schedule, StartRaises(t, s) PROVE OneClaim'
  <2>1. Dropped(t, s)
    BY <1>6, DropEffect DEF StartRaises
  <2>2. QED
    BY <1>6, <2>1 DEF TypeOK, Rows, Working, Leases, OneClaim, Dropped, StartRaises
<1>7. ASSUME NEW t \in Ticker, NEW s \in Schedule, RecordRaises(t, s) PROVE OneClaim'
  <2>1. Dropped(t, s)
    BY <1>7, DropEffect DEF RecordRaises
  <2>2. QED
    BY <1>7, <2>1 DEF TypeOK, Rows, Working, Leases, OneClaim, Dropped, RecordRaises
<1>8. ASSUME NEW t \in Ticker, NEW s \in Schedule, Record(t, s) PROVE OneClaim'
  <2>1. Recorded(t, s)
    BY <1>8, RecordEffect
  <2>2. QED
    BY <1>8, <2>1 DEF TypeOK, Rows, Working, Leases, OneClaim, Recorded, Dropped, Moved
<1>9. ASSUME NEW t \in Ticker, TickRaises(t) PROVE OneClaim'
  <2>1. Forgotten(t)
    BY <1>9, ForgetEffect DEF TickRaises
  <2>2. QED
    BY <1>9, <2>1 DEF TypeOK, Rows, Working, Leases, OneClaim, Forgotten, TickRaises
<1>10. ASSUME NEW t \in Ticker, Crash(t) PROVE OneClaim'
  <2>1. Forgotten(t)
    BY <1>10, ForgetEffect DEF Crash
  <2>2. QED
    BY <1>10, <2>1 DEF TypeOK, Rows, Working, Leases, OneClaim, Forgotten, Crash
<1>11. ASSUME NEW s \in Schedule, Create(s) PROVE OneClaim'
  <2>1. Moved(s)
    BY <1>11, RearmEffect DEF Create
  <2>2. QED
    BY <1>11, <2>1 DEF TypeOK, Rows, Working, Leases, OneClaim, Moved, Create, Write
<1>12. ASSUME NEW s \in Schedule, InstantPasses(s) PROVE OneClaim'
  BY <1>12 DEF TypeOK, Rows, Working, Leases, OneClaim, InstantPasses
<1>13. ASSUME NEW s \in Schedule, LeaseExpires(s) PROVE OneClaim'
  BY <1>13 DEF TypeOK, Rows, Working, Leases, OneClaim, LeaseExpires, Held
<1>14. ASSUME NEW s \in Schedule, NEW st \in {"PAUSED", "DISABLED"}, Stop(s, st)
      PROVE OneClaim'
  BY <1>14 DEF TypeOK, Rows, Working, Leases, OneClaim, Stop, Write, Held
<1>15. ASSUME NEW s \in Schedule, BeginResume(s) \/ BeginTrigger(s) PROVE OneClaim'
  BY <1>15 DEF TypeOK, Rows, Working, Leases, OneClaim, BeginResume, BeginTrigger, ReadRow
<1>16. ASSUME NEW s \in Schedule, TriggerStart(s) PROVE OneClaim'
  BY <1>16 DEF TypeOK, Rows, Working, Leases, OneClaim, TriggerStart
<1>17. ASSUME NEW s \in Schedule, CallFails(s) PROVE OneClaim'
  BY <1>17 DEF TypeOK, Rows, Working, Leases, OneClaim, CallFails, Return
<1>18. ASSUME NEW s \in Schedule, Resume(s) \/ TriggerRecord(s) PROVE OneClaim'
  <2>1. Called(s)
    BY <1>18, CallEffect
  <2>2. QED
    BY <1>18, <2>1 DEF TypeOK, Rows, Working, Leases, OneClaim, Called, Moved
<1>19. CASE UNCHANGED vars
  BY <1>19 DEF TypeOK, Rows, Working, Leases, OneClaim, vars
<1>20. QED
  BY <1>1, <1>2, <1>3, <1>4, <1>5, <1>6, <1>7, <1>8, <1>9, <1>10, <1>11, <1>12, <1>13,
     <1>14, <1>15, <1>16, <1>17, <1>18, <1>19 DEF Next, TickStep, Fails, UserStep

\* Nobody wins a claim of an instant that is held.
LEMMA OneInstantStep ==
  ASSUME TypeOK, Rows, Working, Leases, OneInstant, [Next]_vars
  PROVE OneInstant'
<1> USE SchedulerAssumption
<1>1. ASSUME NEW t \in Ticker, StartTick(t) PROVE OneInstant'
  BY <1>1 DEF TypeOK, Rows, Working, Leases, OneInstant, StartTick, Abandoned, ResetTo
<1>2. ASSUME NEW t \in Ticker, Select(t) PROVE OneInstant'
  BY <1>2 DEF TypeOK, Rows, Working, Leases, OneInstant, Select, Claimable
<1>3. ASSUME NEW t \in Ticker, EndTick(t) PROVE OneInstant'
  BY <1>3 DEF TypeOK, Rows, Working, Leases, OneInstant, EndTick
<1>4. ASSUME NEW t \in Ticker, NEW s \in Schedule, Claim(t, s) PROVE OneInstant'
  <2>1. Claimed(t, s)
    BY <1>4, ClaimEffect
  <2>2. ASSUME NEW r \in Schedule \ overrun', NEW u \in Ticker, NEW v \in Ticker,
               (r \in once => r \notin byHand)', (r \in mine[u] /\ r \in past[u])'
        PROVE  status'[r] # "ACTIVE" /\ (r \in mine'[v] /\ r \in past'[v] => v = u)
    <3>1. CASE r # s
      BY <2>1, <2>2, <3>1 DEF OneInstant, Claimed
    <3>2. CASE r = s
      BY <2>1, <2>2, <3>2 DEF OneInstant, Claimed
    <3>3. QED
      BY <3>1, <3>2
  <2>3. QED
    BY <2>2 DEF OneInstant
<1>5. ASSUME NEW t \in Ticker, NEW s \in Schedule, StartInstance(t, s) PROVE OneInstant'
  BY <1>5 DEF TypeOK, Rows, Working, Leases, OneInstant, StartInstance
<1>6. ASSUME NEW t \in Ticker, NEW s \in Schedule, StartRaises(t, s) PROVE OneInstant'
  <2>1. Dropped(t, s)
    BY <1>6, DropEffect DEF StartRaises
  <2>2. QED
    BY <1>6, <2>1 DEF TypeOK, Rows, Working, Leases, OneInstant, Dropped, StartRaises
<1>7. ASSUME NEW t \in Ticker, NEW s \in Schedule, RecordRaises(t, s) PROVE OneInstant'
  <2>1. Dropped(t, s)
    BY <1>7, DropEffect DEF RecordRaises
  <2>2. QED
    BY <1>7, <2>1 DEF TypeOK, Rows, Working, Leases, OneInstant, Dropped, RecordRaises
<1>8. ASSUME NEW t \in Ticker, NEW s \in Schedule, Record(t, s) PROVE OneInstant'
  <2>1. Recorded(t, s)
    BY <1>8, RecordEffect
  <2>2. QED
    BY <1>8, <2>1 DEF TypeOK, Rows, Working, Leases, OneInstant, Recorded, Dropped, Moved
<1>9. ASSUME NEW t \in Ticker, TickRaises(t) PROVE OneInstant'
  <2>1. Forgotten(t)
    BY <1>9, ForgetEffect DEF TickRaises
  <2>2. QED
    BY <1>9, <2>1 DEF TypeOK, Rows, Working, Leases, OneInstant, Forgotten, TickRaises
<1>10. ASSUME NEW t \in Ticker, Crash(t) PROVE OneInstant'
  <2>1. Forgotten(t)
    BY <1>10, ForgetEffect DEF Crash
  <2>2. QED
    BY <1>10, <2>1 DEF TypeOK, Rows, Working, Leases, OneInstant, Forgotten, Crash
<1>11. ASSUME NEW s \in Schedule, Create(s) PROVE OneInstant'
  <2>1. Moved(s)
    BY <1>11, RearmEffect DEF Create
  <2>2. QED
    BY <1>11, <2>1 DEF TypeOK, Rows, Working, Leases, OneInstant, Moved, Create, Write
<1>12. ASSUME NEW s \in Schedule, InstantPasses(s) PROVE OneInstant'
  BY <1>12 DEF TypeOK, Rows, Working, Leases, OneInstant, InstantPasses
<1>13. ASSUME NEW s \in Schedule, LeaseExpires(s) PROVE OneInstant'
  BY <1>13 DEF TypeOK, Rows, Working, Leases, OneInstant, LeaseExpires, Held
<1>14. ASSUME NEW s \in Schedule, NEW st \in {"PAUSED", "DISABLED"}, Stop(s, st)
      PROVE OneInstant'
  BY <1>14 DEF TypeOK, Rows, Working, Leases, OneInstant, Stop, Write, Held
<1>15. ASSUME NEW s \in Schedule, BeginResume(s) \/ BeginTrigger(s) PROVE OneInstant'
  BY <1>15 DEF TypeOK, Rows, Working, Leases, OneInstant, BeginResume, BeginTrigger,
     ReadRow
<1>16. ASSUME NEW s \in Schedule, TriggerStart(s) PROVE OneInstant'
  BY <1>16 DEF TypeOK, Rows, Working, Leases, OneInstant, TriggerStart
<1>17. ASSUME NEW s \in Schedule, CallFails(s) PROVE OneInstant'
  BY <1>17 DEF TypeOK, Rows, Working, Leases, OneInstant, CallFails, Return
<1>18. ASSUME NEW s \in Schedule, Resume(s) \/ TriggerRecord(s) PROVE OneInstant'
  <2>1. Called(s)
    BY <1>18, CallEffect
  <2>2. QED
    BY <1>18, <2>1 DEF TypeOK, Rows, Working, Leases, OneInstant, Called, Moved
<1>19. CASE UNCHANGED vars
  BY <1>19 DEF TypeOK, Rows, Working, Leases, OneInstant, vars
<1>20. QED
  BY <1>1, <1>2, <1>3, <1>4, <1>5, <1>6, <1>7, <1>8, <1>9, <1>10, <1>11, <1>12, <1>13,
     <1>14, <1>15, <1>16, <1>17, <1>18, <1>19 DEF Next, TickStep, Fails, UserStep

\* A start, its record and its loss change the count together.
LEMMA CountedStep ==
  ASSUME TypeOK, Rows, Working, OneClaim, Counted, [Next]_vars
  PROVE Counted'
<1> USE SchedulerAssumption
<1>1. ASSUME NEW t \in Ticker, StartTick(t) PROVE Counted'
  BY <1>1 DEF TypeOK, Rows, Working, OneClaim, Counted, StartTick, Abandoned, ResetTo
<1>2. ASSUME NEW t \in Ticker, Select(t) PROVE Counted'
  BY <1>2 DEF TypeOK, Rows, Working, OneClaim, Counted, Select, Claimable
<1>3. ASSUME NEW t \in Ticker, EndTick(t) PROVE Counted'
  BY <1>3 DEF TypeOK, Rows, Working, OneClaim, Counted, EndTick
<1>4. ASSUME NEW t \in Ticker, NEW s \in Schedule, Claim(t, s) PROVE Counted'
  <2>1. Claimed(t, s)
    BY <1>4, ClaimEffect
  <2>2. QED
    BY <1>4, <2>1 DEF TypeOK, Rows, Working, OneClaim, Counted, Claimed
<1>5. ASSUME NEW t \in Ticker, NEW s \in Schedule, StartInstance(t, s) PROVE Counted'
  BY <1>5 DEF TypeOK, Rows, Working, OneClaim, Counted, StartInstance
<1>6. ASSUME NEW t \in Ticker, NEW s \in Schedule, StartRaises(t, s) PROVE Counted'
  <2>1. Dropped(t, s)
    BY <1>6, DropEffect DEF StartRaises
  <2>2. QED
    BY <1>6, <2>1 DEF TypeOK, Rows, Working, OneClaim, Counted, Dropped, StartRaises
<1>7. ASSUME NEW t \in Ticker, NEW s \in Schedule, RecordRaises(t, s) PROVE Counted'
  <2>1. Dropped(t, s) /\ s \in begun[t]
    BY <1>7, DropEffect DEF RecordRaises
  <2>2. lost'[s] = lost[s] + 1 /\ \A r \in Schedule \ {s} : lost'[r] = lost[r]
    BY <1>7 DEF RecordRaises, TypeOK
  <2>3. UNCHANGED <<runs, started, byHand, overrun>>
    BY <1>7 DEF RecordRaises
  <2>4. \A r \in Schedule \ {s} : r \notin begun[t]
    BY <2>1 DEF Working
  <2>5. s \notin byHand \cup overrun =>
          (\A u \in Ticker : s \notin begun'[u]) /\ started[s] = runs[s] + lost[s] + 1
    BY <2>1 DEF OneClaim, Working, Counted, Dropped
  <2>6. QED
    BY <2>1, <2>2, <2>3, <2>4, <2>5 DEF TypeOK, Counted, Dropped
<1>8. ASSUME NEW t \in Ticker, NEW s \in Schedule, Record(t, s) PROVE Counted'
  <2>1. Recorded(t, s)
    BY <1>8, RecordEffect
  <2>2. QED
    BY <1>8, <2>1 DEF TypeOK, Rows, Working, OneClaim, Counted, Recorded, Dropped, Moved
<1>9. ASSUME NEW t \in Ticker, TickRaises(t) PROVE Counted'
  <2>1. Forgotten(t)
    BY <1>9, ForgetEffect DEF TickRaises
  <2>2. UNCHANGED <<runs, started, lost, byHand, overrun>>
    BY <1>9 DEF TickRaises
  <2>3. \A r \in Schedule : r \notin begun[t]
    BY <1>9 DEF TickRaises, Working, TypeOK
  <2>4. QED
    BY <2>1, <2>2, <2>3 DEF Counted, Forgotten
<1>10. ASSUME NEW t \in Ticker, Crash(t) PROVE Counted'
  <2>1. Forgotten(t)
    BY <1>10, ForgetEffect DEF Crash
  <2>2. \A r \in Schedule : lost'[r] = IF r \in begun[t] THEN lost[r] + 1 ELSE lost[r]
    BY <1>10 DEF Crash
  <2>3. UNCHANGED <<runs, started, byHand, overrun>>
    BY <1>10 DEF Crash
  <2>4. \A r \in Schedule \ (byHand \cup overrun) : r \in begun[t] =>
          (\A u \in Ticker : r \notin begun'[u]) /\ started[r] = runs[r] + lost[r] + 1
    BY <2>1 DEF OneClaim, Working, Counted, Forgotten
  <2>5. QED
    BY <2>1, <2>2, <2>3, <2>4, SMTT(30) DEF TypeOK, Counted, Forgotten
<1>11. ASSUME NEW s \in Schedule, Create(s) PROVE Counted'
  <2>1. Moved(s)
    BY <1>11, RearmEffect DEF Create
  <2>2. QED
    BY <1>11, <2>1 DEF TypeOK, Rows, Working, OneClaim, Counted, Moved, Create, Write
<1>12. ASSUME NEW s \in Schedule, InstantPasses(s) PROVE Counted'
  BY <1>12 DEF TypeOK, Rows, Working, OneClaim, Counted, InstantPasses
<1>13. ASSUME NEW s \in Schedule, LeaseExpires(s) PROVE Counted'
  BY <1>13 DEF TypeOK, Rows, Working, OneClaim, Counted, LeaseExpires, Held
<1>14. ASSUME NEW s \in Schedule, NEW st \in {"PAUSED", "DISABLED"}, Stop(s, st)
      PROVE Counted'
  BY <1>14 DEF TypeOK, Rows, Working, OneClaim, Counted, Stop, Write, Held
<1>15. ASSUME NEW s \in Schedule, BeginResume(s) \/ BeginTrigger(s) PROVE Counted'
  BY <1>15 DEF TypeOK, Rows, Working, OneClaim, Counted, BeginResume, BeginTrigger,
     ReadRow
<1>16. ASSUME NEW s \in Schedule, TriggerStart(s) PROVE Counted'
  BY <1>16 DEF TypeOK, Rows, Working, OneClaim, Counted, TriggerStart
<1>17. ASSUME NEW s \in Schedule, CallFails(s) PROVE Counted'
  BY <1>17 DEF TypeOK, Rows, Working, OneClaim, Counted, CallFails, Return
<1>18. ASSUME NEW s \in Schedule, Resume(s) \/ TriggerRecord(s) PROVE Counted'
  <2>1. Called(s)
    BY <1>18, CallEffect
  <2>2. s \in byHand
    BY <2>1 DEF Called, Rows
  <2>3. QED
    BY <2>1, <2>2 DEF Counted, Called
<1>19. CASE UNCHANGED vars
  BY <1>19 DEF TypeOK, Rows, Working, OneClaim, Counted, vars
<1>20. QED
  BY <1>1, <1>2, <1>3, <1>4, <1>5, <1>6, <1>7, <1>8, <1>9, <1>10, <1>11, <1>12, <1>13,
     <1>14, <1>15, <1>16, <1>17, <1>18, <1>19 DEF Next, TickStep, Fails, UserStep

HIDE DEF rows, work, ticks, users, history, bounds, Fault, Executing
-----------------------------------------------------------------------------
(* The theorems.                                                           *)

\* The invariant holds at the start,
LEMMA InitInv == Init => SchedulerInv
<1>1. Init => TypeOK
  BY SchedulerAssumption DEF Init, TypeOK, Nobody, Status
<1>2. Init => /\ Working /\ Rows /\ Leases /\ Stopped
              /\ OneClaim /\ OneInstant /\ Counted
  BY DEF Init, Working, Rows, Leases, Stopped, OneClaim, OneInstant, Counted
<1>3. QED
  BY <1>1, <1>2 DEF SchedulerInv

\* and every step keeps it.
LEMMA StepInv == SchedulerInv /\ [Next]_vars => SchedulerInv'
BY TypeStep, WorkingStep, RowsStep, LeasesStep, StoppedStep, OneClaimStep, OneInstantStep,
   CountedStep
DEF SchedulerInv

\* The invariant.
THEOREM SchedulerInvariant == Spec => []SchedulerInv
BY InitInv, StepInv, PTL DEF Spec

\* Every row, ticker and call keeps its type.
THEOREM SchedulerTypeCorrect == Spec => []TypeOK
<1>1. SchedulerInv => TypeOK
  BY DEF SchedulerInv
<1>2. QED
  BY <1>1, SchedulerInvariant, PTL

\* A set with no two elements is empty or a singleton.
LEMMA AtMostOne ==
  ASSUME NEW S, \A x, y \in S : x = y
  PROVE  /\ Cardinality(S) \in {0, 1}
         /\ S # {} => Cardinality(S) = 1
<1>1. CASE S = {}
  BY <1>1, FS_EmptySet
<1>2. CASE S # {}
  <2>1. PICK x : x \in S
    BY <1>2
  <2>2. S = {x}
    BY <2>1
  <2>3. Cardinality({x}) = 1
    BY FS_Singleton
  <2>4. QED
    BY <1>2, <2>2, <2>3
<1>3. QED
  BY <1>1, <1>2

\* claim_due_schedules gives a due instant to one tick at a time: no two live
\* tickers hold a claim of it, whatever users stop, resume and trigger.
THEOREM OneHolderAlways == Spec => []OneHolder
<1>1. ASSUME SchedulerInv, NEW s \in Schedule \ overrun, s \in once => s \notin byHand
      PROVE  Cardinality({t \in Held(s) : s \in past[t]}) <= 1
  <2> DEFINE H == {t \in Held(s) : s \in past[t]}
  <2>1. \A t, u \in H : t = u
    BY <1>1 DEF SchedulerInv, OneInstant, Held
  <2>2. Cardinality(H) \in {0, 1}
    BY <2>1, AtMostOne
  <2>3. QED
    BY <2>2
<1>2. SchedulerInv => OneHolder
  BY <1>1 DEF OneHolder
<1>3. QED
  BY <1>2, SchedulerInvariant, PTL

\* run_count of a schedule that only tickers move on is the number of instances
\* started, less the one about to be recorded and those whose record was lost.
THEOREM RunsAccountedAlways == Spec => []RunsAccounted
<1>1. ASSUME SchedulerInv, NEW s \in Schedule \ (byHand \cup overrun)
      PROVE  started[s] = runs[s] + lost[s] + Cardinality({t \in Ticker : s \in begun[t]})
  <2> DEFINE B == {t \in Ticker : s \in begun[t]}
  <2>1. \A t, u \in B : t = u
    BY <1>1 DEF SchedulerInv, OneClaim, Working
  <2>2. Cardinality(B) \in {0, 1} /\ (B # {} => Cardinality(B) = 1)
    BY <2>1, AtMostOne
  <2>3. started[s] \in Nat /\ runs[s] \in Nat /\ lost[s] \in Nat
    BY <1>1 DEF SchedulerInv, TypeOK
  <2>4. CASE B = {}
    <3>1. started[s] = runs[s] + lost[s]
      BY <1>1, <2>4 DEF SchedulerInv, Counted
    <3>2. Cardinality(B) = 0
      BY <2>4, FS_EmptySet
    <3>3. QED
      BY <2>3, <3>1, <3>2
  <2>5. CASE B # {}
    <3>1. started[s] = runs[s] + lost[s] + 1
      BY <1>1, <2>5 DEF SchedulerInv, Counted
    <3>2. QED
      BY <2>2, <2>3, <2>5, <3>1
  <2>6. QED
    BY <2>4, <2>5
<1>2. SchedulerInv => RunsAccounted
  BY <1>1 DEF RunsAccounted
<1>3. QED
  BY <1>2, SchedulerInvariant, PTL

\* pause_schedule and cancel_schedule hold: what was stopped while nobody
\* worked on it is claimed by nobody until a user moves it on.
THEOREM StopHoldsAlways == Spec => []StopHolds
<1>1. SchedulerInv => StopHolds
  BY DEF SchedulerInv, TypeOK, Stopped, StopHolds, Held
<1>2. QED
  BY <1>1, SchedulerInvariant, PTL

-----------------------------------------------------------------------------
(* The workflow instance: the pending writes *)

Writing == Recording \cup Updating
States == Active \cup Terminal

Within(q, t) == \E n \in DOMAIN q : q[n] = t
Ahead(q, t, u) == \E n, k \in DOMAIN q : n < k /\ q[n] = t /\ q[k] = u
Once(q) == \A n, k \in DOMAIN q : q[n] = q[k] => n = k

\* A task has one pending write while it waits for one, and none otherwise.
Pending ==
  /\ pc \in [Task -> Waits]
  /\ buf \in [Task -> [state : States \cup {"NONE"}, version : Nat]]
  /\ queue \in Seq(Task) /\ Once(queue)
  /\ \A t \in Task : /\ Within(queue, t) <=> pc[t] \in Writing
                     /\ pc[t] \in Writing => buf[t].state \in States

(* What is left of the queue keeps its order.                              *)
LEMMA WithoutEffect ==
  ASSUME queue \in Seq(Task), Once(queue), NEW t
  PROVE  /\ Without(t) \in Seq(Task) /\ Once(Without(t))
         /\ \A u : Within(Without(t), u) <=> Within(queue, u) /\ u # t
         /\ \A u, v : Ahead(Without(t), u, v) => Ahead(queue, u, v)
<1>1. CASE ~Within(queue, t)
  BY <1>1 DEF Within, Without
<1>2. CASE Within(queue, t)
  <2> DEFINE n == CHOOSE k \in DOMAIN queue : queue[k] = t
             l == Len(queue)
             p == SubSeq(queue, 1, n - 1)
             s == SubSeq(queue, n + 1, l)
             q == p \o s
  <2>1. n \in DOMAIN queue /\ queue[n] = t
    BY <1>2 DEF Within
  <2>2. /\ l \in Nat /\ DOMAIN queue = 1..l /\ \A k \in 1..l : queue[k] \in Task
        /\ n \in 1..l
    BY <2>1
  <2> HIDE DEF n, l
  <2>3. /\ p \in Seq(Task) /\ Len(p) = n - 1 /\ \A k \in 1..(n - 1) : p[k] = queue[k]
    BY <2>2
  <2>4. /\ s \in Seq(Task) /\ Len(s) = l - n
        /\ \A k \in 1..(l - n) : s[k] = queue[k + n]
    <3>1. \A k \in 1..(l - n) : (n + 1) + k - 1 = k + n
      BY <2>2
    <3>2. (l - (n + 1)) + 1 = l - n
      BY <2>2
    <3> QED BY <2>2, <3>1, <3>2
  <2> HIDE DEF p, s
  <2>5. /\ q \in Seq(Task) /\ DOMAIN q = 1..(l - 1)
        /\ \A k \in 1..(n - 1) : q[k] = queue[k]
        /\ \A k \in n..(l - 1) : q[k] = queue[k + 1]
    <3>1. q \in Seq(Task) /\ Len(q) = l - 1
      BY <2>2, <2>3, <2>4, SMTT(30)
    <3>2. \A k \in 1..(n - 1) : q[k] = p[k]
      BY <2>2, <2>3, <2>4
    <3>3. \A k \in n..(l - 1) : q[k] = s[k - (n - 1)] /\ k - (n - 1) \in 1..(l - n)
      BY <2>2, <2>3, <2>4
    <3>4. \A k \in n..(l - 1) : (k - (n - 1)) + n = k + 1
      BY <2>2
    <3> QED BY <3>1, <3>2, <3>3, <3>4, <2>2, <2>3, <2>4
  <2> HIDE DEF q
  <2>6. Without(t) = q
    BY <1>2 DEF Without, Within, q, p, s, n, l
  <2> DEFINE from(k) == IF k < n THEN k ELSE k + 1
  <2>7. \A k \in DOMAIN q : /\ from(k) \in DOMAIN queue /\ from(k) # n
                            /\ q[k] = queue[from(k)]
    BY <2>2, <2>5
  <2>8. \A k, m \in DOMAIN q : (k < m => from(k) < from(m)) /\ (from(k) = from(m) => k = m)
    BY <2>2, <2>5
  <2>9. \A k \in DOMAIN queue : k # n => \E m \in DOMAIN q : from(m) = k
    <3> SUFFICES ASSUME NEW k \in 1..l, k # n PROVE \E m \in DOMAIN q : from(m) = k
      BY <2>2
    <3>1. CASE k < n
      <4>1. k \in DOMAIN q /\ from(k) = k
        BY <3>1, <2>2, <2>5
      <4> QED BY <4>1
    <3>2. CASE k > n
      <4> USE DEF from
      <4>1. k - 1 \in DOMAIN q /\ from(k - 1) = k
        BY <3>2, <2>2, <2>5
      <4> QED BY <4>1
    <3> QED BY <3>1, <3>2, <2>2
  <2> HIDE DEF from
  <2>10. Once(q)
    BY <2>7, <2>8 DEF Once
  <2>11. \A u : Within(q, u) <=> Within(queue, u) /\ u # t
    <3>1. \A u : Within(q, u) => Within(queue, u) /\ u # t
      BY <2>1, <2>7 DEF Within, Once
    <3>2. \A u : Within(queue, u) /\ u # t => Within(q, u)
      BY <2>1, <2>7, <2>9 DEF Within
    <3> QED BY <3>1, <3>2
  <2>12. \A u, v : Ahead(q, u, v) => Ahead(queue, u, v)
    BY <2>7, <2>8 DEF Ahead
  <2> QED BY <2>5, <2>6, <2>10, <2>11, <2>12
<1> QED BY <1>1, <1>2

LEMMA AppendEffect ==
  ASSUME NEW q \in Seq(Task), Once(q), NEW t \in Task, ~Within(q, t)
  PROVE  /\ Append(q, t) \in Seq(Task) /\ Once(Append(q, t))
         /\ \A u : Within(Append(q, t), u) <=> Within(q, u) \/ u = t
         /\ \A u, v : Ahead(Append(q, t), u, v) =>
              Ahead(q, u, v) \/ (Within(q, u) /\ v = t)
<1> DEFINE p == Append(q, t)
<1>1. /\ p \in Seq(Task) /\ DOMAIN p = 1..(Len(q) + 1) /\ DOMAIN q = 1..Len(q)
      /\ Len(q) \in Nat /\ p[Len(q) + 1] = t /\ \A i \in DOMAIN q : p[i] = q[i]
  OBVIOUS
<1> HIDE DEF p
<1>2. Once(p)
  BY <1>1 DEF Within, Once
<1>3. \A u : Within(p, u) <=> Within(q, u) \/ u = t
  <2>1. \A u : Within(p, u) => Within(q, u) \/ u = t
    BY <1>1 DEF Within
  <2>2. Within(p, t)
    <3>1. Len(q) + 1 \in DOMAIN p
      BY <1>1
    <3> QED BY <1>1, <3>1 DEF Within
  <2>3. \A u : Within(q, u) => Within(p, u)
    <3>1. DOMAIN q \subseteq DOMAIN p
      BY <1>1
    <3> QED BY <1>1, <3>1 DEF Within
  <2> QED BY <2>1, <2>2, <2>3
<1>4. \A u, v : Ahead(p, u, v) => Ahead(q, u, v) \/ (Within(q, u) /\ v = t)
  <2> SUFFICES ASSUME NEW u, NEW v, NEW i \in DOMAIN p, NEW j \in DOMAIN p,
                      i < j, p[i] = u, p[j] = v
               PROVE  Ahead(q, u, v) \/ (Within(q, u) /\ v = t)
    BY DEF Ahead
  <2>1. i \in DOMAIN q /\ p[i] = q[i]
    BY <1>1
  <2>2. CASE j \in DOMAIN q
    BY <1>1, <2>1, <2>2 DEF Ahead
  <2>3. CASE j = Len(q) + 1
    BY <1>1, <2>1, <2>3 DEF Within
  <2> QED BY <1>1, <2>2, <2>3
<1> QED BY <1>1, <1>2, <1>3, <1>4 DEF p

-----------------------------------------------------------------------------
(* The workflow instance: types and places *)

RunnerAt == {"idle", "top", "working", "asking", "asked", "unwinding", "reentering",
             "completing", "advancing", "parking", "closing"}
CallerAt == {"idle", "approved", "refused", "resolving", "stepping", "resuming",
             "refusing", "cancelling", "unwinding"}
BootAt == {"down", "idle", "reviving", "refusing", "abandoning", "unwinding"}
Role(t, w) == \/ t \in Runner /\ w \in RunnerAt
              \/ t \in Caller /\ w \in CallerAt
              \/ t = Boot /\ w \in BootAt

\* While the boot is at work no other task is, and until the instance is loaded
\* nobody but a decision waits.
Placed ==
  /\ \A t \in Task : Role(t, pc[t])
  /\ pc[Boot] # "idle" => \A t \in Runner \cup Caller : pc[t] = "idle"
  /\ pc[Boot] = "down" => mem = Unloaded
  /\ mem = Unloaded => \A t \in Task : pc[t] \in {"idle", "down", "approved", "refused"}

InstanceShape == InstanceTypeOK /\ Pending /\ Placed

\* What a step may do to the state of the instance and to the pending writes: it
\* leaves them in order or issues the state the object then has, it stores what
\* a pending write carries, and no object leaves a terminal state.
Lawful ==
  /\ mem.state \in Terminal => mem'.state = mem.state
  /\ mem.state = "NONE" =>
       mem'.state = "NONE" \/ row.state \notin Terminal \/ mem'.state = row.state
  /\ \A t \in Task : Within(queue', t) =>
       \/ Within(queue, t) /\ buf'[t] = buf[t]
       \/ buf'[t].state = mem'.state
  /\ \A t, u \in Task : Ahead(queue', t, u) =>
       \/ Ahead(queue, t, u) /\ buf'[t] = buf[t] /\ buf'[u] = buf[u]
       \/ Within(queue, t) /\ buf'[t] = buf[t] /\ buf'[u].state = mem'.state
  /\ \/ row' = row
     \/ \E t \in Task : /\ Within(queue, t) /\ Turn(t)
                        /\ row'.state = buf[t].state

\* t goes on without a pending write, or with the one it has issued.
Left(t, w) ==
  /\ pc' = [pc EXCEPT ![t] = w]
  /\ \A u \in Task : /\ Within(queue', u) <=> Within(queue, u) /\ u # t
                     /\ u # t => buf'[u] = buf[u]
  /\ \A u, v \in Task : Ahead(queue', u, v) => Ahead(queue, u, v)
Put(t, w, s) ==
  /\ pc' = [pc EXCEPT ![t] = w]
  /\ buf'[t].state = s
  /\ \A u \in Task : /\ Within(queue', u) <=> Within(queue, u) \/ u = t
                     /\ u # t => buf'[u] = buf[u]
  /\ \A u, v \in Task : Ahead(queue', u, v) =>
       Ahead(queue, u, v) \/ (Within(queue, u) /\ v = t)
  /\ ~Within(queue, t)

LEMMA AheadWithin ==
  ASSUME NEW q, NEW t, NEW u, Ahead(q, t, u) PROVE Within(q, t) /\ Within(q, u)
BY DEF Ahead, Within

LEMMA Leaving ==
  ASSUME Pending, NEW t \in Task, NEW w \in Waits \ Writing, Goto(t, w), Written(t)
  PROVE  Pending' /\ Left(t, w)
<1>1. /\ queue' \in Seq(Task) /\ Once(queue')
      /\ \A u : Within(queue', u) <=> Within(queue, u) /\ u # t
      /\ \A u, v : Ahead(queue', u, v) => Ahead(queue, u, v)
  BY WithoutEffect DEF Pending, Written
<1>2. /\ pc' = [pc EXCEPT ![t] = w] /\ pc' \in [Task -> Waits]
      /\ buf' \in [Task -> [state : States \cup {"NONE"}, version : Nat]]
      /\ \A u \in Task : u # t => buf'[u] = buf[u]
  BY DEF Pending, Goto, Written, Empty
<1> QED BY <1>1, <1>2 DEF Pending, Left

LEMMA Holding ==
  ASSUME Pending, NEW t \in Task, NEW w \in Waits \ Writing, Goto(t, w),
         pc[t] \notin Writing, UNCHANGED writes
  PROVE  Pending' /\ Left(t, w)
<1>1. /\ pc' = [pc EXCEPT ![t] = w] /\ pc' \in [Task -> Waits]
      /\ buf' = buf /\ queue' = queue
  BY DEF Pending, Goto, writes
<1> QED BY <1>1 DEF Pending, Left

LEMMA Issuing ==
  ASSUME Pending, NEW t \in Task, NEW w \in Writing, pc[t] \notin Writing,
         NEW s \in States, NEW v \in Nat, Issue(t, w, s, v)
  PROVE  Pending' /\ Put(t, w, s)
<1>1. /\ queue' \in Seq(Task) /\ Once(queue')
      /\ \A u : Within(queue', u) <=> Within(queue, u) \/ u = t
      /\ \A x, y : Ahead(queue', x, y) => Ahead(queue, x, y) \/ (Within(queue, x) /\ y = t)
  BY AppendEffect DEF Pending, Issue
<1>2. /\ pc' = [pc EXCEPT ![t] = w] /\ pc' \in [Task -> Waits]
      /\ buf' \in [Task -> [state : States \cup {"NONE"}, version : Nat]]
      /\ \A u \in Task : u # t => buf'[u] = buf[u]
      /\ buf'[t].state = s
  BY DEF Pending, Issue, Goto, Writing, Waits
<1> QED BY <1>1, <1>2 DEF Pending, Put

LEMMA Places ==
  ASSUME InstanceAssumption, Placed, pc \in [Task -> Waits], NEW t \in Task, NEW w,
         Role(t, w), pc' = [pc EXCEPT ![t] = w],
         pc[t] # "idle" \/ (t # Boot /\ pc[Boot] = "idle"),
         w # "down",
         mem' # Unloaded \/ (mem' = mem /\ w \in {"idle", "approved", "refused"})
  PROVE  Placed'
<1>1. /\ pc'[t] = w /\ \A u \in Task : u # t => pc'[u] = pc[u]
      /\ Boot \in Task /\ Runner \cup Caller \subseteq Task
      /\ \A u \in Runner \cup Caller : u # Boot
  BY DEF Task, InstanceAssumption
<1>2. \A u \in Task : Role(u, pc'[u])
  BY <1>1 DEF Placed
<1>3. pc'[Boot] # "idle" => \A u \in Runner \cup Caller : pc'[u] = "idle"
  <2>1. CASE t = Boot
    BY <1>1, <2>1 DEF Placed
  <2>2. CASE t # Boot
    <3>1. t \in Runner \cup Caller
      BY <2>2 DEF Task
    <3> QED BY <1>1, <2>2, <3>1 DEF Placed
  <2> QED BY <2>1, <2>2
<1>4. pc'[Boot] = "down" => mem' = Unloaded
  <2>1. CASE t = Boot
    BY <1>1, <2>1
  <2>2. CASE t # Boot
    <3>1. t \in Runner \cup Caller
      BY <2>2 DEF Task
    <3>2. pc'[Boot] = "down" => FALSE
      BY <1>1, <2>2, <3>1 DEF Placed
    <3> QED BY <3>2
  <2> QED BY <2>1, <2>2
<1>5. mem' = Unloaded => \A u \in Task : pc'[u] \in {"idle", "down", "approved", "refused"}
  BY <1>1 DEF Placed
<1> HIDE DEF Role
<1>6. Placed'
  BY <1>2, <1>3, <1>4, <1>5 DEF Placed, Role
<1> QED BY <1>6

(* The fields of an instance, and of one with a field changed.             *)
LEMMA Fields ==
  ASSUME NEW m \in Instance
  PROVE  /\ m.state \in States /\ m.index \in Nat \ {0} /\ m.at \in 0..Steps
         /\ m.stack \in Seq(Undoable) /\ m.version \in Nat
         /\ m # Unloaded /\ m.state # "NONE"
         /\ \A s \in States : /\ [m EXCEPT !.state = s] \in Instance
                              /\ [m EXCEPT !.state = s].state = s
         /\ \A v \in Nat : /\ [m EXCEPT !.version = v] \in Instance
                           /\ [m EXCEPT !.version = v].state = m.state
                           /\ [m EXCEPT !.version = v].stack = m.stack
                           /\ [m EXCEPT !.version = v].index = m.index
         /\ \A i \in Nat \ {0} : /\ [m EXCEPT !.index = i] \in Instance
                                 /\ [m EXCEPT !.index = i].state = m.state
         /\ \A i \in 0..Steps : /\ [m EXCEPT !.at = i] \in Instance
                                /\ [m EXCEPT !.at = i].state = m.state
         /\ \A q \in Seq(Undoable) : /\ [m EXCEPT !.stack = q] \in Instance
                                     /\ [m EXCEPT !.stack = q].state = m.state
BY SMTT(30) DEF Instance, Unloaded, States, Active, Terminal

\* No object leaves a terminal state, and the row's is taken over.
Sticky ==
  /\ mem.state \in Terminal => mem'.state = mem.state
  /\ mem.state = "NONE" =>
       mem'.state = "NONE" \/ row.state \notin Terminal \/ mem'.state = row.state

LEMMA PlacedFacts ==
  ASSUME InstanceAssumption, InstanceShape
  PROVE  /\ mem \in Instance \/ mem = Unloaded
         /\ mem.state = "NONE" <=> mem = Unloaded
         /\ mem = Unloaded => \A t \in Task : pc[t] \in {"idle", "down", "approved", "refused"}
         /\ row \in Instance
         /\ \A t \in Task : /\ pc[t] \in Writing => mem \in Instance /\ buf[t].state \in States
                            /\ buf[t].version \in Nat
                            /\ Within(queue, t) <=> pc[t] \in Writing
<1>1. mem \in Instance \/ mem = Unloaded
  BY DEF InstanceShape, InstanceTypeOK
<1>2. mem.state = "NONE" <=> mem = Unloaded
  BY <1>1, Fields DEF Unloaded
<1> QED BY <1>1, <1>2 DEF InstanceShape, InstanceTypeOK, Placed, Pending, Writing, Recording, Updating

LEMMA LeftStep ==
  ASSUME InstanceAssumption, InstanceShape, NEW t \in Task, NEW w \in Waits \ Writing,
         Left(t, w), Role(t, w), w # "down", Sticky,
         pc[t] # "idle" \/ (t # Boot /\ pc[Boot] = "idle"),
         mem' # Unloaded \/ (mem' = mem /\ w \in {"idle", "approved", "refused"}),
         row' = row \/ (pc[t] \in Writing /\ Commit(t))
  PROVE  Placed' /\ Lawful
<1>1. Placed'
  BY Places DEF InstanceShape, Left, Pending
<1>2. row' = row \/ \E u \in Task : Within(queue, u) /\ Turn(u) /\ row'.state = buf[u].state
  <2>1. CASE row' = row
    BY <2>1
  <2>2. CASE pc[t] \in Writing /\ Commit(t)
    <3>1. mem \in Instance /\ buf[t].state \in States /\ Within(queue, t)
      BY <2>2, PlacedFacts
    <3>2. row'.state = buf[t].state
      BY <2>2, <3>1 DEF Commit, Stored, Instance
    <3> QED BY <2>2, <3>1, <3>2 DEF Commit
  <2> QED BY <2>1, <2>2
<1>3. \A u, v \in Task : Ahead(queue', u, v) =>
        Ahead(queue, u, v) /\ buf'[u] = buf[u] /\ buf'[v] = buf[v]
  BY AheadWithin DEF Left
<1> QED BY <1>1, <1>2, <1>3 DEF Lawful, Left, Sticky

LEMMA PutStep ==
  ASSUME InstanceAssumption, InstanceShape, NEW t \in Task, NEW w \in Writing,
         Put(t, w, mem'.state), Role(t, w), Sticky,
         pc[t] # "idle" \/ (t # Boot /\ pc[Boot] = "idle"),
         mem' # Unloaded, row' = row
  PROVE  Placed' /\ Lawful
<1>0. w # "down"
  BY DEF Writing, Recording, Updating
<1>1. Placed'
  BY <1>0, Places DEF InstanceShape, Put, Pending
<1>2. \A u \in Task : Within(queue, u) => u # t /\ buf'[u] = buf[u]
  BY DEF Put
<1>3. \A u, v \in Task : Ahead(queue', u, v) =>
        \/ Ahead(queue, u, v) /\ buf'[u] = buf[u] /\ buf'[v] = buf[v]
        \/ Within(queue, u) /\ buf'[u] = buf[u] /\ buf'[v].state = mem'.state
  <2> SUFFICES ASSUME NEW u \in Task, NEW v \in Task, Ahead(queue', u, v)
               PROVE  \/ Ahead(queue, u, v) /\ buf'[u] = buf[u] /\ buf'[v] = buf[v]
                      \/ Within(queue, u) /\ buf'[u] = buf[u] /\ buf'[v].state = mem'.state
    OBVIOUS
  <2>1. Ahead(queue, u, v) \/ (Within(queue, u) /\ v = t)
    BY DEF Put
  <2>2. CASE Ahead(queue, u, v)
    BY <1>2, <2>2, AheadWithin
  <2>3. CASE Within(queue, u) /\ v = t
    BY <1>2, <2>3 DEF Put
  <2> QED BY <2>1, <2>2, <2>3
<1> QED BY <1>1, <1>2, <1>3 DEF Lawful, Put, Sticky

LEMMA Keeps ==
  ASSUME InstanceAssumption, InstanceShape, mem'.state = mem.state PROVE Sticky
BY DEF Sticky

LEMMA CommitTyped ==
  ASSUME InstanceAssumption, InstanceShape, NEW t \in Task, pc[t] \in Writing, Commit(t)
  PROVE  /\ row' \in Instance /\ mem \in Instance /\ row' = Stored(t)
         /\ row'.index = mem.index /\ row'.state = buf[t].state
         /\ row'.version = buf[t].version + 1
<1>1. mem \in Instance /\ buf[t].state \in States /\ buf[t].version \in Nat
  BY PlacedFacts
<1> DEFINE m == [mem EXCEPT !.state = buf[t].state]
<1>2. m \in Instance /\ m.state = buf[t].state /\ m.index = mem.index
  BY <1>1, Fields DEF Instance
<1>3. Stored(t) = [m EXCEPT !.version = buf[t].version + 1]
  BY <1>1, <1>2 DEF Stored, Instance
<1> HIDE DEF m
<1>4. buf[t].version + 1 \in Nat
  BY <1>1
<1>5. /\ Stored(t) \in Instance /\ Stored(t).state = m.state /\ Stored(t).index = m.index
      /\ Stored(t).version = buf[t].version + 1
  BY <1>2, <1>3, <1>4, Fields DEF Instance
<1> QED BY <1>1, <1>2, <1>5 DEF Commit

RestTyped ==
  /\ tickets \in [Gates -> Seq({"PENDING", "APPROVED", "REJECTED"})]
  /\ step \in [Task -> 0..Steps]
  /\ tracked \in Runner \cup {NoTask} /\ original \in Runner \cup {NoTask}
  /\ ran \in [Step -> Nat] /\ undone \in [Undoable -> Nat]
  /\ crashes \in 0..MaxCrashes /\ resumes \in 0..MaxResumes

LEMMA ShapeParts ==
  InstanceShape <=> /\ row \in Instance /\ mem \in Instance \cup {Unloaded}
                    /\ RestTyped /\ Pending /\ Placed
BY DEF InstanceShape, InstanceTypeOK, RestTyped, Pending, States
LEMMA ShapePartsNext ==
  (InstanceShape <=> /\ row \in Instance /\ mem \in Instance \cup {Unloaded}
                     /\ RestTyped /\ Pending /\ Placed)'
BY ShapeParts, PTL

LEMMA Ending ==
  ASSUME InstanceAssumption, Pending, RestTyped, NEW t \in Task, Ends(t)
  PROVE  /\ Pending' /\ Left(t, "idle") /\ "idle" \in Waits \ Writing
         /\ step' \in [Task -> 0..Steps]
         /\ tracked' \in Runner \cup {NoTask} /\ original' \in Runner \cup {NoTask}
<1>1. "idle" \in Waits \ Writing
  BY DEF Waits, Writing, Recording, Updating
<1>2. Pending' /\ Left(t, "idle")
  BY <1>1, Leaving DEF Ends
<1>4. step' = [step EXCEPT ![t] = 0]
  BY DEF Ends
<1>5. tracked' \in Runner \cup {NoTask} /\ original' \in Runner \cup {NoTask}
  BY DEF Ends, RestTyped
<1>6. step' \in [Task -> 0..Steps]
  <2>1. step[t] \in 0..Steps /\ step \in [Task -> 0..Steps]
    BY DEF RestTyped
  <2>2. 0 \in 0..Steps
    BY DEF InstanceAssumption
  <2> QED BY <1>4, <2>1, <2>2
<1> QED BY <1>1, <1>2, <1>5, <1>6

LEMMA EndsStep ==
  ASSUME InstanceAssumption, InstanceShape, NEW t \in Task, Ends(t), Sticky,
         pc[t] # "idle",
         mem' \in Instance \/ (mem' = mem /\ mem' = Unloaded),
         row' = row \/ (pc[t] \in Writing /\ Commit(t)),
         UNCHANGED <<tickets, ledger, limits>>
  PROVE  InstanceShape' /\ Lawful
<1>1. /\ Pending' /\ Left(t, "idle") /\ "idle" \in Waits \ Writing
      /\ step' \in [Task -> 0..Steps]
      /\ tracked' \in Runner \cup {NoTask} /\ original' \in Runner \cup {NoTask}
  BY Ending, ShapeParts
<1>2. Role(t, "idle")
  BY DEF Role, Task, RunnerAt, CallerAt, BootAt
<1>3. mem' # Unloaded \/ mem' = mem
  BY Fields
<1>4. Placed' /\ Lawful
  BY <1>1, <1>2, <1>3, LeftStep
<1>5. row' \in Instance
  BY CommitTyped, PlacedFacts
<1>6. mem' \in Instance \cup {Unloaded}
  OBVIOUS
<1>7. RestTyped'
  BY <1>1, ShapeParts DEF RestTyped, ledger, limits
<1> QED BY <1>1, <1>4, <1>5, <1>6, <1>7, ShapePartsNext

LEMMA UnwindStep ==
  ASSUME InstanceAssumption, InstanceShape, NEW t \in Task, NEW m \in Instance,
         Unwind(t, m), mem \in Instance, mem.state \in Terminal => m.state = mem.state,
         pc[t] # "idle", t \in Runner => pc[t] \notin Writing,
         row' = row \/ (pc[t] \in Writing /\ Commit(t)),
         UNCHANGED <<tickets, ran, limits>>
  PROVE  InstanceShape' /\ Lawful
<1>1. mem.state # "NONE"
  BY Fields
<1>2. row' \in Instance
  BY CommitTyped, PlacedFacts
<1>3. CASE m.stack # <<>>
  <2> DEFINE n == Len(m.stack)  q == SubSeq(m.stack, 1, n - 1)
  <2>1. /\ mem' = [m EXCEPT !.stack = q]
        /\ undone' = [undone EXCEPT ![m.stack[n]] = @ + 1]
        /\ Goto(t, "unwinding") /\ Written(t)
        /\ UNCHANGED <<step, tracked, original>>
    BY <1>3 DEF Unwind
  <2>2. q \in Seq(Undoable) /\ m.stack[n] \in Undoable
    <3>1. m.stack \in Seq(Undoable)
      BY Fields
    <3> HIDE DEF InstanceAssumption
    <3> QED BY <1>3, <3>1
  <2>3. mem' \in Instance /\ mem'.state = m.state
    <3> HIDE DEF q
    <3> QED BY <2>1, <2>2, Fields
  <2>4. "unwinding" \in Waits \ Writing /\ "unwinding" # "down"
    BY DEF Waits, Writing, Recording, Updating
  <2>5. Pending' /\ Left(t, "unwinding")
    BY <2>1, <2>4, Leaving, ShapeParts
  <2>6. Role(t, "unwinding")
    BY DEF Role, Task, RunnerAt, CallerAt, BootAt
  <2>7. Sticky
    BY <1>1, <2>3 DEF Sticky
  <2>8. mem' # Unloaded
    BY <2>3, Fields
  <2>9. Placed' /\ Lawful
    BY <2>4, <2>5, <2>6, <2>7, <2>8, LeftStep
  <2>10. RestTyped'
    <3> HIDE DEF q, n
    <3>1. undone' \in [Undoable -> Nat]
      BY <2>1, <2>2, ShapeParts, SMTT(30) DEF RestTyped
    <3> QED BY <2>1, <3>1, ShapeParts DEF RestTyped, limits
  <2> QED BY <1>2, <2>3, <2>5, <2>9, <2>10, ShapePartsNext
<1>4. CASE m.stack = <<>> /\ t \in Runner
  <2>1. /\ mem' = [m EXCEPT !.version = @ + 1]
        /\ Issue(t, "closing", m.state, m.version)
        /\ UNCHANGED <<undone, step, tracked, original>>
    BY <1>4 DEF Unwind, RecordStep
  <2>2. m.state \in States /\ m.version \in Nat /\ m.version + 1 \in Nat
    BY Fields
  <2>3. mem' \in Instance /\ mem'.state = m.state
    BY <2>1, <2>2, Fields
  <2>4. "closing" \in Writing
    BY DEF Writing, Recording
  <2>5. Pending' /\ Put(t, "closing", mem'.state)
    BY <1>4, <2>1, <2>2, <2>3, <2>4, Issuing, ShapeParts
  <2>6. Role(t, "closing") /\ Sticky /\ mem' # Unloaded
    BY <1>1, <1>4, <2>3, Fields DEF Role, RunnerAt, Sticky
  <2>7. row' = row
    BY <1>4
  <2>8. Placed' /\ Lawful
    BY <2>4, <2>5, <2>6, <2>7, PutStep
  <2>9. RestTyped'
    BY <2>1, ShapeParts DEF RestTyped, limits
  <2> QED BY <1>2, <2>3, <2>5, <2>8, <2>9, ShapePartsNext
<1>5. CASE m.stack = <<>> /\ t \notin Runner
  <2>1. mem' = m /\ Ends(t) /\ undone' = undone
    BY <1>5 DEF Unwind
  <2>2. Sticky
    BY <1>1, <2>1 DEF Sticky
  <2> QED BY <2>1, <2>2, EndsStep DEF ledger
<1> QED BY <1>3, <1>4, <1>5

\* A task goes on without a pending write.
LEMMA GoesStep ==
  ASSUME InstanceAssumption, InstanceShape, NEW t \in Task, NEW w \in Waits \ Writing,
         Goto(t, w), Written(t) \/ (UNCHANGED writes /\ pc[t] \notin Writing),
         Role(t, w), w # "down", Sticky,
         pc[t] # "idle" \/ (t # Boot /\ pc[Boot] = "idle"),
         mem' \in Instance \/ (mem' = mem /\ w \in {"idle", "approved", "refused"}),
         row' = row \/ (pc[t] \in Writing /\ Commit(t)),
         RestTyped'
  PROVE  InstanceShape' /\ Lawful
<1>1. Pending' /\ Left(t, w)
  BY Leaving, Holding, ShapeParts
<1>2. mem' # Unloaded \/ (mem' = mem /\ w \in {"idle", "approved", "refused"})
  BY Fields
<1>3. Placed' /\ Lawful
  BY <1>1, <1>2, LeftStep
<1>4. row' \in Instance /\ mem' \in Instance \cup {Unloaded}
  BY CommitTyped, PlacedFacts
<1> QED BY <1>1, <1>3, <1>4, ShapePartsNext

\* A task issues a write of the object as it then is.
LEMMA IssuesStep ==
  ASSUME InstanceAssumption, InstanceShape, NEW t \in Task, NEW w \in Writing,
         NEW m \in Instance, Update(t, w, m) \/ RecordStep(t, w, m),
         pc[t] \notin Writing, Role(t, w),
         mem.state \in Terminal => m.state = mem.state,
         mem.state = "NONE" => row.state \notin Terminal \/ m.state = row.state,
         pc[t] # "idle" \/ (t # Boot /\ pc[Boot] = "idle"),
         row' = row, RestTyped'
  PROVE  InstanceShape' /\ Lawful
<1>1. m.state \in States /\ m.version \in Nat /\ m.version + 1 \in Nat
  BY Fields
<1>2. /\ mem' \in Instance /\ mem'.state = m.state
      /\ Issue(t, w, m.state, m.version)
  <2>1. CASE Update(t, w, m)
    BY <2>1 DEF Update
  <2>2. CASE RecordStep(t, w, m)
    <3>1. mem' = [m EXCEPT !.version = m.version + 1] /\ Issue(t, w, m.state, m.version)
      BY <2>2 DEF RecordStep
    <3> QED BY <1>1, <3>1, Fields
  <2> QED BY <2>1, <2>2
<1>3. Pending' /\ Put(t, w, mem'.state)
  BY <1>1, <1>2, Issuing, ShapeParts
<1>4. Sticky /\ mem' # Unloaded
  BY <1>2, Fields DEF Sticky
<1>5. Placed' /\ Lawful
  BY <1>3, <1>4, PutStep
<1> QED BY <1>2, <1>3, <1>5, PlacedFacts, ShapePartsNext

LEMMA RunnerIs ==
  ASSUME InstanceAssumption, NEW r \in Runner
  PROVE  r \in Task /\ r # Boot /\ r \notin Caller /\ \A w : Role(r, w) <=> w \in RunnerAt
BY DEF InstanceAssumption, Task, Role
LEMMA CallerIs ==
  ASSUME InstanceAssumption, NEW c \in Caller
  PROVE  c \in Task /\ c # Boot /\ c \notin Runner /\ \A w : Role(c, w) <=> w \in CallerAt
BY DEF InstanceAssumption, Task, Role
LEMMA BootIs ==
  ASSUME InstanceAssumption
  PROVE  /\ Boot \in Task /\ Boot \notin Runner /\ Boot \notin Caller
         /\ \A w : Role(Boot, w) <=> w \in BootAt
BY DEF InstanceAssumption, Task, Role

LEMMA NotWriting ==
  /\ {"down", "idle", "top", "working", "asking", "asked", "unwinding", "approved",
      "refused", "resolving"} \subseteq Waits \ Writing
  /\ \A w \in {"down", "idle", "top", "working", "asking", "asked", "unwinding", "approved",
               "refused", "resolving"} : w \notin Writing
BY DEF Waits, Writing, Recording, Updating

LEMMA LoadedAt ==
  ASSUME InstanceAssumption, InstanceShape, NEW t \in Task,
         pc[t] \notin {"idle", "down", "approved", "refused"}
  PROVE  mem \in Instance /\ mem.state \in States /\ mem.state # "NONE"
BY PlacedFacts, Fields

LEMMA StatesAre ==
  /\ {"RUNNING", "WAITING", "APPROVED"} \subseteq States
  /\ {"FAILED", "COMPLETED", "CANCELLED"} \subseteq States
  /\ \A s \in {"RUNNING", "WAITING", "APPROVED"} : s \notin Terminal /\ s # "NONE"
  /\ Active = {"RUNNING", "WAITING", "APPROVED"}
  /\ "NONE" \notin Terminal
BY DEF States, Active, Terminal

LEMMA TakeStepShape ==
  ASSUME InstanceAssumption, InstanceShape, NEW r \in Runner, TakeStep(r)
  PROVE  InstanceShape' /\ Lawful
<1>1. /\ r \in Task /\ mem \in Instance /\ pc[r] = "top" /\ mem.index \in Step
      /\ pc[r] \notin Writing
  BY LoadedAt, RunnerIs, NotWriting DEF TakeStep
<1> DEFINE w == IF mem.index \in Gates THEN "asking" ELSE "working"
<1>2. w \in Waits \ Writing /\ Role(r, w) /\ w # "down"
  BY NotWriting, RunnerIs DEF RunnerAt
<1>3. Goto(r, w) /\ UNCHANGED writes /\ row' = row
  BY DEF TakeStep, Begin
<1>4. mem' \in Instance /\ mem'.state = mem.state
  <2>1. mem.index \in 0..Steps /\ mem' = [mem EXCEPT !.at = mem.index]
    BY <1>1 DEF TakeStep, Step
  <2> QED BY <1>1, <2>1, Fields
<1>5. RestTyped'
  <2>1. step' \in [Task -> 0..Steps]
    BY <1>1, ShapeParts DEF TakeStep, Step, RestTyped
  <2>2. ran' \in [Step -> Nat]
    BY <1>1, ShapeParts DEF TakeStep, Begin, RestTyped
  <2> QED BY <2>1, <2>2, ShapeParts DEF TakeStep, RestTyped, limits
<1> QED BY <1>1, <1>2, <1>3, <1>4, <1>5, Keeps, GoesStep

LEMMA ReenterShape ==
  ASSUME InstanceAssumption, InstanceShape, NEW r \in Runner, Reenter(r)
  PROVE  InstanceShape' /\ Lawful
<1>1. /\ r \in Task /\ mem \in Instance /\ pc[r] = "top" /\ mem.index \in Step
      /\ pc[r] \notin Writing /\ mem.state = "APPROVED"
  BY LoadedAt, RunnerIs, NotWriting DEF Reenter
<1> DEFINE a == [mem EXCEPT !.at = mem.index]
           m == [a EXCEPT !.state = "RUNNING"]
<1>2. m \in Instance /\ m.state = "RUNNING"
  <2>1. mem.index \in 0..Steps
    BY <1>1 DEF Step
  <2>2. a \in Instance
    BY <1>1, <2>1, Fields
  <2> HIDE DEF a
  <2> QED BY <2>2, Fields, StatesAre
<1>3. Update(r, "reentering", m)
  BY <1>1 DEF Reenter, Instance
<1>4. "reentering" \in Writing /\ Role(r, "reentering")
  BY RunnerIs DEF Writing, Updating, RunnerAt
<1>5. RestTyped' /\ row' = row
  <2>1. step' \in [Task -> 0..Steps]
    BY <1>1, ShapeParts DEF Reenter, Step, RestTyped
  <2> QED BY <2>1, ShapeParts DEF Reenter, RestTyped, limits, ledger
<1> HIDE DEF m
<1> QED BY <1>1, <1>2, <1>3, <1>4, <1>5, StatesAre, IssuesStep

LEMMA Acknowledging ==
  ASSUME InstanceAssumption, InstanceShape, NEW t \in Task, pc[t] \in Writing,
         mem' = [mem EXCEPT !.version = buf[t].version + 1]
  PROVE  mem' \in Instance /\ mem'.state = mem.state /\ Sticky
         /\ mem'.index = mem.index /\ mem'.stack = mem.stack
<1>1. mem \in Instance /\ buf[t].version + 1 \in Nat
  BY PlacedFacts
<1> QED BY <1>1, Fields, Keeps

LEMMA ReenteredShape ==
  ASSUME InstanceAssumption, InstanceShape, NEW r \in Runner, Reentered(r)
  PROVE  InstanceShape' /\ Lawful
<1>1. r \in Task /\ pc[r] = "reentering" /\ pc[r] \in Writing
  BY RunnerIs DEF Reentered, Writing, Updating
<1> DEFINE w == IF step[r] \in Gates THEN "asking" ELSE "working"
<1>2. w \in Waits \ Writing /\ Role(r, w) /\ w # "down"
  BY NotWriting, RunnerIs DEF RunnerAt
<1>3. Goto(r, w) /\ Written(r) /\ Commit(r)
  BY DEF Reentered, Begin
<1>4. mem' \in Instance /\ Sticky
  BY <1>1, Acknowledging DEF Reentered, Acknowledged
<1>5. RestTyped'
  <2>1. ran' \in [Step -> Nat]
    <3>1. ran' = [ran EXCEPT ![step[r]] = ran[step[r]] + 1] /\ ran \in [Step -> Nat]
      BY ShapeParts DEF Reentered, Begin, RestTyped
    <3>2. CASE step[r] \in Step
      BY <3>1, <3>2
    <3>3. CASE step[r] \notin Step
      BY <3>1, <3>3
    <3> QED BY <3>2, <3>3
  <2> QED BY <2>1, ShapeParts DEF Reentered, RestTyped, limits
<1> QED BY <1>1, <1>2, <1>3, <1>4, <1>5, GoesStep

LEMMA CompleteShape ==
  ASSUME InstanceAssumption, InstanceShape, NEW r \in Runner, Complete(r)
  PROVE  InstanceShape' /\ Lawful
<1>1. /\ r \in Task /\ mem \in Instance /\ pc[r] = "top" /\ mem.state = "RUNNING"
      /\ pc[r] \notin Writing
  BY LoadedAt, RunnerIs, NotWriting DEF Complete
<1> DEFINE m == [mem EXCEPT !.state = "COMPLETED"]
<1>2. m \in Instance
  BY <1>1, Fields, StatesAre
<1>3. Update(r, "completing", m) /\ row' = row
  BY DEF Complete
<1>4. "completing" \in Writing /\ Role(r, "completing")
  BY RunnerIs DEF Writing, Updating, RunnerAt
<1>5. RestTyped'
  BY ShapeParts DEF Complete, RestTyped, limits, ledger
<1> HIDE DEF m
<1> QED BY <1>1, <1>2, <1>3, <1>4, <1>5, StatesAre, IssuesStep

LEMMA LeaveShape ==
  ASSUME InstanceAssumption, InstanceShape, NEW r \in Runner, Leave(r)
  PROVE  InstanceShape' /\ Lawful
<1>1. r \in Task /\ mem \in Instance /\ pc[r] # "idle"
  BY LoadedAt, RunnerIs DEF Leave
<1> QED BY <1>1, Keeps, EndsStep DEF Leave

LEMMA WorkShape ==
  ASSUME InstanceAssumption, InstanceShape, NEW r \in Runner, Work(r)
  PROVE  InstanceShape' /\ Lawful
<1>1. r \in Task /\ mem \in Instance /\ pc[r] = "working" /\ pc[r] \notin Writing
  BY LoadedAt, RunnerIs, NotWriting DEF Work
<1>2. RestTyped' /\ row' = row
  BY ShapeParts DEF Work, RestTyped, limits, ledger
<1>3. PICK success \in BOOLEAN :
        LET m == IF success /\ step[r] \in Undoable
                 THEN [mem EXCEPT !.stack = Append(@, step[r])] ELSE mem
        IN IF mem.state = "WAITING"
           THEN RecordStep(r, "parking", m)
           ELSE RecordStep(r, "advancing", [m EXCEPT !.index = @ + 1])
  BY DEF Work
<1> DEFINE m == IF success /\ step[r] \in Undoable
                THEN [mem EXCEPT !.stack = Append(@, step[r])] ELSE mem
<1>4. m \in Instance /\ m.state = mem.state
  <2>1. CASE success /\ step[r] \in Undoable
    <3>1. Append(mem.stack, step[r]) \in Seq(Undoable)
      BY <1>1, <2>1, Fields
    <3>2. m = [mem EXCEPT !.stack = Append(mem.stack, step[r])]
      BY <2>1
    <3> QED BY <1>1, <3>1, <3>2, Fields
  <2> QED BY <1>1, <2>1
<1>5. IF mem.state = "WAITING" THEN RecordStep(r, "parking", m)
      ELSE RecordStep(r, "advancing", [m EXCEPT !.index = @ + 1])
  BY <1>3
<1> HIDE DEF m
<1>6. "parking" \in Writing /\ "advancing" \in Writing
      /\ Role(r, "parking") /\ Role(r, "advancing")
  BY RunnerIs DEF Writing, Recording, RunnerAt
<1>7. CASE mem.state = "WAITING"
  BY <1>1, <1>2, <1>4, <1>5, <1>6, <1>7, Fields, IssuesStep
<1>8. CASE mem.state # "WAITING"
  <2>1. /\ [m EXCEPT !.index = @ + 1] = [m EXCEPT !.index = m.index + 1]
        /\ m.index + 1 \in Nat \ {0}
    BY <1>4, Fields
  <2>2. [m EXCEPT !.index = @ + 1] \in Instance /\ [m EXCEPT !.index = @ + 1].state = mem.state
    BY <1>4, <2>1, Fields
  <2> QED BY <1>1, <1>2, <1>5, <1>6, <1>8, <2>2, Fields, IssuesStep
<1> QED BY <1>7, <1>8

LEMMA AdvancedShape ==
  ASSUME InstanceAssumption, InstanceShape, NEW r \in Runner, Advanced(r)
  PROVE  InstanceShape' /\ Lawful
<1>1. r \in Task /\ pc[r] = "advancing" /\ pc[r] \in Writing /\ mem \in Instance
  BY LoadedAt, RunnerIs DEF Advanced, Writing, Recording
<1>2. "top" \in Waits \ Writing /\ Role(r, "top")
  BY NotWriting, RunnerIs DEF RunnerAt
<1>3. Goto(r, "top") /\ Written(r) /\ Commit(r) /\ mem' = mem
  BY DEF Advanced
<1>4. RestTyped'
  BY ShapeParts DEF Advanced, RestTyped, ledger, limits
<1> QED BY <1>1, <1>2, <1>3, <1>4, Keeps, GoesStep

LEMMA WorkFailsShape ==
  ASSUME InstanceAssumption, InstanceShape, NEW r \in Runner, WorkFails(r)
  PROVE  InstanceShape' /\ Lawful
<1>1. /\ r \in Task /\ mem \in Instance /\ pc[r] = "working" /\ pc[r] \notin Writing
      /\ mem.state \in Active \cup {"FAILED"}
  BY LoadedAt, RunnerIs, NotWriting DEF WorkFails
<1> DEFINE m == [mem EXCEPT !.state = "FAILED"]
<1>2. m \in Instance /\ m.state = "FAILED"
  BY <1>1, Fields, StatesAre
<1>3. Unwind(r, m) /\ UNCHANGED <<row, tickets, ran, limits>>
  BY DEF WorkFails
<1> HIDE DEF m
<1> QED BY <1>1, <1>2, <1>3, StatesAre, UnwindStep

LEMMA ForbiddenShape ==
  ASSUME InstanceAssumption, InstanceShape, NEW r \in Runner, Forbidden(r)
  PROVE  InstanceShape' /\ Lawful
<1>1. r \in Task /\ mem \in Instance /\ pc[r] # "idle"
  BY LoadedAt, RunnerIs DEF Forbidden
<1> QED BY <1>1, Keeps, EndsStep DEF Forbidden

LEMMA TicketAdded ==
  ASSUME RestTyped, NEW g \in Nat, tickets' = [tickets EXCEPT ![g] = Append(@, "PENDING")]
  PROVE  tickets' \in [Gates -> Seq({"PENDING", "APPROVED", "REJECTED"})]
<1>1. tickets \in [Gates -> Seq({"PENDING", "APPROVED", "REJECTED"})]
  BY DEF RestTyped
<1>2. CASE g \in Gates
  <2>1. Append(tickets[g], "PENDING") \in Seq({"PENDING", "APPROVED", "REJECTED"})
    BY <1>1, <1>2
  <2> QED BY <1>1, <2>1
<1>3. CASE g \notin Gates
  BY <1>1, <1>3
<1> QED BY <1>2, <1>3

LEMMA AskShape ==
  ASSUME InstanceAssumption, InstanceShape, NEW r \in Runner, Ask(r)
  PROVE  InstanceShape' /\ Lawful
<1>1. r \in Task /\ mem \in Instance /\ pc[r] = "asking" /\ pc[r] \notin Writing
  BY LoadedAt, RunnerIs, NotWriting DEF Ask
<1>2. "asked" \in Waits \ Writing /\ Role(r, "asked")
  BY NotWriting, RunnerIs DEF RunnerAt
<1>3. Goto(r, "asked") /\ UNCHANGED writes /\ mem' = mem /\ row' = row
  BY DEF Ask
<1>4. RestTyped'
  <2>1. step[r] \in Nat
    BY <1>1, ShapeParts DEF RestTyped, InstanceAssumption
  <2>2. tickets' \in [Gates -> Seq({"PENDING", "APPROVED", "REJECTED"})]
    BY <2>1, ShapeParts, TicketAdded DEF Ask
  <2> QED BY <2>2, ShapeParts DEF Ask, RestTyped, ledger, limits
<1> QED BY <1>1, <1>2, <1>3, <1>4, Keeps, GoesStep

LEMMA WaitShape ==
  ASSUME InstanceAssumption, InstanceShape, NEW r \in Runner, Wait(r)
  PROVE  InstanceShape' /\ Lawful
<1>1. /\ r \in Task /\ mem \in Instance /\ pc[r] = "asked" /\ pc[r] \notin Writing
      /\ mem.state \in {"RUNNING", "WAITING"}
  BY LoadedAt, RunnerIs, NotWriting DEF Wait
<1> DEFINE m == [mem EXCEPT !.state = "WAITING"]
<1>2. m \in Instance
  BY <1>1, Fields, StatesAre
<1>3. RecordStep(r, "parking", m) /\ row' = row
  BY DEF Wait
<1>4. "parking" \in Writing /\ Role(r, "parking")
  BY RunnerIs DEF Writing, Recording, RunnerAt
<1>5. RestTyped'
  BY ShapeParts DEF Wait, RestTyped, limits, ledger
<1> HIDE DEF m
<1> QED BY <1>1, <1>2, <1>3, <1>4, <1>5, StatesAre, IssuesStep

LEMMA SettledShape ==
  ASSUME InstanceAssumption, InstanceShape, NEW r \in Runner, Settled(r)
  PROVE  InstanceShape' /\ Lawful
<1>1. /\ r \in Task /\ mem \in Instance /\ pc[r] \in {"parking", "closing", "completing"}
      /\ pc[r] \in Writing /\ Commit(r) /\ Ends(r)
  BY LoadedAt, RunnerIs DEF Settled, Writing, Recording, Updating
<1>2. mem' \in Instance /\ Sticky
  BY <1>1, Acknowledging, Keeps DEF Settled, Acknowledged
<1> QED BY <1>1, <1>2, EndsStep DEF Settled

LEMMA CompensateShape ==
  ASSUME InstanceAssumption, InstanceShape, NEW t \in Task, Compensate(t)
  PROVE  InstanceShape' /\ Lawful
<1>1. pc[t] = "unwinding" /\ mem \in Instance /\ pc[t] \notin Writing
  BY LoadedAt, NotWriting DEF Compensate
<1> QED BY <1>1, UnwindStep DEF Compensate

LEMMA ConflictShape ==
  ASSUME InstanceAssumption, InstanceShape, NEW t \in Task, Conflict(t)
  PROVE  InstanceShape' /\ Lawful
<1>1. pc[t] \in Writing /\ mem \in Instance /\ pc[t] # "idle"
  BY PlacedFacts, NotWriting DEF Conflict, Writing
<1> QED BY <1>1, Keeps, EndsStep DEF Conflict

LEMMA RaisesShape ==
  ASSUME InstanceAssumption, InstanceShape, NEW t \in Task, Raises(t)
  PROVE  InstanceShape' /\ Lawful
<1>1. pc[t] # "idle"
  BY NotWriting DEF Raises, Writing
<1>2. mem \in Instance \/ mem = Unloaded
  BY PlacedFacts
<1> QED BY <1>1, <1>2, Keeps, EndsStep DEF Raises

LEMMA KnownIs ==
  ASSUME InstanceAssumption, InstanceShape
  PROVE  /\ Known \in Instance /\ Known.state \in States
         /\ mem.state \in Terminal => Known.state = mem.state
         /\ mem.state = "NONE" => Known.state = row.state
         /\ mem.state # "NONE" => Known = mem
<1>1. mem.state = "NONE" => Known = row
  BY DEF Known
<1>2. mem.state # "NONE" => Known = mem /\ mem \in Instance
  BY PlacedFacts DEF Known
<1> QED BY <1>1, <1>2, PlacedFacts, Fields, StatesAre

LEMMA DecideShape ==
  ASSUME InstanceAssumption, InstanceShape, NEW c \in Caller, NEW g \in Gates,
         NEW n \in DOMAIN tickets[g], NEW verdict \in {"APPROVED", "REJECTED"},
         Decide(c, g, n, verdict)
  PROVE  InstanceShape' /\ Lawful
<1>1. /\ c \in Task /\ c # Boot /\ pc[Boot] = "idle" /\ pc[c] = "idle" /\ pc[c] \notin Writing
  BY CallerIs, NotWriting DEF Decide, Up
<1> DEFINE w == IF verdict = "APPROVED" THEN "approved" ELSE "refused"
<1>2. /\ w \in Waits \ Writing /\ Role(c, w) /\ w # "down"
      /\ w \in {"idle", "approved", "refused"}
  BY NotWriting, CallerIs DEF CallerAt
<1>3. Goto(c, w) /\ UNCHANGED writes /\ mem' = mem /\ row' = row
  BY DEF Decide
<1>4. RestTyped'
  <2> DEFINE S == {"PENDING", "APPROVED", "REJECTED"}
  <2>1. tickets \in [Gates -> Seq(S)] /\ tickets[g] \in Seq(S)
    BY ShapeParts DEF RestTyped
  <2>2. [tickets[g] EXCEPT ![n] = verdict] \in Seq(S)
    <3>1. verdict \in S
      OBVIOUS
    <3> HIDE DEF S
    <3> QED BY <2>1, <3>1, ExceptSeq
  <2>3. tickets' = [tickets EXCEPT ![g] = [tickets[g] EXCEPT ![n] = verdict]]
    BY DEF Decide
  <2>4. tickets' \in [Gates -> Seq(S)]
    <3> HIDE DEF S
    <3> QED BY <2>1, <2>2, <2>3
  <2> QED BY <2>4, ShapeParts DEF Decide, RestTyped, ledger, limits
<1> HIDE DEF w
<1> QED BY <1>1, <1>2, <1>3, <1>4, Keeps, GoesStep

LEMMA StepOverShape ==
  ASSUME InstanceAssumption, InstanceShape, NEW c \in Caller, StepOver(c)
  PROVE  InstanceShape' /\ Lawful
<1>1. /\ c \in Task /\ pc[c] = "approved" /\ pc[c] \notin Writing
  BY CallerIs, NotWriting DEF StepOver
<1> DEFINE m == [Known EXCEPT !.index = @ + 1]
<1>2. m \in Instance /\ m.state = Known.state
  <2>1. Known \in Instance /\ Known.index + 1 \in Nat \ {0}
    BY KnownIs, Fields
  <2> QED BY <2>1, Fields
<1>3. Update(c, "stepping", m) /\ row' = row
  BY DEF StepOver
<1>4. "stepping" \in Writing /\ Role(c, "stepping")
  BY CallerIs DEF Writing, Updating, CallerAt
<1>5. RestTyped'
  BY ShapeParts DEF StepOver, RestTyped, limits, ledger
<1> HIDE DEF m
<1> QED BY <1>1, <1>2, <1>3, <1>4, <1>5, KnownIs, IssuesStep

LEMMA ResumingStep ==
  ASSUME InstanceAssumption, InstanceShape, NEW c \in Caller, NEW m \in Instance,
         Resuming(c, m), pc[c] # "idle" \/ pc[Boot] = "idle",
         mem.state \in Terminal => m.state = mem.state,
         mem.state = "NONE" => m.state = row.state,
         row' = row \/ (pc[c] \in Writing /\ Commit(c)), RestTyped'
  PROVE  InstanceShape' /\ Lawful
<1>1. c \in Task /\ c # Boot
  BY CallerIs
<1>2. "resolving" \in Waits \ Writing /\ Role(c, "resolving")
  BY NotWriting, CallerIs DEF CallerAt
<1>3. Goto(c, "resolving") /\ Written(c) /\ m.state \in Active
  BY DEF Resuming
<1> DEFINE s == IF m.state = "WAITING" THEN "APPROVED" ELSE m.state
<1>4. mem' \in Instance
  <2>1. s \in States /\ mem' = [m EXCEPT !.state = s]
    BY <1>3, StatesAre DEF Resuming
  <2> HIDE DEF s
  <2> QED BY <2>1, Fields
<1>5. Sticky
  BY <1>3, StatesAre DEF Sticky
<1> QED BY <1>1, <1>2, <1>3, <1>4, <1>5, GoesStep

LEMMA SteppedOverShape ==
  ASSUME InstanceAssumption, InstanceShape, NEW c \in Caller, SteppedOver(c)
  PROVE  InstanceShape' /\ Lawful
<1>1. c \in Task /\ pc[c] = "stepping" /\ pc[c] \in Writing /\ pc[c] # "idle" /\ mem \in Instance
  BY LoadedAt, CallerIs DEF SteppedOver, Writing, Updating
<1> DEFINE m == [mem EXCEPT !.version = buf[c].version + 1]
<1>2. m \in Instance /\ m.state = mem.state
  <2>1. buf[c].version + 1 \in Nat
    BY <1>1, PlacedFacts
  <2> QED BY <1>1, <2>1, Fields
<1>3. Commit(c) /\ mem.state # "NONE"
  BY <1>1, Fields DEF SteppedOver
<1>4. CASE Resuming(c, m)
  <2>1. RestTyped'
    BY <1>4, ShapeParts DEF SteppedOver, Resuming, RestTyped, ledger, limits
  <2> HIDE DEF m
  <2> QED BY <1>1, <1>2, <1>3, <1>4, <2>1, ResumingStep
<1>5. CASE mem' = m /\ Ends(c)
  <2>1. Sticky /\ UNCHANGED <<tickets, ledger, limits>>
    BY <1>2, <1>5, Keeps DEF SteppedOver
  <2> HIDE DEF m
  <2> QED BY <1>1, <1>2, <1>3, <1>5, <2>1, EndsStep
<1> QED BY <1>4, <1>5 DEF SteppedOver

LEMMA ResumeByHandShape ==
  ASSUME InstanceAssumption, InstanceShape, NEW c \in Caller, ResumeByHand(c)
  PROVE  InstanceShape' /\ Lawful
<1>1. RestTyped'
  <2>1. resumes' \in 0..MaxResumes
    BY ShapeParts DEF ResumeByHand, RestTyped, InstanceAssumption
  <2> QED BY <2>1, ShapeParts DEF ResumeByHand, Resuming, RestTyped, ledger
<1>2. Resuming(c, Known) /\ pc[Boot] = "idle" /\ row' = row
  BY DEF ResumeByHand, Up
<1> QED BY <1>1, <1>2, KnownIs, ResumingStep

LEMMA ResolvedShape ==
  ASSUME InstanceAssumption, InstanceShape, NEW c \in Caller, Resolved(c)
  PROVE  InstanceShape' /\ Lawful
<1>1. /\ c \in Task /\ pc[c] = "resolving" /\ pc[c] \notin Writing /\ mem \in Instance
      /\ mem.state # "NONE"
  BY LoadedAt, CallerIs, NotWriting DEF Resolved
<1>2. Update(c, "resuming", mem) /\ row' = row
  BY DEF Resolved
<1>3. "resuming" \in Writing /\ Role(c, "resuming")
  BY CallerIs DEF Writing, Updating, CallerAt
<1>4. RestTyped'
  BY ShapeParts DEF Resolved, RestTyped, limits, ledger
<1> QED BY <1>1, <1>2, <1>3, <1>4, IssuesStep

LEMMA RefuseShape ==
  ASSUME InstanceAssumption, InstanceShape, NEW c \in Caller, Refuse(c)
  PROVE  InstanceShape' /\ Lawful
<1>1. c \in Task /\ pc[c] = "refused" /\ pc[c] \notin Writing
  BY CallerIs, NotWriting DEF Refuse
<1>2. CASE Known.state \in Active \cup {"FAILED"}
  <2> DEFINE m == [Known EXCEPT !.state = "FAILED"]
  <2>1. m \in Instance /\ m.state = "FAILED"
    BY KnownIs, Fields, StatesAre
  <2>2. Update(c, "refusing", m) /\ row' = row /\ UNCHANGED <<step, tracked, original>>
    BY <1>2 DEF Refuse
  <2>3. "refusing" \in Writing /\ Role(c, "refusing")
    BY CallerIs DEF Writing, Updating, CallerAt
  <2>4. RestTyped'
    BY <2>2, ShapeParts DEF Refuse, RestTyped, limits, ledger
  <2>5. /\ mem.state \in Terminal => m.state = mem.state
        /\ mem.state = "NONE" => row.state \notin Terminal \/ m.state = row.state
    BY <1>2, <2>1, KnownIs, StatesAre
  <2> HIDE DEF m
  <2> QED BY <1>1, <2>1, <2>2, <2>3, <2>4, <2>5, IssuesStep
<1>3. CASE Known.state \notin Active \cup {"FAILED"}
  <2>1. mem' = Known /\ Ends(c)
    BY <1>3 DEF Refuse
  <2>2. Sticky
    BY <2>1, KnownIs DEF Sticky
  <2> QED BY <1>1, <2>1, <2>2, KnownIs, EndsStep DEF Refuse
<1> QED BY <1>2, <1>3

LEMMA RefusedShape ==
  ASSUME InstanceAssumption, InstanceShape, NEW t \in Caller \cup {Boot}, Refused(t)
  PROVE  InstanceShape' /\ Lawful
<1>1. /\ t \in Task /\ t \notin Runner /\ pc[t] = "refusing" /\ pc[t] \in Writing
      /\ mem \in Instance
  BY LoadedAt, CallerIs, BootIs DEF Refused, Writing, Updating
<1> DEFINE m == [mem EXCEPT !.version = buf[t].version + 1]
<1>2. m \in Instance /\ m.state = mem.state
  <2>1. buf[t].version + 1 \in Nat
    BY <1>1, PlacedFacts
  <2> QED BY <1>1, <2>1, Fields
<1>3. Commit(t) /\ Unwind(t, m) /\ UNCHANGED <<tickets, ran, limits>>
  BY DEF Refused
<1> HIDE DEF m
<1> QED BY <1>1, <1>2, <1>3, UnwindStep

LEMMA CancelledShape ==
  ASSUME InstanceAssumption, InstanceShape, NEW c \in Caller, Cancelled(c)
  PROVE  InstanceShape' /\ Lawful
<1>1. c \in Task /\ pc[c] = "cancelling" /\ pc[c] \in Writing
  BY CallerIs DEF Cancelled, Writing, Updating
<1>2. mem' \in Instance /\ Sticky
  BY <1>1, Acknowledging DEF Cancelled, Acknowledged
<1> QED BY <1>1, <1>2, EndsStep DEF Cancelled

LEMMA CutOffShape ==
  ASSUME InstanceAssumption, InstanceShape, NEW c \in Caller, CutOff(c)
  PROVE  InstanceShape' /\ Lawful
<1>1. c \in Task /\ pc[c] # "idle" /\ (pc[c] \in Updating => pc[c] \in Writing)
  BY CallerIs DEF CutOff, Writing
<1>2. mem \in Instance \/ mem = Unloaded
  BY PlacedFacts
<1> QED BY <1>1, <1>2, Keeps, EndsStep DEF CutOff

LEMMA ResumedShape ==
  ASSUME InstanceAssumption, InstanceShape, NEW t \in Caller \cup {Boot}, Resumed(t)
  PROVE  InstanceShape' /\ Lawful
<1>1. /\ t \in Task /\ t \notin Runner /\ pc[t] \in {"resuming", "reviving"}
      /\ pc[t] \in Writing /\ mem \in Instance /\ pc[t] # "idle"
  BY LoadedAt, CallerIs, BootIs DEF Resumed, Writing, Updating
<1>2. PICK r \in Runner : /\ Spawn(r)
                          /\ pc' = [pc EXCEPT ![t] = "idle", ![r] = "top"]
  BY DEF Resumed
<1>3. r \in Task /\ r # t /\ pc[r] = "idle" /\ r # Boot /\ r \notin Caller
  BY <1>1, <1>2, RunnerIs DEF Spawn
<1>4. /\ queue' \in Seq(Task) /\ Once(queue')
      /\ \A u : Within(queue', u) <=> Within(queue, u) /\ u # t
      /\ \A u, v : Ahead(queue', u, v) => Ahead(queue, u, v)
  BY WithoutEffect, ShapeParts DEF Pending, Resumed, Written
<1>5. /\ buf' \in [Task -> [state : States \cup {"NONE"}, version : Nat]]
      /\ \A u \in Task : u # t => buf'[u] = buf[u]
  BY ShapeParts DEF Pending, Resumed, Written, Empty
<1>6. /\ pc' \in [Task -> Waits] /\ pc'[t] = "idle" /\ pc'[r] = "top"
      /\ \A u \in Task : u \notin {t, r} => pc'[u] = pc[u]
  BY <1>1, <1>2, <1>3, NotWriting, ShapeParts DEF Pending
<1>7. Pending'
  <2>1. \A u \in Task : pc'[u] \in Writing <=> pc[u] \in Writing /\ u # t
    BY <1>3, <1>6, NotWriting
  <2> QED BY <1>4, <1>5, <1>6, <2>1, ShapeParts DEF Pending
<1>8. mem' \in Instance /\ mem'.state = mem.state /\ Sticky /\ mem' # Unloaded
  BY <1>1, Acknowledging, Fields DEF Resumed, Acknowledged
<1>9. Placed'
  <2>1. \A u \in Task : Role(u, pc'[u])
    <3>1. Role(t, "idle") /\ Role(r, "top")
      BY <1>1, RunnerIs, CallerIs, BootIs DEF RunnerAt, CallerAt, BootAt
    <3> QED BY <1>6, <3>1, ShapeParts DEF Placed
  <2>2. pc'[Boot] = "idle"
    <3>1. CASE t = Boot
      BY <1>6, <3>1
    <3>2. CASE t # Boot
      BY <1>1, <1>3, <1>6, <3>2, BootIs, ShapeParts DEF Placed
    <3> QED BY <3>1, <3>2
  <2>3. /\ pc'[Boot] # "idle" => \A u \in Runner \cup Caller : pc'[u] = "idle"
        /\ pc'[Boot] = "down" => mem' = Unloaded
        /\ mem' = Unloaded => \A u \in Task : pc'[u] \in {"idle", "down", "approved", "refused"}
    BY <1>8, <2>2
  <2> QED BY <2>1, <2>3 DEF Placed, Role
<1>10. row' \in Instance /\ row'.state = buf[t].state /\ Turn(t) /\ Within(queue, t)
  BY <1>1, CommitTyped, PlacedFacts DEF Resumed, Commit
<1>11. Lawful
  <2>1. \A u, v \in Task : Ahead(queue', u, v) =>
          Ahead(queue, u, v) /\ buf'[u] = buf[u] /\ buf'[v] = buf[v]
    BY <1>4, <1>5, AheadWithin
  <2> QED BY <1>1, <1>4, <1>5, <1>8, <1>10, <2>1 DEF Lawful, Sticky
<1>12. RestTyped'
  BY <1>2, ShapeParts DEF Resumed, Spawn, RestTyped, ledger, limits
<1> QED BY <1>7, <1>8, <1>9, <1>10, <1>11, <1>12, ShapePartsNext

LEMMA CancelShape ==
  ASSUME InstanceAssumption, InstanceShape, NEW c \in Caller, Cancel(c)
  PROVE  InstanceShape' /\ Lawful
<1>1. /\ c \in Task /\ c # Boot /\ c \notin Runner /\ pc[Boot] = "idle" /\ pc[c] = "idle"
      /\ ~Within(queue, c) /\ c # tracked /\ Known.state \in Active /\ tracked # Boot
  <2>1. c \in Task /\ c # Boot /\ c \notin Runner /\ pc[c] \notin Writing
    BY CallerIs, NotWriting DEF Cancel
  <2>2. c # tracked /\ tracked # Boot
    BY CallerIs, BootIs, ShapeParts DEF RestTyped, InstanceAssumption
  <2> QED BY <2>1, <2>2, PlacedFacts DEF Cancel, Up
<1>2. mem' \in Instance /\ mem'.state = "CANCELLED" /\ mem' # Unloaded
  BY KnownIs, Fields, StatesAre DEF Cancel
<1>3. Sticky
  BY <1>1, <1>2, KnownIs, StatesAre DEF Sticky
<1>4. /\ pc' \in [Task -> Waits]
      /\ pc'[c] = "cancelling"
      /\ \A t \in Task : t # c => pc'[t] = IF t = tracked THEN "idle" ELSE pc[t]
  <2>1. "cancelling" \in Waits /\ "idle" \in Waits
    BY DEF Waits, Updating
  <2> QED BY <1>1, <2>1, ShapeParts DEF Cancel, Pending
<1>5. /\ buf' \in [Task -> [state : States \cup {"NONE"}, version : Nat]]
      /\ buf'[c].state = "CANCELLED"
      /\ \A t \in Task : t # c /\ t # tracked => buf'[t] = buf[t]
  <2>1. [state |-> "CANCELLED", version |-> Known.version] \in
            [state : States \cup {"NONE"}, version : Nat]
    BY KnownIs, Fields, StatesAre
  <2>2. Empty \in [state : States \cup {"NONE"}, version : Nat]
    BY DEF Empty
  <2> DEFINE W == [state : States \cup {"NONE"}, version : Nat]
  <2>3. \A t \in Task : buf[t] \in W
    BY ShapeParts DEF Pending
  <2>4. buf' \in [Task -> W]
    <3> HIDE DEF W
    <3> QED BY <2>1, <2>2, <2>3 DEF Cancel, W
  <2>5. buf'[c].state = "CANCELLED" /\ \A t \in Task : t # c /\ t # tracked => buf'[t] = buf[t]
    BY <1>1 DEF Cancel
  <2> QED BY <2>4, <2>5
<1> DEFINE q == Without(tracked)
<1>6. /\ q \in Seq(Task) /\ Once(q)
      /\ \A u : Within(q, u) <=> Within(queue, u) /\ u # tracked
      /\ \A u, v : Ahead(q, u, v) => Ahead(queue, u, v)
  BY WithoutEffect, ShapeParts DEF Pending
<1>7. queue' = Append(q, c)
  BY DEF Cancel
<1> HIDE DEF q
<1>8. /\ queue' \in Seq(Task) /\ Once(queue')
      /\ \A u : Within(queue', u) <=> Within(q, u) \/ u = c
      /\ \A u, v : Ahead(queue', u, v) => Ahead(q, u, v) \/ (Within(q, u) /\ v = c)
  <2>1. ~Within(q, c)
    BY <1>1, <1>6
  <2> QED BY <1>1, <1>6, <1>7, <2>1, AppendEffect
<1>9. Pending'
  <2>1. \A t \in Task : Within(queue', t) <=> pc'[t] \in Writing
    <3>1. "cancelling" \in Writing /\ "idle" \notin Writing
      BY NotWriting DEF Writing, Updating
    <3> QED BY <1>1, <1>4, <1>6, <1>8, <3>1, PlacedFacts
  <2>2. \A t \in Task : pc'[t] \in Writing => buf'[t].state \in States
    <3>1. "idle" \notin Writing
      BY NotWriting
    <3> QED BY <1>1, <1>4, <1>5, <3>1, PlacedFacts, StatesAre
  <2> QED BY <1>4, <1>5, <1>8, <2>1, <2>2 DEF Pending
<1>10. Placed'
  <2>1. \A t \in Task : Role(t, pc'[t])
    <3>1. Role(c, "cancelling") /\ (tracked \in Task => Role(tracked, "idle"))
      BY CallerIs, RunnerIs, ShapeParts DEF CallerAt, RunnerAt, RestTyped, InstanceAssumption, Task
    <3> QED BY <1>4, <3>1, ShapeParts DEF Placed
  <2>2. pc'[Boot] = "idle"
    BY <1>1, <1>4, BootIs
  <2>3. /\ pc'[Boot] # "idle" => \A u \in Runner \cup Caller : pc'[u] = "idle"
        /\ pc'[Boot] = "down" => mem' = Unloaded
        /\ mem' = Unloaded => \A u \in Task : pc'[u] \in {"idle", "down", "approved", "refused"}
    BY <1>2, <2>2
  <2> QED BY <2>1, <2>3 DEF Placed, Role
<1>11. PICK committed \in BOOLEAN : StopTracked(committed)
  BY DEF Cancel
<1>12. /\ row' = row \/ (tracked \in Task /\ pc[tracked] \in Writing /\ Commit(tracked))
       /\ \/ tickets' = tickets
          \/ tracked \in Task
             /\ tickets' = [tickets EXCEPT ![step[tracked]] = Append(@, "PENDING")]
  <2>1. tracked # NoTask => tracked \in Task
    BY RunnerIs, ShapeParts DEF RestTyped
  <2> QED BY <1>11, <2>1 DEF StopTracked, Writing
<1>13. /\ row' \in Instance
       /\ row' = row \/ \E t \in Task : /\ Within(queue, t) /\ Turn(t)
                                        /\ row'.state = buf[t].state
  BY <1>12, CommitTyped, PlacedFacts DEF Commit
<1>14. Lawful
  <2>1. \A t \in Task : Within(queue', t) =>
          \/ Within(queue, t) /\ buf'[t] = buf[t]
          \/ buf'[t].state = mem'.state
    BY <1>1, <1>2, <1>5, <1>6, <1>8
  <2>2. \A t, u \in Task : Ahead(queue', t, u) =>
          \/ Ahead(queue, t, u) /\ buf'[t] = buf[t] /\ buf'[u] = buf[u]
          \/ Within(queue, t) /\ buf'[t] = buf[t] /\ buf'[u].state = mem'.state
    <3>1. \A t \in Task : Within(q, t) => Within(queue, t) /\ buf'[t] = buf[t]
      BY <1>1, <1>5, <1>6
    <3>2. \A t, u \in Task : Ahead(q, t, u) =>
            Ahead(queue, t, u) /\ buf'[t] = buf[t] /\ buf'[u] = buf[u]
      BY <1>6, <3>1, AheadWithin
    <3> QED BY <1>2, <1>5, <1>8, <3>1, <3>2
  <2> QED BY <1>3, <1>13, <2>1, <2>2 DEF Lawful, Sticky
<1>15. RestTyped'
  <2>1. step' \in [Task -> 0..Steps]
    BY ShapeParts DEF Cancel, RestTyped, InstanceAssumption
  <2>2. tickets' \in [Gates -> Seq({"PENDING", "APPROVED", "REJECTED"})]
    <3>1. CASE tickets' = tickets
      BY <3>1, ShapeParts DEF RestTyped
    <3>2. CASE tracked \in Task
               /\ tickets' = [tickets EXCEPT ![step[tracked]] = Append(@, "PENDING")]
      <4>1. step[tracked] \in Nat
        BY <3>2, ShapeParts DEF RestTyped, InstanceAssumption
      <4> QED BY <3>2, <4>1, ShapeParts, TicketAdded
    <3> QED BY <1>12, <3>1, <3>2
  <2>3. tracked' \in Runner \cup {NoTask} /\ original' \in Runner \cup {NoTask}
    BY ShapeParts DEF Cancel, RestTyped
  <2> QED BY <2>1, <2>2, <2>3, ShapeParts DEF Cancel, RestTyped, ledger, limits
<1> QED BY <1>2, <1>9, <1>10, <1>13, <1>14, <1>15, ShapePartsNext

LEMMA CrashShape ==
  ASSUME InstanceAssumption, InstanceShape, ProcessCrash
  PROVE  /\ InstanceShape' /\ queue' = <<>> /\ mem' = Unloaded /\ row' = row
         /\ \A t \in Task : ~Within(queue', t)
<1>1. queue' = <<>> /\ mem' = Unloaded /\ row' = row /\ row \in Instance
  BY PlacedFacts DEF ProcessCrash
<1>2. Pending'
  <2>1. pc' \in [Task -> Waits] /\ \A t \in Task : pc'[t] \in {"down", "idle"}
    BY NotWriting DEF ProcessCrash
  <2>2. buf' \in [Task -> [state : States \cup {"NONE"}, version : Nat]]
    BY DEF ProcessCrash, Empty
  <2>3. queue' \in Seq(Task) /\ Once(queue') /\ \A t \in Task : ~Within(queue', t)
    BY <1>1 DEF Once, Within
  <2> QED BY <2>1, <2>2, <2>3, NotWriting DEF Pending
<1>3. Placed'
  <2>1. /\ \A t \in Runner \cup Caller : t \in Task /\ t # Boot
        /\ \A t \in Task : pc'[t] = IF t = Boot THEN "down" ELSE "idle"
    BY RunnerIs, CallerIs DEF ProcessCrash
  <2>2. \A t \in Task : Role(t, pc'[t])
    BY <2>1 DEF Role, Task, RunnerAt, CallerAt, BootAt
  <2> QED BY <1>1, <2>1, <2>2 DEF Placed, Role
<1>4. RestTyped'
  <2>1. step' \in [Task -> 0..Steps]
    BY DEF ProcessCrash, InstanceAssumption
  <2>2. crashes' \in 0..MaxCrashes
    BY ShapeParts DEF ProcessCrash, RestTyped, InstanceAssumption
  <2> QED BY <2>1, <2>2, ShapeParts DEF ProcessCrash, RestTyped, ledger
<1>5. \A t \in Task : ~Within(queue', t)
  BY <1>1 DEF Within
<1> QED BY <1>1, <1>2, <1>3, <1>4, <1>5, ShapePartsNext

LEMMA FailAtBootShape ==
  ASSUME InstanceAssumption, InstanceShape, FailAtBoot
  PROVE  InstanceShape' /\ Lawful
<1>1. /\ Boot \in Task /\ pc[Boot] = "down" /\ pc[Boot] \notin Writing
      /\ mem = Unloaded /\ mem.state = "NONE" /\ row \in Instance
  BY BootIs, NotWriting, PlacedFacts, ShapeParts DEF FailAtBoot, Placed
<1> DEFINE m == [row EXCEPT !.state = "FAILED"]
<1>2. m \in Instance
  BY <1>1, Fields, StatesAre
<1>3. Update(Boot, "abandoning", m) /\ row' = row /\ row.state \in Active
  BY DEF FailAtBoot
<1>4. "abandoning" \in Writing /\ Role(Boot, "abandoning")
  BY BootIs DEF Writing, Updating, BootAt
<1>5. RestTyped'
  BY ShapeParts DEF FailAtBoot, RestTyped, limits, ledger
<1> HIDE DEF m
<1> QED BY <1>1, <1>2, <1>3, <1>4, <1>5, StatesAre, IssuesStep

LEMMA FailedAtBootShape ==
  ASSUME InstanceAssumption, InstanceShape, FailedAtBoot
  PROVE  InstanceShape' /\ Lawful
<1>1. Boot \in Task /\ pc[Boot] = "abandoning" /\ pc[Boot] \in Writing
  BY BootIs DEF FailedAtBoot, Writing, Updating
<1>2. mem' \in Instance /\ Sticky
  BY <1>1, Acknowledging DEF FailedAtBoot, Acknowledged
<1> QED BY <1>1, <1>2, EndsStep DEF FailedAtBoot

LEMMA HydrateShape ==
  ASSUME InstanceAssumption, InstanceShape, Hydrate
  PROVE  InstanceShape' /\ Lawful
<1>1. /\ Boot \in Task /\ pc[Boot] = "down" /\ pc[Boot] \notin Writing
      /\ mem = Unloaded /\ mem.state = "NONE" /\ row \in Instance
      /\ \A u \in Runner \cup Caller : pc[u] = "idle"
  BY BootIs, NotWriting, PlacedFacts, ShapeParts DEF Hydrate, Placed
<1>2. row' = row /\ UNCHANGED <<step, ledger, limits>>
  BY DEF Hydrate
<1>3. /\ "idle" \in Waits \ Writing /\ Role(Boot, "idle") /\ "idle" # "down"
      /\ "reviving" \in Writing /\ Role(Boot, "reviving")
      /\ "refusing" \in Writing /\ Role(Boot, "refusing")
  BY BootIs, NotWriting DEF BootAt, Writing, Updating
<1>4. CASE /\ row.state \in Terminal /\ Goto(Boot, "idle")
           /\ UNCHANGED <<tickets, mem, writes, tracked, original>>
  <2>1. RestTyped' /\ Sticky
    BY <1>2, <1>4, ShapeParts, Keeps DEF RestTyped, ledger, limits
  <2> QED BY <1>1, <1>2, <1>3, <1>4, <2>1, GoesStep
<1>5. CASE /\ row.state \in {"RUNNING", "APPROVED"} /\ mem' = row
           /\ \E r \in Runner :
                Spawn(r) /\ pc' = [pc EXCEPT ![Boot] = "idle", ![r] = "top"]
           /\ UNCHANGED <<tickets, writes>>
  <2>1. PICK r \in Runner : Spawn(r) /\ pc' = [pc EXCEPT ![Boot] = "idle", ![r] = "top"]
    BY <1>5
  <2>2. r \in Task /\ r # Boot
    BY RunnerIs
  <2>3. /\ pc' \in [Task -> Waits] /\ pc'[Boot] = "idle" /\ pc'[r] = "top"
        /\ \A u \in Task : u \notin {Boot, r} => pc'[u] = pc[u]
    BY <1>1, <2>1, <2>2, NotWriting, ShapeParts DEF Pending
  <2>4. buf' = buf /\ queue' = queue
    BY <1>5 DEF writes
  <2>5. Pending'
    <3>1. \A u \in Task : pc'[u] \in Writing <=> pc[u] \in Writing
      BY <1>1, <2>1, <2>2, <2>3, NotWriting DEF Spawn
    <3> QED BY <2>3, <2>4, <3>1, ShapeParts DEF Pending
  <2>6. mem' \in Instance /\ mem' # Unloaded
    BY <1>1, <1>5, Fields
  <2>7. Placed'
    <3>1. \A u \in Task : Role(u, pc'[u])
      <4>1. Role(r, "top")
        BY RunnerIs DEF RunnerAt
      <4> QED BY <1>3, <2>3, <4>1, ShapeParts DEF Placed
    <3> QED BY <2>3, <2>6, <3>1 DEF Placed, Role
  <2>8. Lawful
    BY <1>1, <1>2, <1>5, <2>4, AheadWithin, StatesAre DEF Lawful
  <2>9. RestTyped'
    BY <1>2, <1>5, <2>1, ShapeParts DEF Spawn, RestTyped, ledger, limits
  <2> QED BY <1>1, <1>2, <2>5, <2>6, <2>7, <2>8, <2>9, ShapePartsNext
<1>6. CASE /\ row.state = "WAITING"
           /\ Latest \in {"NO GATE", "NO TICKET", "PENDING"}
           /\ mem' = row
           /\ tickets' = IF Latest = "NO TICKET"
                         THEN [tickets EXCEPT ![row.at] = <<"PENDING">>]
                         ELSE tickets
           /\ Goto(Boot, "idle")
           /\ UNCHANGED <<writes, tracked, original>>
  <2>1. tickets' \in [Gates -> Seq({"PENDING", "APPROVED", "REJECTED"})]
    <3>1. <<"PENDING">> \in Seq({"PENDING", "APPROVED", "REJECTED"})
      OBVIOUS
    <3>2. tickets \in [Gates -> Seq({"PENDING", "APPROVED", "REJECTED"})]
      BY ShapeParts DEF RestTyped
    <3> QED BY <1>6, <3>1, <3>2
  <2>2. RestTyped'
    BY <1>2, <1>6, <2>1, ShapeParts DEF RestTyped, ledger, limits
  <2>3. Sticky
    BY <1>1, <1>6, StatesAre DEF Sticky
  <2> QED BY <1>1, <1>2, <1>3, <1>6, <2>2, <2>3, GoesStep
<1>7. CASE /\ row.state = "WAITING" /\ Latest = "APPROVED"
           /\ Update(Boot, "reviving", [row EXCEPT !.index = @ + 1])
           /\ UNCHANGED <<tickets, tracked, original>>
  <2> DEFINE m == [row EXCEPT !.index = @ + 1]
  <2>1. m \in Instance /\ m.state = row.state
    <3>1. row.index + 1 \in Nat \ {0}
      BY <1>1, Fields
    <3> QED BY <1>1, <3>1, Fields
  <2>2. RestTyped'
    BY <1>2, <1>7, ShapeParts DEF RestTyped, ledger, limits
  <2> HIDE DEF m
  <2>3. Update(Boot, "reviving", m)
    BY <1>7 DEF m
  <2> QED BY <1>1, <1>2, <1>3, <2>1, <2>2, <2>3, StatesAre, IssuesStep
<1>8. CASE /\ row.state = "WAITING" /\ Latest = "REJECTED"
           /\ Update(Boot, "refusing", [row EXCEPT !.state = "FAILED"])
           /\ UNCHANGED <<tickets, tracked, original>>
  <2> DEFINE m == [row EXCEPT !.state = "FAILED"]
  <2>1. m \in Instance /\ m.state = "FAILED"
    BY <1>1, Fields, StatesAre
  <2>2. RestTyped'
    BY <1>2, <1>8, ShapeParts DEF RestTyped, ledger, limits
  <2>3. Update(Boot, "refusing", m)
    BY <1>8
  <2> HIDE DEF m
  <2> QED BY <1>1, <1>2, <1>3, <1>8, <2>1, <2>2, <2>3, StatesAre, IssuesStep
<1> QED BY <1>4, <1>5, <1>6, <1>7, <1>8 DEF Hydrate

LEMMA ShapeStep ==
  ASSUME InstanceAssumption, InstanceShape, InstanceNext
  PROVE  InstanceShape' /\ (Lawful \/ ProcessCrash)
<1>1. ASSUME NEW r \in Runner, RunnerStep(r) PROVE InstanceShape' /\ Lawful
  BY <1>1, TakeStepShape, ReenterShape, ReenteredShape, CompleteShape, LeaveShape, WorkShape,
     AdvancedShape, WorkFailsShape, ForbiddenShape, AskShape, WaitShape, SettledShape
     DEF RunnerStep
<1>2. ASSUME NEW c \in Caller, CallStep(c) PROVE InstanceShape' /\ Lawful
  BY <1>2, DecideShape, StepOverShape, SteppedOverShape, ResumeByHandShape, ResolvedShape,
     RefuseShape, CancelShape, CancelledShape, CutOffShape DEF CallStep
<1>3. ASSUME NEW t \in Task, Compensate(t) \/ Conflict(t) \/ Raises(t)
      PROVE  InstanceShape' /\ Lawful
  BY <1>3, CompensateShape, ConflictShape, RaisesShape
<1>4. ASSUME NEW t \in Caller \cup {Boot}, Resumed(t) \/ Refused(t)
      PROVE  InstanceShape' /\ Lawful
  BY <1>4, ResumedShape, RefusedShape
<1> QED BY <1>1, <1>2, <1>3, <1>4, CrashShape, HydrateShape, FailAtBootShape,
           FailedAtBootShape DEF InstanceNext

LEMMA ShapeUnchanged ==
  ASSUME InstanceShape, UNCHANGED instanceVars PROVE InstanceShape'
BY DEF InstanceShape, InstanceTypeOK, Pending, Placed, Role, instanceVars, proc, writes,
       ledger, limits

LEMMA ShapeInit == ASSUME InstanceAssumption, InstanceInit PROVE InstanceShape
<1>1. row \in Instance /\ mem \in Instance
  <2>1. <<>> \in Seq(Undoable)
    OBVIOUS
  <2>2. 0 \in 0..Steps
    BY DEF InstanceAssumption
  <2> QED BY <2>1, <2>2 DEF InstanceInit, Started, Instance, Active, Terminal
<1>2. RestTyped
  <2>1. <<>> \in Seq({"PENDING", "APPROVED", "REJECTED"})
    OBVIOUS
  <2> QED BY <2>1 DEF InstanceInit, RestTyped, InstanceAssumption
<1>3. /\ original \in Runner /\ original \in Task
      /\ \A t \in Task : pc[t] = IF t = original THEN "top" ELSE "idle"
  BY RunnerIs DEF InstanceInit
<1>4. Pending
  <2>1. pc \in [Task -> Waits] /\ \A t \in Task : pc[t] \notin Writing
    BY <1>3, NotWriting DEF InstanceInit
  <2>2. buf \in [Task -> [state : States \cup {"NONE"}, version : Nat]]
    BY DEF InstanceInit, Empty
  <2>3. queue \in Seq(Task) /\ Once(queue) /\ \A t \in Task : ~Within(queue, t)
    BY DEF InstanceInit, Once, Within
  <2> QED BY <2>1, <2>2, <2>3 DEF Pending
<1>5. Placed
  <2>1. \A t \in Task : Role(t, pc[t])
    <3>1. Role(original, "top")
      BY <1>3, RunnerIs DEF RunnerAt
    <3>2. \A t \in Task : Role(t, "idle")
      BY DEF Role, Task, RunnerAt, CallerAt, BootAt
    <3> QED BY <1>3, <3>1, <3>2
  <2>2. pc[Boot] = "idle"
    BY <1>3, BootIs
  <2>3. mem # Unloaded
    BY <1>1, Fields
  <2> QED BY <2>1, <2>2, <2>3 DEF Placed
<1> QED BY <1>1, <1>2, <1>4, <1>5, ShapeParts

\* The instance, its tasks and their writes have their types; a task with a pending
\* write waits for it, the boot is at work alone, and nothing runs on an instance
\* that is not loaded.
THEOREM InstanceShapeAlways == InstanceSpec => []InstanceShape
<1>1. InstanceInit => InstanceShape
  BY InstanceAssumption, ShapeInit
<1>2. InstanceShape /\ [InstanceNext]_instanceVars => InstanceShape'
  BY InstanceAssumption, ShapeStep, ShapeUnchanged
<1> QED BY <1>1, <1>2, PTL DEF InstanceSpec

-----------------------------------------------------------------------------
(* The workflow instance: terminal states are final *)

\* Behind a pending write of a terminal state only writes of that state wait, the
\* object has that state, and once the row has it nothing else is left.
Finality ==
  /\ \A t, u \in Task : Ahead(queue, t, u) /\ buf[t].state \in Terminal =>
                          buf[u].state = buf[t].state
  /\ \A t \in Task : Within(queue, t) /\ buf[t].state \in Terminal =>
                       mem.state = buf[t].state
  /\ row.state \in Terminal =>
       /\ mem.state \in {row.state, "NONE"}
       /\ \A t \in Task : Within(queue, t) => buf[t].state = row.state

LEMMA HeadFirst ==
  ASSUME Pending, NEW t \in Task, NEW u \in Task, Within(queue, t), Within(queue, u),
         Head(queue) = t, u # t
  PROVE  Ahead(queue, t, u)
<1>1. /\ queue \in Seq(Task) /\ DOMAIN queue = 1..Len(queue) /\ Len(queue) \in Nat
  BY DEF Pending
<1>2. PICK n \in DOMAIN queue : queue[n] = u
  BY DEF Within
<1>3. 1 \in DOMAIN queue /\ queue[1] = t
  BY <1>1, <1>2
<1>4. 1 < n
  BY <1>1, <1>2, <1>3
<1> QED BY <1>2, <1>3, <1>4 DEF Ahead

LEMMA WritesLoaded ==
  InstanceShape => \A t \in Task : Within(queue, t) => mem.state # "NONE"
BY InstanceAssumption, PlacedFacts, Fields
LEMMA WritesLoadedNext ==
  (InstanceShape => \A t \in Task : Within(queue, t) => mem.state # "NONE")'
BY WritesLoaded, PTL

LEMMA FinalityStep ==
  ASSUME InstanceAssumption, Serial, InstanceShape, InstanceShape', Finality, Lawful
  PROVE  Finality' /\ (row.state \in Terminal => row'.state = row.state)
<1>1. \A t \in Task : Within(queue', t) => mem'.state # "NONE"
  BY WritesLoadedNext
<1>2. \A t \in Task : Within(queue, t) /\ buf[t].state \in Terminal =>
        mem.state = buf[t].state /\ mem'.state = buf[t].state
  BY DEF Finality, Lawful
<1>3. \A t, u \in Task : Ahead(queue', t, u) /\ buf'[t].state \in Terminal =>
                           buf'[u].state = buf'[t].state
  BY <1>2 DEF Finality, Lawful
<1>4. \A t \in Task : Within(queue', t) /\ buf'[t].state \in Terminal =>
                        mem'.state = buf'[t].state
  BY <1>2 DEF Lawful
<1>5. row.state \in Terminal =>
        /\ row'.state = row.state
        /\ mem'.state \in {row.state, "NONE"}
        /\ \A t \in Task : Within(queue', t) => buf'[t].state = mem'.state \/ buf'[t].state = row.state
  BY DEF Finality, Lawful
<1>6. CASE row.state \in Terminal
  BY <1>1, <1>3, <1>4, <1>5, <1>6 DEF Finality
<1>7. CASE row.state \notin Terminal /\ row' = row
  BY <1>3, <1>4, <1>7 DEF Finality
<1>8. CASE row.state \notin Terminal /\ row' # row
  <2>1. PICK t \in Task : Within(queue, t) /\ Head(queue) = t /\ row'.state = buf[t].state
    BY <1>8 DEF Lawful, Turn
  <2>2. SUFFICES ASSUME buf[t].state \in Terminal
                 PROVE  /\ mem'.state = buf[t].state
                        /\ \A u \in Task : Within(queue', u) => buf'[u].state = buf[t].state
    BY <1>3, <1>4, <1>8, <2>1 DEF Finality
  <2>3. mem'.state = buf[t].state
    BY <1>2, <2>1, <2>2
  <2>4. ASSUME NEW u \in Task, Within(queue, u) PROVE buf[u].state = buf[t].state
    BY <2>1, <2>2, <2>4, HeadFirst, ShapeParts DEF Finality
  <2> QED BY <2>3, <2>4 DEF Lawful
<1> QED BY <1>6, <1>7, <1>8

\* With the lock in front of the sessions, a row that has reached a terminal state
\* keeps it, whatever is decided, cancelled, cut off, resumed or restarted.
THEOREM TerminalFinalAlways == ASSUME Serial PROVE InstanceSpec => TerminalFinal
<1>1. InstanceInit => Finality
  BY StatesAre DEF InstanceInit, Started, Finality, Ahead, Within
<1>2. /\ InstanceShape /\ InstanceShape' /\ Finality /\ [InstanceNext]_instanceVars
      => Finality' /\ (row.state \in Terminal => row'.state = row.state)
  <2> SUFFICES ASSUME InstanceShape, InstanceShape', Finality, [InstanceNext]_instanceVars
               PROVE  Finality' /\ (row.state \in Terminal => row'.state = row.state)
    OBVIOUS
  <2>1. CASE Lawful
    BY <2>1, InstanceAssumption, FinalityStep
  <2>2. CASE ProcessCrash
    <3>1. /\ queue' = <<>> /\ mem'.state = "NONE" /\ row' = row
          /\ \A t, u : ~Ahead(queue', t, u) /\ ~Within(queue', t)
      BY <2>2 DEF ProcessCrash, Unloaded, Ahead, Within
    <3> QED BY <3>1 DEF Finality
  <2>3. CASE UNCHANGED instanceVars
    BY <2>3 DEF Finality, instanceVars, proc, writes
  <2> QED BY <2>1, <2>2, <2>3, InstanceAssumption, ShapeStep
<1>3. (row.state \in Terminal => row'.state = row.state)
        => [row.state \in Terminal => row'.state = row.state]_instanceVars
  OBVIOUS
<1> QED BY <1>1, <1>2, <1>3, InstanceShapeAlways, PTL DEF InstanceSpec, TerminalFinal

-----------------------------------------------------------------------------
(* The workflow instance: the order of its steps *)

Driving == {"top", "reentering", "working", "advancing", "asking", "approved", "stepping",
            "resolving", "resuming"}

\* Of an undisturbed run one task at most will take the instance further, or the
\* ticket of the present gate will. What lies before the present step was begun
\* once and approved, what lies after it was not begun; the present step was, unless
\* the driving task is about to begin it.
Driven ==
  /\ mem # Unloaded /\ pc[Boot] = "idle"
  /\ \A i \in Step : i < mem.index => ran[i] = 1 /\ (i \in Gates => Approved(i))
  /\ \A i \in Step : i > mem.index => ran[i] = 0
  /\ \A i \in Step : ran[i] <= 1 /\ (ran[i] = 0 /\ i \in Gates => tickets[i] = <<>>)
  /\ \A t, u \in Task : pc[t] \in Driving /\ pc[u] \in Driving => t = u
  /\ \A t \in Task : pc[t] \in {"working", "asking"} =>
       /\ mem.index \in Step /\ step[t] = mem.index /\ ran[mem.index] = 1
       /\ pc[t] = "working" => mem.index \notin Gates
       /\ pc[t] = "asking" => mem.index \in Gates /\ tickets[mem.index] = <<>>
  /\ \A t \in Task : pc[t] \in Driving \ {"working", "asking", "approved"} =>
       (mem.index \in Step => ran[mem.index] = 0)
  /\ \A t \in Task : pc[t] = "reentering" => mem.index \in Step /\ step[t] = mem.index
  /\ \A t \in Task : pc[t] = "approved" =>
       mem.index \in Gates /\ ran[mem.index] = 1 /\ Approved(mem.index)
  /\ \A g \in Gates : \A n \in DOMAIN tickets[g] : tickets[g][n] = "PENDING" =>
       /\ g = mem.index /\ tickets[g] = <<"PENDING">> /\ ran[g] = 1
       /\ \A t \in Task : pc[t] \notin Driving

LEMMA FieldsKept ==
  ASSUME NEW m \in Instance
  PROVE  /\ \A s : /\ [m EXCEPT !.state = s].index = m.index
                   /\ [m EXCEPT !.state = s].stack = m.stack
         /\ \A v : /\ [m EXCEPT !.version = v].index = m.index
                   /\ [m EXCEPT !.version = v].stack = m.stack
         /\ \A i : /\ [m EXCEPT !.at = i].index = m.index
                   /\ [m EXCEPT !.at = i].stack = m.stack
         /\ \A q : [m EXCEPT !.stack = q].index = m.index /\ [m EXCEPT !.stack = q].stack = q
         /\ \A i : [m EXCEPT !.index = i].index = i /\ [m EXCEPT !.index = i].stack = m.stack
BY DEF Instance

(* A task stops driving, or goes on where it was.                          *)
LEMMA DropKeeps ==
  ASSUME InstanceShape, Driven, mem' # Unloaded, mem'.index = mem.index, pc'[Boot] = "idle",
         ran' = ran, tickets' = tickets,
         \A u \in Task : pc'[u] \in Driving => pc'[u] = pc[u] /\ step'[u] = step[u]
  PROVE  Driven'
<1>1. {"working", "asking", "reentering", "approved"} \subseteq Driving
  BY DEF Driving
<1>2. \A i : Approved(i) => Approved(i)'
  BY DEF Approved
<1> QED BY <1>1, <1>2 DEF Driven

\* One that was about to begin the present step still is, or another is in its place.
LEMMA HandKeeps ==
  ASSUME InstanceShape, Driven, mem' # Unloaded, mem'.index = mem.index, pc'[Boot] = "idle",
         ran' = ran, tickets' = tickets,
         NEW t \in Task, pc[t] \in Driving \ {"working", "asking", "approved"},
         NEW d \in Task, d # t => pc'[t] \notin Driving,
         pc'[d] \in Driving \ {"working", "asking", "approved"},
         pc'[d] = "reentering" => mem.index \in Step /\ step'[d] = mem.index,
         \A u \in Task : u \notin {t, d} => pc'[u] = pc[u]
  PROVE  Driven'
<1>1. {"working", "asking", "reentering", "approved"} \subseteq Driving
  BY DEF Driving
<1>2. \A i : Approved(i) => Approved(i)'
  BY DEF Approved
<1>3. \A u \in Task : pc'[u] \in Driving => u = d
  BY DEF Driven
<1>4. mem.index \in Step => ran[mem.index] = 0
  BY DEF Driven
<1>5. \A g \in Gates : \A n \in DOMAIN tickets[g] : tickets[g][n] # "PENDING"
  BY DEF Driven
<1> QED BY <1>1, <1>2, <1>3, <1>4, <1>5 DEF Driven

\* One that was about to begin the present step begins it.
LEMMA BeginKeeps ==
  ASSUME InstanceAssumption, InstanceShape, Driven, mem' # Unloaded, mem'.index = mem.index,
         pc'[Boot] = "idle", tickets' = tickets,
         NEW t \in Task, pc[t] \in Driving \ {"working", "asking", "approved"},
         mem.index \in Step, Begin(t, mem.index), step'[t] = mem.index
  PROVE  Driven'
<1> DEFINE k == mem.index
<1>1. {"working", "asking", "reentering", "approved"} \subseteq Driving
  BY DEF Driving
<1>2. \A i : Approved(i) => Approved(i)'
  BY DEF Approved
<1>3. /\ pc'[t] = IF k \in Gates THEN "asking" ELSE "working"
      /\ \A u \in Task : u # t => pc'[u] = pc[u]
  BY ShapeParts DEF Begin, Goto, Pending
<1>4. ran[k] = 0 /\ ran'[k] = 1 /\ \A i \in Step : i # k => ran'[i] = ran[i]
  BY ShapeParts DEF Driven, Begin, RestTyped
<1>5. \A u \in Task : pc'[u] \in Driving => u = t
  BY <1>3 DEF Driven
<1>6. \A g \in Gates : \A n \in DOMAIN tickets[g] : tickets[g][n] # "PENDING"
  BY DEF Driven
<1>7. k \in Gates => tickets[k] = <<>>
  BY <1>4 DEF Driven
<1>8. \A i \in Step : (i < k => i # k) /\ (i > k => i # k)
  BY DEF Step, InstanceAssumption
<1> QED BY <1>1, <1>2, <1>3, <1>4, <1>5, <1>6, <1>7, <1>8 DEF Driven

\* The present step is done: it was begun, and approved if it is a gate.
LEMMA PassKeeps ==
  ASSUME InstanceAssumption, InstanceShape, Driven, mem' # Unloaded,
         mem'.index = mem.index + 1, pc'[Boot] = "idle", ran' = ran, tickets' = tickets,
         NEW t \in Task, pc[t] \in {"working", "approved"},
         pc'[t] \in {"advancing", "stepping"},
         \A u \in Task : u # t => pc'[u] = pc[u]
  PROVE  Driven'
<1> DEFINE k == mem.index
<1>1. {"working", "asking", "reentering", "approved"} \subseteq Driving
  BY DEF Driving
<1>2. \A i : Approved(i) => Approved(i)'
  BY DEF Approved
<1>3. k \in Step /\ ran[k] = 1 /\ (k \in Gates => Approved(k))
  BY DEF Driven, InstanceAssumption, Step
<1>4. k \in Nat /\ \A i \in Step : /\ i < k + 1 => i < k \/ i = k
                                   /\ i > k + 1 => i > k
                                   /\ i = k + 1 => i > k
  BY <1>3 DEF Step, InstanceAssumption
<1>5. \A u \in Task : pc'[u] \in Driving => u = t
  BY <1>1 DEF Driven
<1>6. \A g \in Gates : \A n \in DOMAIN tickets[g] : tickets[g][n] # "PENDING"
  BY <1>1 DEF Driven
<1>7. k + 1 \in Step => ran[k + 1] = 0
  BY <1>4 DEF Driven
<1>8. \A i \in Step : i < k + 1 => ran[i] = 1 /\ (i \in Gates => Approved(i))
  BY <1>3, <1>4 DEF Driven
<1>9. \A i \in Step : i > k + 1 => ran[i] = 0
  BY <1>4 DEF Driven
<1>10. pc'[t] \notin {"working", "asking", "approved", "reentering"}
  OBVIOUS
<1> QED BY <1>1, <1>2, <1>5, <1>6, <1>7, <1>8, <1>9, <1>10 DEF Driven

\* The ticket takes the place of the task that asked for it.
LEMMA TicketKeeps ==
  ASSUME InstanceAssumption, InstanceShape, Driven, mem' # Unloaded, mem'.index = mem.index,
         pc'[Boot] = "idle", ran' = ran,
         NEW t \in Task, pc[t] = "asking",
         tickets' = [tickets EXCEPT ![step[t]] = Append(@, "PENDING")],
         \A u \in Task : pc'[u] \in Driving => u # t /\ pc'[u] = pc[u]
  PROVE  Driven'
<1> DEFINE k == mem.index
<1>1. {"working", "asking", "reentering", "approved"} \subseteq Driving
  BY DEF Driving
<1>2. /\ k \in Gates /\ k \in Step /\ step[t] = k /\ ran[k] = 1 /\ tickets[k] = <<>>
      /\ tickets \in [Gates -> Seq({"PENDING", "APPROVED", "REJECTED"})]
  BY ShapeParts DEF Driven, RestTyped
<1>3. tickets'[k] = <<"PENDING">> /\ \A g \in Gates : g # k => tickets'[g] = tickets[g]
  BY <1>2
<1>4. \A u \in Task : pc'[u] \notin Driving
  BY <1>1 DEF Driven
<1>5. \A g \in Gates : g # k /\ Approved(g) => Approved(g)'
  BY <1>3 DEF Approved
<1>6. \A g \in Gates : \A n \in DOMAIN tickets[g] : tickets[g][n] # "PENDING"
  BY <1>1 DEF Driven
<1>7. \A i \in Step : (i < k => i # k) /\ (i > k => i # k)
  BY DEF Step, InstanceAssumption
<1>8. \A g \in Gates : \A n \in DOMAIN tickets'[g] : tickets'[g][n] = "PENDING" =>
        g = k /\ tickets'[g] = <<"PENDING">>
  <2> TAKE g \in Gates
  <2>1. CASE g = k
    BY <1>3, <2>1
  <2>2. CASE g # k
    <3>1. tickets'[g] = tickets[g]
      BY <1>3, <2>2
    <3>2. \A n \in DOMAIN tickets[g] : tickets[g][n] # "PENDING"
      BY <1>6
    <3> QED BY <3>1, <3>2
  <2> QED BY <2>1, <2>2
<1>9. \A i \in Step : /\ (i < k => ran'[i] = 1 /\ (i \in Gates => Approved(i)'))
                       /\ (i > k => ran'[i] = 0)
                       /\ ran'[i] <= 1 /\ (ran'[i] = 0 /\ i \in Gates => tickets'[i] = <<>>)
  <2> TAKE i \in Step
  <2>1. ran'[i] = ran[i] /\ (ran[i] = 0 => i # k)
    BY <1>2
  <2>2. i < k => ran[i] = 1 /\ (i \in Gates => Approved(i)')
    BY <1>5, <1>7 DEF Driven
  <2>3. ran[i] = 0 /\ i \in Gates => tickets'[i] = <<>>
    BY <1>3, <2>1 DEF Driven
  <2> QED BY <2>1, <2>2, <2>3 DEF Driven
<1>10. \A u \in Task : pc'[u] \notin {"working", "asking", "reentering", "approved"}
  BY <1>1, <1>4
<1>11. \A g \in Gates : \A n \in DOMAIN tickets'[g] : tickets'[g][n] = "PENDING" =>
         g = mem'.index /\ tickets'[g] = <<"PENDING">> /\ ran'[g] = 1
  BY <1>2, <1>8
<1> QED BY <1>4, <1>9, <1>10, <1>11 DEF Driven

LEMMA DrivenFacts ==
  ASSUME InstanceAssumption, InstanceShape, Driven
  PROVE  /\ mem \in Instance /\ mem.state # "NONE" /\ Known = mem
         /\ \A t \in Task : pc[t] # "idle" => t \in Runner \cup Caller
         /\ pc \in [Task -> Waits] /\ step \in [Task -> 0..Steps] /\ mem.index \in Nat \ {0}
         /\ \A t \in Task : buf[t].version \in Nat
<1>1. mem \in Instance /\ mem.state # "NONE"
  BY PlacedFacts, Fields DEF Driven
<1>2. \A t \in Task : pc[t] # "idle" => t \in Runner \cup Caller
  BY DEF Driven, Task
<1> QED BY <1>1, <1>2, KnownIs, Fields, PlacedFacts, ShapeParts DEF Pending, RestTyped

\* Where a task goes.
LEMMA WentTo ==
  ASSUME pc \in [Task -> Waits], NEW t \in Task, NEW w, Goto(t, w)
  PROVE  pc'[t] = w /\ \A u \in Task : u # t => pc'[u] = pc[u]
BY DEF Goto
LEMMA EndedAt ==
  ASSUME InstanceShape, NEW t \in Task, Ends(t)
  PROVE  /\ pc'[t] = "idle" /\ \A u \in Task : u # t => pc'[u] = pc[u] /\ step'[u] = step[u]
BY WentTo, ShapeParts DEF Ends, Pending, RestTyped

LEMMA EndsDriven ==
  ASSUME InstanceAssumption, InstanceShape, Driven, NEW t \in Task, Ends(t),
         mem' \in Instance, mem'.index = mem.index, ran' = ran, tickets' = tickets
  PROVE  Driven'
<1>1. "idle" \notin Driving
  BY DEF Driving
<1>2. pc'[t] = "idle" /\ \A u \in Task : u # t => pc'[u] = pc[u] /\ step'[u] = step[u]
  BY EndedAt
<1>3. pc'[Boot] = "idle" /\ mem' # Unloaded
  BY <1>2, BootIs, Fields DEF Driven
<1> QED BY <1>1, <1>2, <1>3, DropKeeps

\* A task that was not driving, or no longer is, waits for a write or unwinds.
LEMMA AsideDriven ==
  ASSUME InstanceAssumption, InstanceShape, Driven, NEW t \in Runner \cup Caller,
         NEW w, w \notin Driving, Goto(t, w), step' = step,
         mem' \in Instance, mem'.index = mem.index, ran' = ran, tickets' = tickets
  PROVE  Driven'
<1>1. t \in Task /\ t # Boot
  BY RunnerIs, CallerIs
<1>2. pc'[t] = w /\ \A u \in Task : u # t => pc'[u] = pc[u]
  BY <1>1, WentTo, DrivenFacts
<1>3. pc'[Boot] = "idle" /\ mem' # Unloaded
  BY <1>1, <1>2, BootIs, Fields DEF Driven
<1> QED BY <1>2, <1>3, DropKeeps

LEMMA UnwindMem ==
  ASSUME NEW m \in Instance, NEW t \in Task, Unwind(t, m)
  PROVE  mem' \in Instance /\ mem'.index = m.index
<1>1. m.stack \in Seq(Undoable) /\ m.version + 1 \in Nat
  BY Fields
<1>2. CASE m.stack # <<>>
  <2> DEFINE q == SubSeq(m.stack, 1, Len(m.stack) - 1)
  <2>1. q \in Seq(Undoable)
    BY <1>1, <1>2
  <2>2. mem' = [m EXCEPT !.stack = q]
    BY <1>2 DEF Unwind
  <2> HIDE DEF q
  <2> QED BY <2>1, <2>2, Fields, FieldsKept
<1>3. CASE m.stack = <<>>
  <2>1. mem' = [m EXCEPT !.version = m.version + 1] \/ mem' = m
    BY <1>3 DEF Unwind, RecordStep
  <2>2. CASE mem' = [m EXCEPT !.version = m.version + 1]
    BY <1>1, <2>2, Fields, FieldsKept
  <2>3. CASE mem' = m
    BY <2>3
  <2> QED BY <2>1, <2>2, <2>3
<1> QED BY <1>2, <1>3

LEMMA UnwindDriven ==
  ASSUME InstanceAssumption, InstanceShape, Driven, NEW t \in Runner \cup Caller,
         NEW m \in Instance, m.index = mem.index, Unwind(t, m), ran' = ran, tickets' = tickets
  PROVE  Driven'
<1>0. t \in Task /\ mem' \in Instance /\ mem'.index = m.index
  BY RunnerIs, CallerIs, UnwindMem
<1>1. CASE m.stack # <<>>
  <2>1. Goto(t, "unwinding") /\ step' = step
    BY <1>1 DEF Unwind
  <2>2. "unwinding" \notin Driving
    BY DEF Driving
  <2> QED BY <1>0, <2>1, <2>2, AsideDriven
<1>2. CASE m.stack = <<>> /\ t \in Runner
  <2>1. Goto(t, "closing") /\ step' = step
    BY <1>2 DEF Unwind, RecordStep, Issue
  <2>2. "closing" \notin Driving
    BY DEF Driving
  <2> QED BY <1>0, <2>1, <2>2, AsideDriven
<1>3. CASE m.stack = <<>> /\ t \notin Runner
  <2>1. mem' = m /\ Ends(t) /\ t \in Task
    BY <1>0, <1>3 DEF Unwind
  <2> QED BY <1>0, <2>1, EndsDriven
<1> QED BY <1>1, <1>2, <1>3

LEMMA RunnerDriven ==
  ASSUME InstanceAssumption, InstanceShape, InstanceShape', Driven, NEW r \in Runner,
         RunnerStep(r)
  PROVE  Driven'
<1>1. /\ r \in Task /\ r # Boot /\ r \in Runner \cup Caller
      /\ mem \in Instance /\ mem.state # "NONE" /\ mem.index \in Nat \ {0}
      /\ pc \in [Task -> Waits] /\ step \in [Task -> 0..Steps] /\ pc[Boot] = "idle"
      /\ \A t \in Task : buf[t].version \in Nat
  BY RunnerIs, DrivenFacts DEF Driven
<1>2. {"top", "advancing", "reentering"} \subseteq Driving \ {"working", "asking", "approved"}
  BY DEF Driving
<1>3. CASE TakeStep(r)
  <2>1. Begin(r, mem.index) /\ step'[r] = mem.index /\ mem.index \in Step /\ tickets' = tickets
    BY <1>1, <1>3 DEF TakeStep
  <2>2. mem'.index = mem.index /\ mem' # Unloaded
    <3>1. mem.index \in 0..Steps
      BY <2>1 DEF Step
    <3> QED BY <1>1, <1>3, <3>1, Fields, FieldsKept DEF TakeStep
  <2>3. pc'[Boot] = "idle" /\ pc[r] = "top"
    BY <1>1, <1>3, BootIs DEF TakeStep, Begin, Goto
  <2> QED BY <1>1, <1>2, <2>1, <2>2, <2>3, BeginKeeps
<1>4. CASE Reenter(r)
  <2>1. /\ pc[r] = "top" /\ mem.index \in Step /\ Goto(r, "reentering")
        /\ step' = [step EXCEPT ![r] = mem.index] /\ ran' = ran /\ tickets' = tickets
        /\ mem' = [mem EXCEPT !.at = mem.index, !.state = "RUNNING"]
    BY <1>4 DEF Reenter, Update, Issue, ledger
  <2>2. mem'.index = mem.index /\ mem'.state = "RUNNING" /\ mem' # Unloaded
    BY <1>1, <2>1 DEF Instance, Unloaded
  <2>3. pc'[r] = "reentering" /\ \A u \in Task : u # r => pc'[u] = pc[u]
    BY <1>1, <2>1, WentTo
  <2>4. pc'[Boot] = "idle"
    BY <1>1, <2>3, BootIs
  <2> QED BY <1>1, <1>2, <2>1, <2>2, <2>3, <2>4, HandKeeps
<1>5. CASE Reentered(r)
  <2>1. /\ pc[r] = "reentering" /\ Begin(r, step[r]) /\ tickets' = tickets /\ step' = step
        /\ mem' = [mem EXCEPT !.version = buf[r].version + 1]
    BY <1>5 DEF Reentered, Acknowledged
  <2>2. mem.index \in Step /\ step[r] = mem.index
    BY <1>1, <2>1 DEF Driven
  <2>3. mem'.index = mem.index /\ mem' # Unloaded
    <3>1. buf[r].version + 1 \in Nat
      BY <1>1
    <3> QED BY <1>1, <2>1, <3>1, Fields, FieldsKept
  <2>4. pc'[Boot] = "idle"
    BY <1>1, <2>1, BootIs DEF Begin, Goto
  <2> QED BY <1>1, <1>2, <2>1, <2>2, <2>3, <2>4, BeginKeeps
<1>6. CASE Complete(r)
  <2>1. /\ Goto(r, "completing") /\ UNCHANGED <<step, ran, tickets>>
        /\ mem' = [mem EXCEPT !.state = "COMPLETED"] /\ "completing" \notin Driving
    BY <1>6 DEF Complete, Update, Issue, ledger, Driving
  <2> QED BY <1>1, <2>1, Fields, FieldsKept, StatesAre, AsideDriven
<1>7. CASE Leave(r) \/ Forbidden(r)
  BY <1>1, <1>7, EndsDriven DEF Leave, Forbidden, ledger
<1>8. CASE Work(r)
  <2>1. PICK success \in BOOLEAN :
          LET m == IF success /\ step[r] \in Undoable
                   THEN [mem EXCEPT !.stack = Append(@, step[r])] ELSE mem
          IN IF mem.state = "WAITING"
             THEN RecordStep(r, "parking", m)
             ELSE RecordStep(r, "advancing", [m EXCEPT !.index = @ + 1])
    BY <1>8 DEF Work
  <2> DEFINE m == IF success /\ step[r] \in Undoable
                  THEN [mem EXCEPT !.stack = Append(@, step[r])] ELSE mem
  <2>2. m \in Instance /\ m.index = mem.index
    <3>1. CASE success /\ step[r] \in Undoable
      <4>1. Append(mem.stack, step[r]) \in Seq(Undoable)
        BY <1>1, <3>1, Fields
      <4>2. m = [mem EXCEPT !.stack = Append(mem.stack, step[r])]
        BY <3>1
      <4> QED BY <1>1, <4>1, <4>2, Fields, FieldsKept
    <3> QED BY <1>1, <3>1
  <2>3. /\ pc[r] = "working" /\ UNCHANGED <<step, ran, tickets>>
    BY <1>8 DEF Work, ledger
  <2>4. IF mem.state = "WAITING" THEN RecordStep(r, "parking", m)
        ELSE RecordStep(r, "advancing", [m EXCEPT !.index = @ + 1])
    BY <2>1
  <2> HIDE DEF m
  <2>5. CASE mem.state = "WAITING"
    <3>1. Goto(r, "parking") /\ "parking" \notin Driving /\ mem'.index = mem.index
          /\ mem' \in Instance
      <4>1. mem' = [m EXCEPT !.version = m.version + 1] /\ m.version + 1 \in Nat
        BY <2>2, <2>4, <2>5, Fields DEF RecordStep
      <4> QED BY <2>2, <2>4, <2>5, <4>1, Fields, FieldsKept DEF RecordStep, Issue, Driving
    <3> QED BY <1>1, <2>3, <3>1, AsideDriven
  <2>6. CASE mem.state # "WAITING"
    <3> DEFINE a == [m EXCEPT !.index = m.index + 1]
    <3>1. a \in Instance /\ a.index = mem.index + 1
      <4>1. m.index + 1 \in Nat \ {0}
        BY <2>2, Fields
      <4> QED BY <2>2, <4>1, Fields, FieldsKept
    <3>2. RecordStep(r, "advancing", a)
      BY <2>2, <2>4, <2>6
    <3> HIDE DEF a
    <3>3. mem' = [a EXCEPT !.version = a.version + 1] /\ a.version + 1 \in Nat
          /\ Goto(r, "advancing")
      BY <3>1, <3>2, Fields DEF RecordStep, Issue
    <3>4. mem' # Unloaded /\ mem'.index = mem.index + 1
      BY <3>1, <3>3, Fields, FieldsKept
    <3>5. pc'[r] = "advancing" /\ \A u \in Task : u # r => pc'[u] = pc[u]
      BY <1>1, <3>3, WentTo
    <3>6. pc'[Boot] = "idle"
      BY <1>1, <3>5, BootIs
    <3> QED BY <1>1, <2>3, <3>4, <3>5, <3>6, PassKeeps
  <2> QED BY <2>5, <2>6
<1>9. CASE Advanced(r)
  <2>1. /\ pc[r] = "advancing" /\ Goto(r, "top") /\ UNCHANGED <<step, ran, tickets, mem>>
    BY <1>9 DEF Advanced, ledger
  <2>2. pc'[r] = "top" /\ \A u \in Task : u # r => pc'[u] = pc[u]
    BY <1>1, <2>1, WentTo
  <2>3. pc'[Boot] = "idle" /\ mem' # Unloaded
    BY <1>1, <2>1, <2>2, BootIs, Fields
  <2> QED BY <1>1, <1>2, <2>1, <2>2, <2>3, HandKeeps
<1>10. CASE WorkFails(r)
  <2> DEFINE m == [mem EXCEPT !.state = "FAILED"]
  <2>1. m \in Instance /\ m.index = mem.index
    BY <1>1, Fields, FieldsKept, StatesAre
  <2>2. Unwind(r, m) /\ ran' = ran /\ tickets' = tickets
    BY <1>10 DEF WorkFails
  <2> HIDE DEF m
  <2> QED BY <1>1, <2>1, <2>2, UnwindDriven
<1>11. CASE Ask(r)
  <2>1. /\ pc[r] = "asking" /\ Goto(r, "asked") /\ UNCHANGED <<step, ran, mem>>
        /\ tickets' = [tickets EXCEPT ![step[r]] = Append(@, "PENDING")]
        /\ "asked" \notin Driving
    BY <1>11 DEF Ask, ledger, Driving
  <2>2. pc'[r] = "asked" /\ \A u \in Task : u # r => pc'[u] = pc[u]
    BY <1>1, <2>1, WentTo
  <2>3. pc'[Boot] = "idle" /\ mem' # Unloaded
    BY <1>1, <2>1, <2>2, BootIs, Fields
  <2> QED BY <1>1, <2>1, <2>2, <2>3, TicketKeeps
<1>12. CASE Wait(r)
  <2> DEFINE m == [mem EXCEPT !.state = "WAITING"]
  <2>1. m \in Instance /\ m.index = mem.index /\ m.version + 1 \in Nat
    BY <1>1, Fields, FieldsKept, StatesAre
  <2>2. /\ Goto(r, "parking") /\ UNCHANGED <<step, ran, tickets>>
        /\ mem' = [m EXCEPT !.version = m.version + 1] /\ "parking" \notin Driving
    BY <1>12 DEF Wait, RecordStep, Issue, ledger, Driving
  <2> HIDE DEF m
  <2> QED BY <1>1, <2>1, <2>2, Fields, FieldsKept, AsideDriven
<1>13. CASE Settled(r)
  <2>1. mem' \in Instance /\ mem'.index = mem.index
    <3>1. buf[r].version + 1 \in Nat
      BY <1>1
    <3>2. mem' = mem \/ mem' = [mem EXCEPT !.version = buf[r].version + 1]
      BY <1>13 DEF Settled, Acknowledged
    <3>3. CASE mem' = mem
      BY <1>1, <3>3
    <3>4. CASE mem' = [mem EXCEPT !.version = buf[r].version + 1]
      BY <1>1, <3>1, <3>4, Fields, FieldsKept
    <3> QED BY <3>2, <3>3, <3>4
  <2> QED BY <1>1, <1>13, <2>1, EndsDriven DEF Settled, ledger
<1> QED BY <1>3, <1>4, <1>5, <1>6, <1>7, <1>8, <1>9, <1>10, <1>11, <1>12, <1>13 DEF RunnerStep

LEMMA CallDriven ==
  ASSUME InstanceAssumption, InstanceShape, Driven, NEW c \in Caller,
         CallStep(c), ~ResumeByHand(c)
  PROVE  Driven'
<1>1. /\ c \in Task /\ c # Boot /\ c \in Runner \cup Caller
      /\ mem \in Instance /\ mem.state # "NONE" /\ mem.index \in Nat \ {0} /\ Known = mem
      /\ pc \in [Task -> Waits] /\ step \in [Task -> 0..Steps] /\ pc[Boot] = "idle"
      /\ \A t \in Task : buf[t].version \in Nat
  BY CallerIs, DrivenFacts DEF Driven
<1>2. {"stepping", "resolving", "resuming"} \subseteq Driving \ {"working", "asking", "approved"}
  BY DEF Driving
<1>3. ASSUME NEW g \in Gates, NEW n \in DOMAIN tickets[g],
             NEW verdict \in {"APPROVED", "REJECTED"}, Decide(c, g, n, verdict)
      PROVE  Driven'
  <2>1. /\ tickets[g][n] = "PENDING" /\ UNCHANGED <<mem, ran, step>>
        /\ tickets' = [tickets EXCEPT ![g][n] = verdict]
        /\ Goto(c, IF verdict = "APPROVED" THEN "approved" ELSE "refused")
    BY <1>3 DEF Decide, ledger
  <2>2. /\ pc'[c] = IF verdict = "APPROVED" THEN "approved" ELSE "refused"
        /\ \A u \in Task : u # c => pc'[u] = pc[u]
    BY <1>1, <2>1, WentTo
  <2>3. /\ g = mem.index /\ tickets[g] = <<"PENDING">> /\ ran[g] = 1 /\ n = 1
        /\ \A t \in Task : pc[t] \notin Driving
    <3>1. g = mem.index /\ tickets[g] = <<"PENDING">> /\ ran[g] = 1
          /\ \A t \in Task : pc[t] \notin Driving
      BY <2>1 DEF Driven
    <3>2. DOMAIN tickets[g] = {1}
      BY <3>1
    <3> QED BY <3>1, <3>2
  <2>4. /\ tickets \in [Gates -> Seq({"PENDING", "APPROVED", "REJECTED"})]
        /\ Gates \subseteq Step
    BY ShapeParts DEF RestTyped, InstanceAssumption, Step
  <2>5. /\ tickets'[g] = [tickets[g] EXCEPT ![n] = verdict]
        /\ \A h \in Gates : h # g => tickets'[h] = tickets[h]
    BY <2>1, <2>4
  <2>6. DOMAIN tickets'[g] = {1} /\ tickets'[g][1] = verdict
    BY <2>3, <2>5
  <2>7. \A h \in Gates : h # g /\ Approved(h) => Approved(h)'
    BY <2>5 DEF Approved
  <2>8. verdict = "APPROVED" => Approved(g)'
    BY <2>6 DEF Approved
  <2>9. \A h \in Gates : \A k \in DOMAIN tickets'[h] : tickets'[h][k] # "PENDING"
    <3> TAKE h \in Gates
    <3>1. CASE h = g
      BY <2>6, <3>1
    <3>2. CASE h # g
      <4>1. tickets'[h] = tickets[h]
        BY <2>5, <3>2
      <4>2. \A k \in DOMAIN tickets[h] : tickets[h][k] # "PENDING"
        BY <2>3, <3>2 DEF Driven
      <4> QED BY <4>1, <4>2
    <3> QED BY <3>1, <3>2
  <2>10. \A u \in Task : pc'[u] \in Driving => u = c /\ verdict = "APPROVED"
    BY <2>2, <2>3 DEF Driving
  <2>11. pc'[Boot] = "idle"
    BY <1>1, <2>2, BootIs
  <2>12. {"working", "asking", "reentering", "approved"} \subseteq Driving
    BY DEF Driving
  <2>13. \A i \in Step : i < mem.index => i # g
    BY <2>3 DEF Step, InstanceAssumption
  <2>14. \A i \in Step : ran[i] = 0 /\ i \in Gates => i # g /\ tickets'[i] = <<>>
    BY <2>3, <2>5 DEF Driven
  <2> QED BY <1>1, <2>1, <2>2, <2>3, <2>7, <2>8, <2>9, <2>10, <2>11, <2>12, <2>13, <2>14
      DEF Driven
<1>4. CASE StepOver(c)
  <2> DEFINE m == [mem EXCEPT !.index = mem.index + 1]
  <2>1. m \in Instance /\ m.index = mem.index + 1
    <3>1. mem.index + 1 \in Nat \ {0}
      BY <1>1
    <3> QED BY <1>1, <3>1, Fields, FieldsKept
  <2>2. /\ pc[c] = "approved" /\ Goto(c, "stepping") /\ mem' = m
        /\ UNCHANGED <<step, ran, tickets>>
    BY <1>1, <1>4 DEF StepOver, Update, Issue, ledger
  <2>3. pc'[c] = "stepping" /\ \A u \in Task : u # c => pc'[u] = pc[u]
    BY <1>1, <2>2, WentTo
  <2>4. pc'[Boot] = "idle" /\ mem' # Unloaded /\ mem'.index = mem.index + 1
    BY <1>1, <2>1, <2>2, <2>3, BootIs, Fields
  <2> QED BY <1>1, <2>2, <2>3, <2>4, PassKeeps
<1>5. CASE SteppedOver(c)
  <2> DEFINE m == [mem EXCEPT !.version = buf[c].version + 1]
  <2>1. m \in Instance /\ m.index = mem.index
    <3>1. buf[c].version + 1 \in Nat
      BY <1>1
    <3> QED BY <1>1, <3>1, Fields, FieldsKept
  <2>2. pc[c] = "stepping" /\ UNCHANGED <<ran, tickets>>
    BY <1>5 DEF SteppedOver, ledger
  <2>3. Resuming(c, m) \/ (mem' = m /\ Ends(c))
    BY <1>5 DEF SteppedOver
  <2> HIDE DEF m
  <2>4. CASE Resuming(c, m)
    <3> DEFINE s == IF m.state = "WAITING" THEN "APPROVED" ELSE m.state
    <3>1. s \in States /\ mem' = [m EXCEPT !.state = s] /\ Goto(c, "resolving") /\ step' = step
      BY <2>4, StatesAre DEF Resuming
    <3> HIDE DEF s
    <3>2. mem' # Unloaded /\ mem'.index = mem.index
      BY <2>1, <3>1, Fields, FieldsKept
    <3>3. pc'[c] = "resolving" /\ \A u \in Task : u # c => pc'[u] = pc[u]
      BY <1>1, <3>1, WentTo
    <3>4. pc'[Boot] = "idle"
      BY <1>1, <3>3, BootIs
    <3> QED BY <1>1, <1>2, <2>2, <3>2, <3>3, <3>4, HandKeeps
  <2>5. CASE mem' = m /\ Ends(c)
    BY <1>1, <2>1, <2>2, <2>5, EndsDriven
  <2> QED BY <2>3, <2>4, <2>5
<1>6. CASE Resolved(c)
  <2>1. /\ pc[c] = "resolving" /\ Goto(c, "resuming") /\ UNCHANGED <<step, ran, tickets, mem>>
    BY <1>6 DEF Resolved, Update, Issue, ledger
  <2>2. pc'[c] = "resuming" /\ \A u \in Task : u # c => pc'[u] = pc[u]
    BY <1>1, <2>1, WentTo
  <2>3. pc'[Boot] = "idle" /\ mem' # Unloaded
    BY <1>1, <2>1, <2>2, BootIs, Fields
  <2> QED BY <1>1, <1>2, <2>1, <2>2, <2>3, HandKeeps
<1>7. CASE Refuse(c)
  <2>1. CASE mem.state \in Active \cup {"FAILED"}
    <3>1. /\ Goto(c, "refusing") /\ mem' = [mem EXCEPT !.state = "FAILED"]
          /\ UNCHANGED <<step, ran, tickets>> /\ "refusing" \notin Driving
      BY <1>1, <1>7, <2>1 DEF Refuse, Update, Issue, ledger, Driving
    <3> QED BY <1>1, <3>1, Fields, FieldsKept, StatesAre, AsideDriven
  <2>2. CASE mem.state \notin Active \cup {"FAILED"}
    BY <1>1, <1>7, <2>2, EndsDriven DEF Refuse, ledger
  <2> QED BY <2>1, <2>2
<1>8. CASE Cancel(c)
  <2>1. mem' = [mem EXCEPT !.state = "CANCELLED"] /\ ran' = ran
    BY <1>1, <1>8 DEF Cancel, ledger
  <2>2. mem' # Unloaded /\ mem'.index = mem.index
    BY <1>1, <2>1, Fields, FieldsKept, StatesAre
  <2>3. \A u \in Task : /\ pc'[u] = IF u = c THEN "cancelling"
                                    ELSE IF u = tracked THEN "idle" ELSE pc[u]
                        /\ step'[u] = IF u = tracked THEN 0 ELSE step[u]
    BY <1>8 DEF Cancel
  <2>4. tracked # Boot /\ (tracked # NoTask => tracked \in Task)
    BY RunnerIs, ShapeParts DEF RestTyped, InstanceAssumption
  <2>5. pc'[Boot] = "idle"
    BY <1>1, <2>3, <2>4, BootIs
  <2>6. \A u \in Task : pc'[u] \in Driving => u # tracked /\ pc'[u] = pc[u] /\ step'[u] = step[u]
    BY <2>3 DEF Driving
  <2>7. PICK committed \in BOOLEAN : StopTracked(committed)
    BY <1>8 DEF Cancel
  <2>8. \/ tickets' = tickets
        \/ /\ tracked \in Task /\ pc[tracked] = "asking"
           /\ tickets' = [tickets EXCEPT ![step[tracked]] = Append(@, "PENDING")]
    BY <2>4, <2>7 DEF StopTracked
  <2>9. CASE tickets' = tickets
    BY <2>1, <2>2, <2>5, <2>6, <2>9, DropKeeps
  <2>10. CASE /\ tracked \in Task /\ pc[tracked] = "asking"
              /\ tickets' = [tickets EXCEPT ![step[tracked]] = Append(@, "PENDING")]
    BY <2>1, <2>2, <2>5, <2>6, <2>10, TicketKeeps
  <2> QED BY <2>8, <2>9, <2>10
<1>9. CASE Cancelled(c)
  <2>1. mem' \in Instance /\ mem'.index = mem.index
    <3>1. buf[c].version + 1 \in Nat
      BY <1>1
    <3> QED BY <1>1, <1>9, <3>1, Fields, FieldsKept DEF Cancelled, Acknowledged
  <2> QED BY <1>1, <1>9, <2>1, EndsDriven DEF Cancelled, ledger
<1>10. CASE CutOff(c)
  BY <1>1, <1>10, EndsDriven DEF CutOff, ledger
<1> QED BY <1>3, <1>4, <1>5, <1>6, <1>7, <1>8, <1>9, <1>10 DEF CallStep

LEMMA TaskDriven ==
  ASSUME InstanceAssumption, InstanceShape, Driven, NEW t \in Task,
         Compensate(t) \/ Conflict(t) \/ Raises(t)
  PROVE  Driven'
<1>1. mem \in Instance /\ (t \in Runner \cup Caller \/ pc[t] = "idle")
  BY DrivenFacts
<1>2. CASE Compensate(t)
  BY <1>1, <1>2, UnwindDriven DEF Compensate
<1>3. CASE Conflict(t) \/ Raises(t)
  BY <1>1, <1>3, EndsDriven DEF Conflict, Raises, ledger
<1> QED BY <1>2, <1>3

LEMMA ResumeDriven ==
  ASSUME InstanceAssumption, InstanceShape, Driven, NEW t \in Caller \cup {Boot},
         Resumed(t) \/ Refused(t)
  PROVE  Driven'
<1>1. /\ mem \in Instance /\ pc[t] # "idle" /\ buf[t].version + 1 \in Nat
      /\ t \in Task /\ t \notin Runner /\ pc \in [Task -> Waits] /\ pc[Boot] = "idle"
  <2>1. pc[t] # "idle" /\ t \in Task /\ t \notin Runner
    BY CallerIs, BootIs DEF Resumed, Refused
  <2> QED BY <2>1, DrivenFacts DEF Driven
<1>2. t \in Caller /\ t # Boot
  BY <1>1
<1> DEFINE m == [mem EXCEPT !.version = buf[t].version + 1]
<1>3. m \in Instance /\ m.index = mem.index
  BY <1>1, Fields, FieldsKept
<1>4. CASE Refused(t)
  <2>1. Unwind(t, m) /\ ran' = ran /\ tickets' = tickets
    BY <1>4 DEF Refused
  <2> HIDE DEF m
  <2> QED BY <1>2, <1>3, <2>1, UnwindDriven
<1>5. CASE Resumed(t)
  <2>1. PICK r \in Runner : /\ pc[r] = "idle"
                            /\ pc' = [pc EXCEPT ![t] = "idle", ![r] = "top"]
    BY <1>5 DEF Resumed, Spawn
  <2>2. /\ mem' = m /\ UNCHANGED <<step, ran, tickets>> /\ pc[t] \in {"resuming", "reviving"}
    BY <1>5 DEF Resumed, Acknowledged, ledger
  <2>3. r \in Task /\ r # t /\ r # Boot
    BY <1>1, RunnerIs
  <2>4. /\ pc'[t] = "idle" /\ pc'[r] = "top"
        /\ \A u \in Task : u \notin {t, r} => pc'[u] = pc[u]
    BY <1>1, <2>1, <2>3
  <2>5. pc[t] = "resuming"
    BY <1>2, <2>2, CallerIs, ShapeParts DEF Placed, CallerAt
  <2>6. /\ pc[t] \in Driving \ {"working", "asking", "approved"} /\ pc'[t] \notin Driving
        /\ pc'[r] \in Driving \ {"working", "asking", "approved"}
    BY <2>4, <2>5 DEF Driving
  <2>7. pc'[Boot] = "idle" /\ mem' # Unloaded /\ mem'.index = mem.index
    BY <1>1, <1>2, <1>3, <2>2, <2>3, <2>4, BootIs, Fields
  <2> QED BY <1>1, <2>2, <2>3, <2>4, <2>6, <2>7, HandKeeps
<1> QED BY <1>4, <1>5


\* Of a run that was not restarted or resumed by hand.
LEMMA DrivenStep ==
  ASSUME InstanceAssumption, InstanceShape, InstanceShape', Calm => Driven,
         [InstanceNext]_instanceVars
  PROVE  Calm' => Driven'
<1>1. crashes \in Nat /\ resumes \in Nat
  BY ShapeParts DEF RestTyped, InstanceAssumption
<1>2. SUFFICES ASSUME Calm' PROVE Driven'
  OBVIOUS
<1>3. CASE UNCHANGED instanceVars
  <2>1. Calm /\ Driven
    BY <1>2, <1>3 DEF Calm, instanceVars, limits
  <2> QED BY <1>3, <2>1 DEF Driven, Approved, instanceVars, proc, ledger
<1>4. ASSUME NEW c \in Caller, ResumeByHand(c) PROVE FALSE
  BY <1>1, <1>2, <1>4 DEF ResumeByHand, Calm
<1>5. CASE ProcessCrash
  BY <1>1, <1>2, <1>5 DEF ProcessCrash, Calm
<1>6. CASE Hydrate \/ FailAtBoot \/ FailedAtBoot
  <2>1. Calm /\ pc[Boot] \in {"down", "abandoning"}
    BY <1>2, <1>6 DEF Hydrate, FailAtBoot, FailedAtBoot, Calm, limits
  <2> QED BY <2>1 DEF Driven
<1>7. ASSUME NEW r \in Runner, RunnerStep(r) PROVE Driven'
  <2>1. Calm
    BY <1>2, <1>7 DEF Calm, limits, RunnerStep, TakeStep, Reenter, Reentered, Complete, Leave,
       Work, Advanced, WorkFails, Forbidden, Ask, Wait, Settled
  <2> QED BY <1>7, <2>1, RunnerDriven
<1>8. ASSUME NEW c \in Caller, CallStep(c) PROVE Driven'
  <2>1. Calm
    BY <1>2, <1>4, <1>8 DEF Calm, limits, CallStep, Decide, StepOver, SteppedOver, Resolved,
       Refuse, Cancel, Cancelled, CutOff
  <2> QED BY <1>4, <1>8, <2>1, CallDriven
<1>9. ASSUME NEW t \in Task, Compensate(t) \/ Conflict(t) \/ Raises(t) PROVE Driven'
  <2>1. Calm
    BY <1>2, <1>9 DEF Calm, limits, Compensate, Conflict, Raises
  <2> QED BY <1>9, <2>1, TaskDriven
<1>10. ASSUME NEW t \in Caller \cup {Boot}, Resumed(t) \/ Refused(t) PROVE Driven'
  <2>1. Calm
    BY <1>2, <1>10 DEF Calm, limits, Resumed, Refused
  <2> QED BY <1>10, <2>1, ResumeDriven
<1> QED BY <1>3, <1>5, <1>6, <1>7, <1>8, <1>9, <1>10 DEF InstanceNext

LEMMA DrivenInit == ASSUME InstanceAssumption, InstanceInit PROVE Driven
<1>1. /\ original \in Runner /\ original \in Task /\ original # Boot
      /\ \A t \in Task : pc[t] = IF t = original THEN "top" ELSE "idle"
      /\ mem.index = 1 /\ mem # Unloaded
      /\ \A i \in Step : ran[i] = 0 /\ i >= 1
      /\ \A g \in Gates : tickets[g] = <<>>
      /\ Gates \subseteq Step
  BY RunnerIs DEF InstanceInit, Started, Unloaded, Step, InstanceAssumption
<1>2. pc[Boot] = "idle"
  BY <1>1, BootIs
<1>3. \A t \in Task : pc[t] \in Driving => t = original /\ pc[t] = "top"
  BY <1>1 DEF Driving
<1>4. \A i \in Step : ~(i < 1)
  BY DEF Step
<1>5. \A t \in Task : pc[t] \notin {"working", "asking", "reentering", "approved"}
  BY <1>1
<1>6. \A g \in Gates : DOMAIN tickets[g] = {}
  BY <1>1
<1>7. \A i \in Step : ~(i < mem.index) /\ ran[i] = 0 /\ ran[i] <= 1
  BY <1>1, <1>4
<1> QED BY <1>1, <1>2, <1>3, <1>5, <1>6, <1>7 DEF Driven

\* Neither restarted nor resumed by hand, an instance begins a step only after every
\* earlier one, after the approval of every earlier gate, and once.
THEOREM InOrderAlways == InstanceSpec => [](Calm => InOrder)
<1>1. InstanceInit => (Calm => Driven)
  BY InstanceAssumption, DrivenInit
<1>2. InstanceShape /\ InstanceShape' /\ (Calm => Driven) /\ [InstanceNext]_instanceVars
        => (Calm => Driven)'
  BY InstanceAssumption, DrivenStep DEF Calm
<1>3. InstanceShape /\ Driven => InOrder
  <2> SUFFICES ASSUME InstanceShape, Driven, NEW j \in Step, ran[j] > 0
               PROVE  \A i \in 1..(j - 1) : ran[i] = 1 /\ (i \in Gates => Approved(i))
    BY DEF InOrder
  <2>1. mem.index \in Nat /\ j \in Nat /\ 1..(j - 1) \subseteq Step
        /\ \A i \in 1..(j - 1) : i < j
    BY InstanceAssumption, DrivenFacts DEF Step, InstanceAssumption
  <2>2. j <= mem.index
    BY <2>1 DEF Driven
  <2> QED BY <2>1, <2>2 DEF Driven, Step
<1> QED BY <1>1, <1>2, <1>3, InstanceShapeAlways, PTL DEF InstanceSpec

-----------------------------------------------------------------------------
(* The workflow instance: the repetition of its steps *)

\* The tokens that take the instance further: a task that is about to begin the
\* present step, one whose record of a step is pending, one that is inside a step,
\* and an open ticket.
TopAt == {"down", "top", "reentering", "resolving", "resuming"}
PassingAt == {"advancing", "stepping", "reviving"}
InsideAt == {"working", "asking", "approved"}
TokenAt == TopAt \cup PassingAt \cup InsideAt

TasksAt(p, places) == {t \in Task : p[t] \in places}
Again(p, s, j) == {t \in Task : p[t] = "reentering" /\ s[t] = j}
Open(k) == {x \in Gates \X Nat : x[2] \in DOMAIN k[x[1]] /\ k[x[1]][x[2]] = "PENDING"}

tops == Cardinality(TasksAt(pc, TopAt))
passing == Cardinality(TasksAt(pc, PassingAt))
inside == Cardinality(TasksAt(pc, InsideAt)) + Cardinality(Open(tickets))
again(j) == Cardinality(Again(pc, step, j))
allowed == 1 + crashes + resumes
place == Known.index

TokensFinite == /\ IsFiniteSet(TasksAt(pc, TopAt)) /\ IsFiniteSet(TasksAt(pc, PassingAt))
                /\ IsFiniteSet(TasksAt(pc, InsideAt)) /\ IsFiniteSet(Open(tickets))

\* x and the lesser of p and d are within b.
Spares(x, p, d, b) == x + p <= b \/ x + d <= b

\* A step j that was begun n times: r is the index of the row, m that of the object;
\* t tokens are about to begin the step at m, w have a record pending and p are
\* inside a step, and a of the tokens at m will begin j though m is past it. From
\* m to j one token more is brought along by each step that is passed, and what
\* the row has not seen of that is lost in a crash.
Fits(r, m, t, w, p, b, j, n, a) ==
  /\ n <= b
  /\ j >= m => Spares(n + t + w, p, j - m, b) /\ Spares(n + t + (m - r), p, j - m, b)
  /\ j < m => n + a <= b
  /\ r <= j /\ j < m => n + a + (j - r) <= b

Budget ==
  /\ TokensFinite
  /\ row.index <= place
  /\ \A t \in Task : pc[t] = "reentering" => step[t] \in Step /\ step[t] <= place
  /\ \A j \in Step : Fits(row.index, place, tops, passing, inside, allowed, j, ran[j],
                          again(j))

(* The sums.                                                               *)
\* A token inside the step is done with it, or the boot is past a gate.
LEMMA FitsPassed ==
  ASSUME NEW r \in Nat, NEW m \in Nat, NEW t \in Nat, NEW w \in Nat, NEW p \in Nat,
         NEW b \in Nat, NEW j \in Nat, NEW n \in Nat, NEW a \in Nat, r <= m, a <= t,
         Fits(r, m, t, w, p, b, j, n, a),
         NEW t1 \in Nat, NEW w1 \in Nat, NEW p1 \in Nat, NEW a1 \in Nat, a1 <= a,
         w1 <= w + 1, (t1 <= t /\ p1 + 1 <= p) \/ (t1 + 1 <= t /\ p1 <= p)
  PROVE  Fits(r, m + 1, t1, w1, p1, b, j, n, a1)
<1>1. CASE j >= m + 1
  <2>1. Spares(n + t1 + w1, p1, j - (m + 1), b)
    BY <1>1 DEF Fits, Spares
  <2>2. Spares(n + t1 + (m + 1 - r), p1, j - (m + 1), b)
    BY <1>1 DEF Fits, Spares
  <2> QED BY <1>1, <2>1, <2>2 DEF Fits
<1>2. CASE j = m
  <2>1. n + t + (m - r) <= b
    BY <1>2 DEF Fits, Spares
  <2> QED BY <1>2, <2>1 DEF Fits
<1>3. CASE j < m
  BY <1>3 DEF Fits
<1> QED BY <1>1, <1>2, <1>3

\* A token goes inside, at a step other than j.
LEMMA FitsInside ==
  ASSUME NEW r \in Nat, NEW m \in Nat, NEW t \in Nat, NEW w \in Nat, NEW p \in Nat,
         NEW b \in Nat, NEW j \in Nat, NEW n \in Nat, NEW a \in Nat, r <= m,
         Fits(r, m, t, w, p, b, j, n, a),
         NEW r1 \in {r, m}, NEW t1 \in Nat, NEW w1 \in Nat, NEW p1 \in Nat, NEW a1 \in Nat,
         t1 + 1 <= t, w1 <= w, p1 <= p + 1, a1 <= a
  PROVE  Fits(r1, m, t1, w1, p1, b, j, n, a1)
<1>1. CASE j > m
  <2>1. Spares(n + t1 + w1, p1, j - m, b)
    BY <1>1 DEF Fits, Spares
  <2>2. Spares(n + t1 + (m - r1), p1, j - m, b)
    BY <1>1 DEF Fits, Spares
  <2> QED BY <1>1, <2>1, <2>2 DEF Fits
<1>2. CASE j = m
  <2>1. n + t + w <= b /\ n + t + (m - r) <= b
    BY <1>2 DEF Fits, Spares
  <2> QED BY <1>2, <2>1 DEF Fits, Spares
<1>3. CASE j < m
  BY <1>3 DEF Fits
<1> QED BY <1>1, <1>2, <1>3

\* The tasks are lost, and the boot takes up the row.
LEMMA FitsCrashed ==
  ASSUME NEW r \in Nat, NEW m \in Nat, NEW t \in Nat, NEW w \in Nat, NEW p \in Nat,
         NEW b \in Nat, NEW j \in Nat, NEW n \in Nat, NEW a \in Nat, r <= m,
         Fits(r, m, t, w, p, b, j, n, a), NEW p1 \in Nat, p1 <= p
  PROVE  Fits(r, r, 1, 0, p1, b + 1, j, n, 0)
<1>1. CASE j >= m
  <2>1. Spares(n + t + (m - r), p, j - m, b) /\ j - r = (j - m) + (m - r)
    BY <1>1 DEF Fits
  <2>2. Spares(n + 1 + 0, p1, j - r, b + 1) /\ Spares(n + 1 + (r - r), p1, j - r, b + 1)
    BY <1>1, <2>1 DEF Spares
  <2> QED BY <1>1, <2>2 DEF Fits
<1>2. CASE r <= j /\ j < m
  <2>1. n + (j - r) <= b
    BY <1>2 DEF Fits
  <2> QED BY <1>2, <2>1 DEF Fits, Spares
<1>3. CASE j < r
  BY <1>3 DEF Fits
<1> QED BY <1>1, <1>2, <1>3

LEMMA FitsResumed ==
  ASSUME NEW r \in Nat, NEW m \in Nat, NEW t \in Nat, NEW w \in Nat, NEW p \in Nat,
         NEW b \in Nat, NEW j \in Nat, NEW n \in Nat, NEW a \in Nat, r <= m,
         Fits(r, m, t, w, p, b, j, n, a)
  PROVE  Fits(r, m, t + 1, w, p, b + 1, j, n, a)
<1>1. CASE j >= m
  <2>1. Spares(n + (t + 1) + w, p, j - m, b + 1)
    BY <1>1 DEF Fits, Spares
  <2>2. Spares(n + (t + 1) + (m - r), p, j - m, b + 1)
    BY <1>1 DEF Fits, Spares
  <2> QED BY <1>1, <2>1, <2>2 DEF Fits
<1>2. CASE j < m
  BY <1>2 DEF Fits
<1> QED BY <1>1, <1>2

(* The tokens, when a task goes elsewhere.                                 *)
In(w, places) == IF w \in places THEN 1 ELSE 0
Recount(p, q, t, places) ==
  /\ IsFiniteSet(TasksAt(q, places))
  /\ Cardinality(TasksAt(p, places)) \in Nat /\ Cardinality(TasksAt(q, places)) \in Nat
  /\ Cardinality(TasksAt(q, places)) + In(p[t], places) =
       Cardinality(TasksAt(p, places)) + In(q[t], places)

LEMMA TokensMove ==
  ASSUME NEW p, NEW q, NEW t \in Task, \A u \in Task : u # t => q[u] = p[u],
         IsFiniteSet(TasksAt(p, TopAt)), IsFiniteSet(TasksAt(p, PassingAt)),
         IsFiniteSet(TasksAt(p, InsideAt))
  PROVE  /\ Recount(p, q, t, TopAt) /\ Recount(p, q, t, PassingAt)
         /\ Recount(p, q, t, InsideAt)
<1>1. ASSUME NEW places, IsFiniteSet(TasksAt(p, places))
      PROVE  Recount(p, q, t, places)
  <2> DEFINE A == TasksAt(p, places)  B == TasksAt(q, places)
  <2>1. /\ IsFiniteSet(B) /\ Cardinality(A) \in Nat /\ Cardinality(B) \in Nat
        /\ (p[t] \in places <=> q[t] \in places) => Cardinality(B) = Cardinality(A)
        /\ p[t] \in places /\ q[t] \notin places => Cardinality(B) + 1 = Cardinality(A)
        /\ p[t] \notin places /\ q[t] \in places => Cardinality(B) = Cardinality(A) + 1
    <3>1. /\ t \in A <=> p[t] \in places
          /\ t \in B <=> q[t] \in places
          /\ B \ {t} = A \ {t} /\ IsFiniteSet(A)
      BY <1>1 DEF TasksAt
    <3> HIDE DEF A, B
    <3>2. Cardinality(A) \in Nat
      BY <3>1, FS_CardinalityType
    <3>3. CASE t \in A <=> t \in B
      <4>1. A = B
        BY <3>1, <3>3
      <4> QED BY <3>1, <3>2, <3>3, <4>1
    <3>4. CASE t \in A /\ t \notin B
      <4>1. B = A \ {t}
        BY <3>1, <3>4
      <4>2. IsFiniteSet(B) /\ Cardinality(B) = Cardinality(A) - 1
        BY <3>1, <3>4, <4>1, FS_RemoveElement
      <4>3. Cardinality(B) \in Nat
        BY <4>2, FS_CardinalityType
      <4> QED BY <3>1, <3>2, <3>4, <4>2, <4>3
    <3>5. CASE t \notin A /\ t \in B
      <4>1. B = A \cup {t}
        BY <3>1, <3>5
      <4>2. IsFiniteSet(B) /\ Cardinality(B) = Cardinality(A) + 1
        BY <3>1, <3>5, <4>1, FS_AddElement
      <4>3. Cardinality(B) \in Nat
        BY <4>2, FS_CardinalityType
      <4> QED BY <3>1, <3>2, <3>5, <4>2, <4>3
    <3> QED BY <3>3, <3>4, <3>5
  <2> HIDE DEF A, B
  <2>2. Cardinality(B) + In(p[t], places) = Cardinality(A) + In(q[t], places)
    BY <2>1 DEF In
  <2> QED BY <2>1, <2>2 DEF Recount, A, B
<1> QED BY <1>1

LEMMA TasksGone ==
  ASSUME NEW p, NEW q, NEW places, IsFiniteSet(TasksAt(p, places)),
         \A u \in Task : q[u] \in places => p[u] \in places
  PROVE  /\ IsFiniteSet(TasksAt(q, places))
         /\ Cardinality(TasksAt(p, places)) \in Nat /\ Cardinality(TasksAt(q, places)) \in Nat
         /\ Cardinality(TasksAt(q, places)) <= Cardinality(TasksAt(p, places))
         /\ \A t \in Task : p[t] \in places /\ q[t] \notin places =>
              Cardinality(TasksAt(q, places)) + 1 <= Cardinality(TasksAt(p, places))
<1> DEFINE A == TasksAt(p, places)  B == TasksAt(q, places)
<1>1. B \subseteq A
  BY DEF TasksAt
<1>2. IsFiniteSet(B) /\ Cardinality(B) <= Cardinality(A)
  BY <1>1, FS_Subset
<1>3. ASSUME NEW t \in Task, p[t] \in places, q[t] \notin places
      PROVE  Cardinality(B) + 1 <= Cardinality(A)
  <2>1. B \subseteq A \ {t} /\ t \in A
    BY <1>1, <1>3 DEF TasksAt
  <2>2. IsFiniteSet(A \ {t}) /\ Cardinality(A \ {t}) = Cardinality(A) - 1
    BY <2>1, FS_RemoveElement
  <2>3. Cardinality(B) <= Cardinality(A \ {t})
    BY <2>1, <2>2, FS_Subset
  <2> QED BY <1>2, <2>2, <2>3, FS_CardinalityType
<1> QED BY <1>2, <1>3, FS_CardinalityType

\* Of the tokens that will begin j, when none is added or one of them does.
LEMMA AgainFewer ==
  ASSUME NEW p, NEW s, NEW q, NEW v, NEW j, IsFiniteSet(TasksAt(p, TopAt)),
         \A u \in Task : q[u] = "reentering" /\ v[u] = j => p[u] = "reentering" /\ s[u] = j
  PROVE  /\ Cardinality(Again(q, v, j)) \in Nat /\ Cardinality(Again(p, s, j)) \in Nat
         /\ Cardinality(Again(q, v, j)) <= Cardinality(Again(p, s, j))
         /\ Cardinality(Again(p, s, j)) <= Cardinality(TasksAt(p, TopAt))
         /\ \A t \in Task : p[t] = "reentering" /\ s[t] = j /\ q[t] # "reentering" =>
              Cardinality(Again(q, v, j)) + 1 <= Cardinality(Again(p, s, j))
<1> DEFINE A == Again(p, s, j)  B == Again(q, v, j)
<1>1. A \subseteq TasksAt(p, TopAt) /\ B \subseteq A
  BY DEF Again, TasksAt, TopAt
<1>2. IsFiniteSet(A) /\ Cardinality(A) <= Cardinality(TasksAt(p, TopAt))
  BY <1>1, FS_Subset
<1>3. IsFiniteSet(B) /\ Cardinality(B) <= Cardinality(A)
  BY <1>1, <1>2, FS_Subset
<1>4. ASSUME NEW t \in Task, p[t] = "reentering", s[t] = j, q[t] # "reentering"
      PROVE  Cardinality(B) + 1 <= Cardinality(A)
  <2>1. B \subseteq A \ {t} /\ t \in A
    BY <1>1, <1>4 DEF Again
  <2>2. IsFiniteSet(A \ {t}) /\ Cardinality(A \ {t}) = Cardinality(A) - 1
    BY <1>2, <2>1, FS_RemoveElement
  <2>3. Cardinality(B) <= Cardinality(A \ {t})
    BY <2>1, <2>2, FS_Subset
  <2> QED BY <1>2, <1>3, <2>2, <2>3, FS_CardinalityType
<1> QED BY <1>2, <1>3, <1>4, FS_CardinalityType

\* The open tickets, when one is added and when one is decided.
LEMMA TicketOpened ==
  ASSUME tickets \in [Gates -> Seq({"PENDING", "APPROVED", "REJECTED"})], NEW g \in Gates,
         NEW k, k = [tickets EXCEPT ![g] = Append(@, "PENDING")], IsFiniteSet(Open(tickets))
  PROVE  /\ IsFiniteSet(Open(k)) /\ Cardinality(Open(tickets)) \in Nat
         /\ Cardinality(Open(k)) \in Nat /\ Cardinality(Open(k)) <= Cardinality(Open(tickets)) + 1
<1> DEFINE l == Len(tickets[g])
           x == <<g, l + 1>>
<1>1. /\ k[g] = Append(tickets[g], "PENDING") /\ l \in Nat
      /\ DOMAIN k[g] = 1..(l + 1) /\ DOMAIN tickets[g] = 1..l
      /\ \A n \in 1..l : k[g][n] = tickets[g][n]
      /\ \A h \in Gates : h # g => k[h] = tickets[h]
  OBVIOUS
<1> HIDE DEF l
<1>2. \A h \in Gates : \A n \in DOMAIN k[h] :
        (h = g /\ n = l + 1) \/ (n \in DOMAIN tickets[h] /\ tickets[h][n] = k[h][n])
  BY <1>1
<1>3. Open(k) \subseteq Open(tickets) \cup {x}
  <2> SUFFICES ASSUME NEW y \in Open(k), y # x PROVE y \in Open(tickets)
    OBVIOUS
  <2>1. PICK h \in Gates, n \in Nat : y = <<h, n>> /\ n \in DOMAIN k[h] /\ k[h][n] = "PENDING"
    BY DEF Open
  <2>2. ~(h = g /\ n = l + 1)
    BY <2>1
  <2> QED BY <1>2, <2>1, <2>2 DEF Open
<1>4. /\ IsFiniteSet(Open(tickets) \cup {x})
      /\ Cardinality(Open(tickets) \cup {x}) <= Cardinality(Open(tickets)) + 1
      /\ Cardinality(Open(tickets)) \in Nat
  <2> HIDE DEF x
  <2>1. Cardinality(Open(tickets)) \in Nat
    BY FS_CardinalityType
  <2>2. /\ IsFiniteSet(Open(tickets) \cup {x})
        /\ Cardinality(Open(tickets) \cup {x}) =
             IF x \in Open(tickets) THEN Cardinality(Open(tickets))
                                    ELSE Cardinality(Open(tickets)) + 1
    BY FS_AddElement
  <2> QED BY <2>1, <2>2
<1>5. IsFiniteSet(Open(k)) /\ Cardinality(Open(k)) <= Cardinality(Open(tickets) \cup {x})
  BY <1>3, <1>4, FS_Subset
<1> QED BY <1>4, <1>5, FS_CardinalityType

LEMMA TicketDecided ==
  ASSUME tickets \in [Gates -> Seq({"PENDING", "APPROVED", "REJECTED"})], NEW g \in Gates,
         NEW n \in DOMAIN tickets[g], tickets[g][n] = "PENDING", NEW v, v # "PENDING",
         NEW k, k = [tickets EXCEPT ![g][n] = v], IsFiniteSet(Open(tickets))
  PROVE  /\ IsFiniteSet(Open(k)) /\ Cardinality(Open(tickets)) \in Nat
         /\ Cardinality(Open(k)) \in Nat /\ Cardinality(Open(k)) + 1 <= Cardinality(Open(tickets))
<1> DEFINE x == <<g, n>>
<1>1. /\ k[g] = [tickets[g] EXCEPT ![n] = v] /\ n \in Nat
      /\ \A h \in Gates : h # g => k[h] = tickets[h]
  OBVIOUS
<1>2. \A h \in Gates : \A i \in DOMAIN k[h] :
        k[h][i] = "PENDING" => i \in DOMAIN tickets[h] /\ tickets[h][i] = "PENDING"
                               /\ ~(h = g /\ i = n)
  BY <1>1
<1>3. Open(k) \subseteq Open(tickets) \ {x}
  <2> SUFFICES ASSUME NEW y \in Open(k) PROVE y \in Open(tickets) /\ y # x
    OBVIOUS
  <2>1. PICK h \in Gates, i \in Nat : y = <<h, i>> /\ i \in DOMAIN k[h] /\ k[h][i] = "PENDING"
    BY DEF Open
  <2> QED BY <1>2, <2>1 DEF Open
<1>4. x \in Open(tickets)
  BY <1>1 DEF Open
<1>5. /\ IsFiniteSet(Open(tickets) \ {x})
      /\ Cardinality(Open(tickets) \ {x}) = Cardinality(Open(tickets)) - 1
      /\ Cardinality(Open(tickets)) \in Nat
  BY <1>4, FS_RemoveElement, FS_CardinalityType
<1>6. IsFiniteSet(Open(k)) /\ Cardinality(Open(k)) <= Cardinality(Open(tickets) \ {x})
  BY <1>3, <1>5, FS_Subset
<1> QED BY <1>5, <1>6, FS_CardinalityType

LEMMA PlaceIs ==
  InstanceShape =>
    /\ place \in Nat /\ row.index \in Nat
    /\ mem \in Instance => place = mem.index
    /\ mem.state = "NONE" => place = row.index
<1> SUFFICES ASSUME InstanceShape
             PROVE  /\ place \in Nat /\ row.index \in Nat
                    /\ mem \in Instance => place = mem.index
                    /\ mem.state = "NONE" => place = row.index
  OBVIOUS
<1>1. Known \in Instance /\ row \in Instance
  BY InstanceAssumption, KnownIs, PlacedFacts
<1>2. mem \in Instance => mem.state # "NONE"
  BY Fields
<1> QED BY <1>1, <1>2, Fields DEF place, Known
LEMMA PlaceNext ==
  (InstanceShape =>
    /\ place \in Nat /\ row.index \in Nat
    /\ mem \in Instance => place = mem.index
    /\ mem.state = "NONE" => place = row.index)'
BY PlaceIs, PTL

LEMMA BudgetFacts ==
  ASSUME InstanceAssumption, InstanceShape, Budget
  PROVE  /\ place \in Nat /\ row.index \in Nat /\ row.index <= place
         /\ tops \in Nat /\ passing \in Nat /\ inside \in Nat /\ allowed \in Nat
         /\ Cardinality(Open(tickets)) \in Nat
         /\ \A j \in Step : /\ j \in Nat /\ ran[j] \in Nat
                            /\ again(j) \in Nat /\ again(j) <= tops
         /\ pc \in [Task -> Waits] /\ step \in [Task -> 0..Steps]
         /\ tickets \in [Gates -> Seq({"PENDING", "APPROVED", "REJECTED"})]
         /\ ran \in [Step -> Nat]
<1>1. /\ IsFiniteSet(TasksAt(pc, TopAt)) /\ IsFiniteSet(TasksAt(pc, PassingAt))
      /\ IsFiniteSet(TasksAt(pc, InsideAt)) /\ IsFiniteSet(Open(tickets))
  BY DEF Budget, TokensFinite
<1>2. \A j \in Step : again(j) \in Nat /\ again(j) <= tops
  BY <1>1, AgainFewer DEF again, tops
<1>3. /\ tops \in Nat /\ passing \in Nat /\ Cardinality(TasksAt(pc, InsideAt)) \in Nat
      /\ Cardinality(Open(tickets)) \in Nat
  BY <1>1, FS_CardinalityType DEF tops, passing
<1>4. inside \in Nat
  BY <1>3 DEF inside
<1>5. ran \in [Step -> Nat] /\ allowed \in Nat
  BY ShapeParts DEF RestTyped, allowed, InstanceAssumption
<1>6. \A j \in Step : j \in Nat
  BY DEF Step, InstanceAssumption
<1> QED BY <1>2, <1>3, <1>4, <1>5, <1>6, PlaceIs, ShapeParts DEF Budget, RestTyped, Pending

\* The tokens of the next state, when it has no more than one of a kind in addition.
LEMMA CountedNext ==
  ASSUME TokensFinite', NEW j
  PROVE  /\ tops' \in Nat /\ passing' \in Nat /\ inside' \in Nat
         /\ again(j)' \in Nat /\ again(j)' <= tops'
<1>1. /\ IsFiniteSet(TasksAt(pc', TopAt)) /\ IsFiniteSet(TasksAt(pc', PassingAt))
      /\ IsFiniteSet(TasksAt(pc', InsideAt)) /\ IsFiniteSet(Open(tickets'))
  BY DEF TokensFinite, TasksAt, Open
<1>2. /\ tops' = Cardinality(TasksAt(pc', TopAt)) /\ passing' = Cardinality(TasksAt(pc', PassingAt))
      /\ inside' = Cardinality(TasksAt(pc', InsideAt)) + Cardinality(Open(tickets'))
      /\ again(j)' = Cardinality(Again(pc', step', j))
  BY DEF tops, passing, inside, again, TasksAt, Open, Again
<1>3. /\ Cardinality(TasksAt(pc', TopAt)) \in Nat /\ Cardinality(TasksAt(pc', PassingAt)) \in Nat
      /\ Cardinality(TasksAt(pc', InsideAt)) \in Nat /\ Cardinality(Open(tickets')) \in Nat
  BY <1>1, FS_CardinalityType
<1> QED BY <1>1, <1>2, <1>3, AgainFewer

LEMMA Numbers ==
  ASSUME InstanceAssumption, InstanceShape, Budget
  PROVE  /\ place \in Nat /\ row.index \in Nat /\ row.index <= place
         /\ tops \in Nat /\ passing \in Nat /\ inside \in Nat /\ allowed \in Nat
         /\ Cardinality(Open(tickets)) \in Nat
BY BudgetFacts

LEMMA NumbersNext ==
  ASSUME TokensFinite' PROVE tops' \in Nat /\ passing' \in Nat /\ inside' \in Nat
BY CountedNext

LEMMA OfStep ==
  ASSUME InstanceAssumption, InstanceShape, Budget, NEW j \in Step
  PROVE  /\ j \in Nat /\ ran[j] \in Nat /\ again(j) \in Nat /\ again(j) <= tops
         /\ Fits(row.index, place, tops, passing, inside, allowed, j, ran[j], again(j))
BY BudgetFacts DEF Budget

LEMMA OfStepNext ==
  ASSUME TokensFinite', NEW j PROVE again(j)' \in Nat /\ again(j)' <= tops'
BY CountedNext

LEMMA BudgetKept ==
  ASSUME InstanceAssumption, InstanceShape, Budget, TokensFinite',
         place' = place, row'.index \in {row.index, place}, ran' = ran, allowed' = allowed,
         tops' + passing' <= tops + passing, tops' <= tops \/ row'.index = place,
         inside' <= inside, \A j \in Step : again(j)' <= again(j) \/ j >= place,
         \A t \in Task : pc'[t] = "reentering" => step'[t] \in Step /\ step'[t] <= place
  PROVE  Budget'
<1>1. ASSUME NEW j \in Step
      PROVE  Fits(row'.index, place', tops', passing', inside', allowed', j, ran'[j], again(j)')
  <2>1. /\ j \in Nat /\ ran[j] \in Nat /\ again(j) \in Nat
        /\ Fits(row.index, place, tops, passing, inside, allowed, j, ran[j], again(j))
    BY OfStep
  <2>2. again(j)' \in Nat /\ (again(j)' <= again(j) \/ j >= place)
    BY OfStepNext
  <2>3. /\ row.index \in Nat /\ place \in Nat /\ tops \in Nat /\ passing \in Nat /\ inside \in Nat
        /\ allowed \in Nat /\ row.index <= place
    BY Numbers
  <2>4. tops' \in Nat /\ passing' \in Nat /\ inside' \in Nat
    BY NumbersNext
  <2>5. Fits(row'.index, place, tops', passing', inside', allowed, j, ran[j], again(j)')
    <3>0. ASSUME NEW r1 \in {row.index, place}, row'.index = r1
          PROVE  Fits(r1, place, tops', passing', inside', allowed, j, ran[j], again(j)')
      <4> DEFINE r == row.index
                 n == ran[j]
                 a == again(j)
                 a1 == again(j)'
                 t1 == tops'
                 w1 == passing'
                 p1 == inside'
      <4>1. /\ r \in Nat /\ place \in Nat /\ tops \in Nat /\ passing \in Nat /\ inside \in Nat
            /\ allowed \in Nat /\ j \in Nat /\ n \in Nat /\ a \in Nat /\ r <= place
            /\ Fits(r, place, tops, passing, inside, allowed, j, n, a)
        BY <2>1, <2>3
      <4>2. /\ r1 \in {r, place} /\ t1 \in Nat /\ w1 \in Nat /\ p1 \in Nat /\ a1 \in Nat
            /\ t1 + w1 <= tops + passing /\ (t1 <= tops \/ r1 = place) /\ p1 <= inside
            /\ (a1 <= a \/ j >= place)
        BY <2>2, <2>4, <3>0
      <4> HIDE DEF r, n, a, a1, t1, w1, p1
      <4>3. Fits(r1, place, t1, w1, p1, allowed, j, n, a1)
        <5>1. CASE j >= place
          <6>1. Spares(n + t1 + w1, p1, j - place, allowed)
            BY <4>1, <4>2, <5>1 DEF Fits, Spares
          <6>2. Spares(n + t1 + (place - r1), p1, j - place, allowed)
            BY <4>1, <4>2, <5>1 DEF Fits, Spares
          <6> QED BY <4>1, <4>2, <5>1, <6>1, <6>2 DEF Fits
        <5>2. CASE j < place
          BY <4>1, <4>2, <5>2 DEF Fits
        <5> QED BY <4>1, <5>1, <5>2
      <4> QED BY <4>3 DEF n, a1, t1, w1, p1
    <3>1. CASE row'.index = row.index
      <4>1. Fits(row.index, place, tops', passing', inside', allowed, j, ran[j], again(j)')
        BY <3>0, <3>1
      <4> QED BY <3>1, <4>1
    <3>2. CASE row'.index = place
      <4>1. Fits(place, place, tops', passing', inside', allowed, j, ran[j], again(j)')
        BY <3>0, <3>2
      <4> QED BY <3>2, <4>1
    <3> QED BY <3>1, <3>2
  <2> QED BY <2>5
<1>2. row'.index <= place'
  BY Numbers
<1> QED BY <1>1, <1>2 DEF Budget

LEMMA CountsAre ==
  /\ tops = Cardinality(TasksAt(pc, TopAt)) /\ passing = Cardinality(TasksAt(pc, PassingAt))
  /\ inside = Cardinality(TasksAt(pc, InsideAt)) + Cardinality(Open(tickets))
  /\ tops' = Cardinality(TasksAt(pc', TopAt)) /\ passing' = Cardinality(TasksAt(pc', PassingAt))
  /\ inside' = Cardinality(TasksAt(pc', InsideAt)) + Cardinality(Open(tickets'))
  /\ \A j : again(j) = Cardinality(Again(pc, step, j))
  /\ \A j : again(j)' = Cardinality(Again(pc', step', j))
  /\ TokensFinite' <=> /\ IsFiniteSet(TasksAt(pc', TopAt)) /\ IsFiniteSet(TasksAt(pc', PassingAt))
                  /\ IsFiniteSet(TasksAt(pc', InsideAt)) /\ IsFiniteSet(Open(tickets'))
BY DEF tops, passing, inside, again, TokensFinite, TasksAt, Open, Again

LEMMA TotalsAre ==
  /\ tops = Cardinality(TasksAt(pc, TopAt)) /\ passing = Cardinality(TasksAt(pc, PassingAt))
  /\ inside = Cardinality(TasksAt(pc, InsideAt)) + Cardinality(Open(tickets))
  /\ tops' = Cardinality(TasksAt(pc', TopAt)) /\ passing' = Cardinality(TasksAt(pc', PassingAt))
  /\ inside' = Cardinality(TasksAt(pc', InsideAt)) + Cardinality(Open(tickets'))
  /\ TokensFinite' <=> /\ IsFiniteSet(TasksAt(pc', TopAt)) /\ IsFiniteSet(TasksAt(pc', PassingAt))
                       /\ IsFiniteSet(TasksAt(pc', InsideAt)) /\ IsFiniteSet(Open(tickets'))
BY CountsAre

LEMMA PlacesApart ==
  /\ \A w \in TopAt : w \notin PassingAt /\ w \notin InsideAt /\ w \in TokenAt
  /\ \A w \in PassingAt : w \notin TopAt /\ w \notin InsideAt /\ w \in TokenAt
  /\ \A w \in InsideAt : w \notin TopAt /\ w \notin PassingAt /\ w \in TokenAt
  /\ "reentering" \in TopAt
BY DEF TopAt, PassingAt, InsideAt, TokenAt

(* Tokens are lost at most.                                                *)
LEMMA BudgetDrops ==
  ASSUME InstanceAssumption, InstanceShape, Budget,
         place' = place, row'.index \in {row.index, place}, ran' = ran, allowed' = allowed,
         tickets' = tickets,
         \A u \in Task : pc'[u] \in TokenAt => pc'[u] = pc[u] /\ step'[u] = step[u]
  PROVE  Budget'
<1>1. /\ IsFiniteSet(TasksAt(pc, TopAt)) /\ IsFiniteSet(TasksAt(pc, PassingAt))
      /\ IsFiniteSet(TasksAt(pc, InsideAt)) /\ IsFiniteSet(Open(tickets))
  BY DEF Budget, TokensFinite
<1>2. \A u \in Task : /\ pc'[u] \in TopAt => pc[u] \in TopAt
                      /\ pc'[u] \in PassingAt => pc[u] \in PassingAt
                      /\ pc'[u] \in InsideAt => pc[u] \in InsideAt
                      /\ pc'[u] = "reentering" => pc[u] = "reentering" /\ step'[u] = step[u]
  BY PlacesApart
<1>3. /\ IsFiniteSet(TasksAt(pc', TopAt)) /\ tops' <= tops
      /\ IsFiniteSet(TasksAt(pc', PassingAt)) /\ passing' <= passing
      /\ IsFiniteSet(TasksAt(pc', InsideAt))
      /\ Cardinality(TasksAt(pc', InsideAt)) <= Cardinality(TasksAt(pc, InsideAt))
      /\ Cardinality(TasksAt(pc', InsideAt)) \in Nat /\ Cardinality(TasksAt(pc, InsideAt)) \in Nat
  BY <1>1, <1>2, TasksGone, CountsAre
<1>4. TokensFinite' /\ inside' <= inside
  BY <1>1, <1>3, TotalsAre, Numbers
<1>5. \A j \in Step : again(j)' <= again(j)
  BY <1>1, <1>2, AgainFewer, CountsAre
<1>6. tops' + passing' <= tops + passing
  BY <1>3, <1>4, NumbersNext, Numbers
<1>7. \A t \in Task : pc'[t] = "reentering" => step'[t] \in Step /\ step'[t] <= place
  BY <1>2 DEF Budget
<1> QED BY <1>3, <1>4, <1>5, <1>6, <1>7, BudgetKept

\* A ticket takes the place of the task that asked for it.
LEMMA BudgetAsked ==
  ASSUME InstanceAssumption, InstanceShape, Budget,
         place' = place, row'.index \in {row.index, place}, ran' = ran, allowed' = allowed,
         NEW t \in Task, pc[t] = "asking", pc'[t] \notin TokenAt,
         NEW g \in Gates, tickets' = [tickets EXCEPT ![g] = Append(@, "PENDING")],
         \A u \in Task : pc'[u] \in TokenAt => pc'[u] = pc[u] /\ step'[u] = step[u]
  PROVE  Budget'
<1>1. /\ IsFiniteSet(TasksAt(pc, TopAt)) /\ IsFiniteSet(TasksAt(pc, PassingAt))
      /\ IsFiniteSet(TasksAt(pc, InsideAt)) /\ IsFiniteSet(Open(tickets))
  BY DEF Budget, TokensFinite
<1>2. \A u \in Task : /\ pc'[u] \in TopAt => pc[u] \in TopAt
                      /\ pc'[u] \in PassingAt => pc[u] \in PassingAt
                      /\ pc'[u] \in InsideAt => pc[u] \in InsideAt
                      /\ pc'[u] = "reentering" => pc[u] = "reentering" /\ step'[u] = step[u]
  BY PlacesApart
<1>3. pc[t] \in InsideAt /\ pc'[t] \notin InsideAt
  BY PlacesApart DEF InsideAt
<1>4. /\ IsFiniteSet(TasksAt(pc', TopAt)) /\ tops' <= tops
      /\ IsFiniteSet(TasksAt(pc', PassingAt)) /\ passing' <= passing
      /\ IsFiniteSet(TasksAt(pc', InsideAt))
      /\ Cardinality(TasksAt(pc', InsideAt)) + 1 <= Cardinality(TasksAt(pc, InsideAt))
      /\ Cardinality(TasksAt(pc', InsideAt)) \in Nat /\ Cardinality(TasksAt(pc, InsideAt)) \in Nat
  BY <1>1, <1>2, <1>3, TasksGone, CountsAre
<1>5. /\ IsFiniteSet(Open(tickets')) /\ Cardinality(Open(tickets')) \in Nat
      /\ Cardinality(Open(tickets')) <= Cardinality(Open(tickets)) + 1
  BY <1>1, TicketOpened, BudgetFacts
<1>6. TokensFinite' /\ inside' <= inside
  BY <1>4, <1>5, TotalsAre, Numbers, SMTT(30)
<1>7. \A j \in Step : again(j)' <= again(j)
  BY <1>1, <1>2, AgainFewer, CountsAre
<1>8. tops' + passing' <= tops + passing
  BY <1>4, <1>6, NumbersNext, Numbers, SMTT(30)
<1>9. \A u \in Task : pc'[u] = "reentering" => step'[u] \in Step /\ step'[u] <= place
  BY <1>2 DEF Budget
<1> QED BY <1>4, <1>6, <1>7, <1>8, <1>9, BudgetKept

\* A token is handed on, or its record is saved.
LEMMA BudgetHanded ==
  ASSUME InstanceAssumption, InstanceShape, Budget,
         place' = place, row'.index \in {row.index, place}, ran' = ran, allowed' = allowed,
         tickets' = tickets,
         NEW t \in Task, pc[t] \in TopAt \/ (pc[t] \in PassingAt /\ row'.index = place),
         NEW d \in Task, pc'[d] \in TopAt,
         d # t => pc[d] \notin TokenAt /\ pc'[t] \notin TokenAt,
         pc'[d] = "reentering" => place \in Step /\ step'[d] = place,
         \A u \in Task : u \notin {t, d} => pc'[u] = pc[u] /\ step'[u] = step[u]
  PROVE  Budget'
<1>1. /\ IsFiniteSet(TasksAt(pc, TopAt)) /\ IsFiniteSet(TasksAt(pc, PassingAt))
      /\ IsFiniteSet(TasksAt(pc, InsideAt)) /\ IsFiniteSet(Open(tickets))
  BY DEF Budget, TokensFinite
<1> DEFINE q == [pc EXCEPT ![t] = pc'[t]]
<1>2. /\ \A u \in Task : u # t => q[u] = pc[u]
      /\ \A u \in Task : u # d => pc'[u] = q[u]
      /\ q[t] = pc'[t]
  BY BudgetFacts
<1>3. q[d] = IF d = t THEN pc'[d] ELSE pc[d]
  BY <1>2
<1> HIDE DEF q
<1>4. Recount(pc, q, t, TopAt) /\ Recount(pc, q, t, PassingAt) /\ Recount(pc, q, t, InsideAt)
  BY <1>1, <1>2, TokensMove
<1>5. /\ Recount(q, pc', d, TopAt) /\ Recount(q, pc', d, PassingAt)
      /\ Recount(q, pc', d, InsideAt)
  <2>1. /\ IsFiniteSet(TasksAt(q, TopAt)) /\ IsFiniteSet(TasksAt(q, PassingAt))
        /\ IsFiniteSet(TasksAt(q, InsideAt))
    BY <1>4 DEF Recount
  <2> QED BY <1>2, <2>1, TokensMove
<1>6. /\ In(q[t], TopAt) = In(q[d], TopAt) /\ In(pc'[d], TopAt) = 1
      /\ In(q[t], PassingAt) = In(q[d], PassingAt) /\ In(pc'[d], PassingAt) = 0
      /\ In(q[t], InsideAt) = In(q[d], InsideAt) /\ In(pc'[d], InsideAt) = 0
      /\ In(pc[t], InsideAt) = 0
      /\ In(q[d], TopAt) \in Nat /\ In(q[d], PassingAt) \in Nat /\ In(q[d], InsideAt) \in Nat
  <2>1. d # t => /\ q[t] \notin TopAt /\ q[t] \notin PassingAt /\ q[t] \notin InsideAt
                 /\ q[d] \notin TopAt /\ q[d] \notin PassingAt /\ q[d] \notin InsideAt
    BY <1>2, <1>3, PlacesApart
  <2> QED BY <2>1, PlacesApart DEF In
<1>7. \/ In(pc[t], TopAt) = 1 /\ In(pc[t], PassingAt) = 0
      \/ In(pc[t], TopAt) = 0 /\ In(pc[t], PassingAt) = 1 /\ row'.index = place
  BY PlacesApart DEF In
<1>8. /\ IsFiniteSet(TasksAt(pc', TopAt)) /\ IsFiniteSet(TasksAt(pc', PassingAt))
      /\ IsFiniteSet(TasksAt(pc', InsideAt))
      /\ Cardinality(TasksAt(pc', TopAt)) + In(pc[t], TopAt) = Cardinality(TasksAt(pc, TopAt)) + 1
      /\ Cardinality(TasksAt(pc', PassingAt)) + In(pc[t], PassingAt) =
           Cardinality(TasksAt(pc, PassingAt))
      /\ Cardinality(TasksAt(pc', InsideAt)) = Cardinality(TasksAt(pc, InsideAt))
  BY <1>4, <1>5, <1>6, <1>7 DEF Recount
<1>9. TokensFinite' /\ inside' = inside
  BY <1>1, <1>8, TotalsAre
<1>10. tops' + passing' <= tops + passing /\ (tops' <= tops \/ row'.index = place)
  BY <1>7, <1>8, <1>9, TotalsAre, Numbers, NumbersNext
<1>11. \A j \in Step : again(j)' <= again(j) \/ j >= place
  <2> SUFFICES ASSUME NEW j \in Step, ~(j >= place) PROVE again(j)' <= again(j)
    OBVIOUS
  <2>1. j # place
    BY Numbers, OfStep
  <2>2. \A u \in Task : pc'[u] = "reentering" /\ step'[u] = j =>
                         pc[u] = "reentering" /\ step[u] = j
    <3> SUFFICES ASSUME NEW u \in Task, pc'[u] = "reentering", step'[u] = j
                 PROVE  pc[u] = "reentering" /\ step[u] = j
      OBVIOUS
    <3>1. u # d
      BY <2>1
    <3>2. u # t
      BY <3>1, PlacesApart
    <3> QED BY <3>1, <3>2
  <2> QED BY <1>1, <2>2, AgainFewer, CountsAre
<1>12. \A u \in Task : pc'[u] = "reentering" => step'[u] \in Step /\ step'[u] <= place
  <2> SUFFICES ASSUME NEW u \in Task, pc'[u] = "reentering"
               PROVE  step'[u] \in Step /\ step'[u] <= place
    OBVIOUS
  <2>1. CASE u = d
    BY <2>1, Numbers
  <2>2. CASE u # d
    <3>1. u # t
      BY <2>2, PlacesApart
    <3> QED BY <2>2, <3>1 DEF Budget
  <2> QED BY <2>1, <2>2
<1>13. inside' <= inside
  BY <1>9, Numbers
<1> QED BY <1>9, <1>10, <1>11, <1>12, <1>13, BudgetKept

\* A token passes the present step: one that was inside it, or the boot's.
LEMMA BudgetPassed ==
  ASSUME InstanceAssumption, InstanceShape, Budget,
         place' = place + 1, row' = row, ran' = ran, allowed' = allowed, tickets' = tickets,
         NEW t \in Task, pc[t] \in InsideAt \cup TopAt, pc'[t] \in PassingAt,
         \A u \in Task : u # t => pc'[u] = pc[u] /\ step'[u] = step[u]
  PROVE  Budget'
<1>1. /\ IsFiniteSet(TasksAt(pc, TopAt)) /\ IsFiniteSet(TasksAt(pc, PassingAt))
      /\ IsFiniteSet(TasksAt(pc, InsideAt)) /\ IsFiniteSet(Open(tickets))
  BY DEF Budget, TokensFinite
<1>2. /\ IsFiniteSet(TasksAt(pc', TopAt)) /\ IsFiniteSet(TasksAt(pc', PassingAt))
      /\ IsFiniteSet(TasksAt(pc', InsideAt))
      /\ Cardinality(TasksAt(pc', PassingAt)) = Cardinality(TasksAt(pc, PassingAt)) + 1
      /\ pc[t] \in InsideAt =>
           /\ Cardinality(TasksAt(pc', TopAt)) = Cardinality(TasksAt(pc, TopAt))
           /\ Cardinality(TasksAt(pc', InsideAt)) + 1 = Cardinality(TasksAt(pc, InsideAt))
      /\ pc[t] \in TopAt =>
           /\ Cardinality(TasksAt(pc', TopAt)) + 1 = Cardinality(TasksAt(pc, TopAt))
           /\ Cardinality(TasksAt(pc', InsideAt)) = Cardinality(TasksAt(pc, InsideAt))
      /\ Cardinality(TasksAt(pc, InsideAt)) \in Nat /\ Cardinality(TasksAt(pc', InsideAt)) \in Nat
  <2>1. Recount(pc, pc', t, TopAt) /\ Recount(pc, pc', t, PassingAt) /\ Recount(pc, pc', t, InsideAt)
    BY <1>1, TokensMove
  <2>2. /\ In(pc'[t], TopAt) = 0 /\ In(pc'[t], PassingAt) = 1 /\ In(pc'[t], InsideAt) = 0
        /\ In(pc[t], PassingAt) = 0
        /\ pc[t] \in InsideAt => In(pc[t], TopAt) = 0 /\ In(pc[t], InsideAt) = 1
        /\ pc[t] \in TopAt => In(pc[t], TopAt) = 1 /\ In(pc[t], InsideAt) = 0
    BY PlacesApart DEF In
  <2> QED BY <2>1, <2>2 DEF Recount
<1>3. TokensFinite'
  BY <1>1, <1>2, TotalsAre
<1>4. /\ passing' = passing + 1
      /\ (tops' <= tops /\ inside' + 1 <= inside) \/ (tops' + 1 <= tops /\ inside' <= inside)
  BY <1>2, <1>3, TotalsAre, NumbersNext, Numbers
<1>5. \A u \in Task : pc'[u] = "reentering" => pc[u] = "reentering" /\ step'[u] = step[u]
  BY PlacesApart
<1>6. \A j \in Step : again(j)' <= again(j)
  BY <1>1, <1>5, AgainFewer, CountsAre
<1>7. ASSUME NEW j \in Step
      PROVE  Fits(row'.index, place', tops', passing', inside', allowed', j, ran'[j], again(j)')
  <2>1. /\ j \in Nat /\ ran[j] \in Nat /\ again(j) \in Nat /\ again(j) <= tops
        /\ Fits(row.index, place, tops, passing, inside, allowed, j, ran[j], again(j))
    BY OfStep
  <2>2. passing' <= passing + 1
    BY <1>4, Numbers
  <2>3. again(j)' \in Nat /\ again(j)' <= again(j) /\ again(j)' <= tops'
    BY <1>3, <1>6, OfStepNext
  <2>4. tops' \in Nat /\ passing' \in Nat /\ inside' \in Nat
    BY <1>3, NumbersNext
  <2>5. /\ row.index \in Nat /\ place \in Nat /\ tops \in Nat /\ passing \in Nat /\ inside \in Nat
        /\ allowed \in Nat /\ row.index <= place
    BY Numbers
  <2>6. Fits(row.index, place + 1, tops', passing', inside', allowed, j, ran[j], again(j)')
    BY <1>4, <2>1, <2>2, <2>3, <2>4, <2>5, FitsPassed
  <2> QED BY <2>6
<1>8. row'.index <= place'
  BY Numbers
<1>9. \A u \in Task : pc'[u] = "reentering" => step'[u] \in Step /\ step'[u] <= place'
  <2> SUFFICES ASSUME NEW u \in Task, pc'[u] = "reentering"
               PROVE  step'[u] \in Step /\ step'[u] <= place'
    OBVIOUS
  <2>1. step[u] \in Step /\ step[u] <= place /\ step'[u] = step[u]
    BY <1>5 DEF Budget
  <2> QED BY <2>1, BudgetFacts
<1> QED BY <1>3, <1>7, <1>8, <1>9 DEF Budget

\* A token begins step i, the present one or, if it waited, one before.
LEMMA BudgetBegun ==
  ASSUME InstanceAssumption, InstanceShape, Budget,
         place' = place, row'.index \in {row.index, place}, allowed' = allowed,
         tickets' = tickets, NEW t \in Task, pc[t] \in TopAt, NEW i \in Step,
         i = place \/ (pc[t] = "reentering" /\ step[t] = i),
         pc'[t] \in InsideAt, ran' = [ran EXCEPT ![i] = @ + 1],
         \A u \in Task : u # t => pc'[u] = pc[u] /\ step'[u] = step[u]
  PROVE  Budget'
<1>1. /\ IsFiniteSet(TasksAt(pc, TopAt)) /\ IsFiniteSet(TasksAt(pc, PassingAt))
      /\ IsFiniteSet(TasksAt(pc, InsideAt)) /\ IsFiniteSet(Open(tickets))
  BY DEF Budget, TokensFinite
<1>2. /\ IsFiniteSet(TasksAt(pc', TopAt)) /\ IsFiniteSet(TasksAt(pc', PassingAt))
      /\ IsFiniteSet(TasksAt(pc', InsideAt))
      /\ Cardinality(TasksAt(pc', PassingAt)) = Cardinality(TasksAt(pc, PassingAt))
      /\ Cardinality(TasksAt(pc', TopAt)) + 1 = Cardinality(TasksAt(pc, TopAt))
      /\ Cardinality(TasksAt(pc', InsideAt)) = Cardinality(TasksAt(pc, InsideAt)) + 1
      /\ Cardinality(TasksAt(pc, InsideAt)) \in Nat /\ Cardinality(TasksAt(pc', InsideAt)) \in Nat
  <2>1. Recount(pc, pc', t, TopAt) /\ Recount(pc, pc', t, PassingAt) /\ Recount(pc, pc', t, InsideAt)
    BY <1>1, TokensMove
  <2>2. /\ In(pc'[t], TopAt) = 0 /\ In(pc'[t], PassingAt) = 0 /\ In(pc'[t], InsideAt) = 1
        /\ In(pc[t], TopAt) = 1 /\ In(pc[t], PassingAt) = 0 /\ In(pc[t], InsideAt) = 0
    BY PlacesApart DEF In
  <2> QED BY <2>1, <2>2 DEF Recount
<1>3. TokensFinite'
  BY <1>1, <1>2, TotalsAre
<1>4. passing' <= passing /\ tops' + 1 <= tops /\ inside' <= inside + 1
  BY <1>2, <1>3, TotalsAre, NumbersNext, Numbers
<1>5. pc'[t] # "reentering"
      /\ \A u \in Task : pc'[u] = "reentering" => pc[u] = "reentering" /\ step'[u] = step[u]
  BY PlacesApart
<1>6. \A j \in Step : /\ again(j)' <= again(j)
                      /\ pc[t] = "reentering" /\ step[t] = j => again(j)' + 1 <= again(j)
  BY <1>1, <1>5, AgainFewer, CountsAre
<1>7. i <= place
  BY BudgetFacts, SMTT(30) DEF Budget
<1>8. ASSUME NEW j \in Step
      PROVE  Fits(row'.index, place', tops', passing', inside', allowed', j, ran'[j], again(j)')
  <2>1. /\ j \in Nat /\ ran[j] \in Nat /\ again(j) \in Nat /\ again(j) <= tops
        /\ Fits(row.index, place, tops, passing, inside, allowed, j, ran[j], again(j))
    BY OfStep
  <2>2. \/ ran'[j] = ran[j] /\ again(j)' <= again(j)
        \/ ran'[j] = ran[j] + 1 /\ j = place
        \/ ran'[j] = ran[j] + 1 /\ j < place /\ again(j)' + 1 <= again(j)
    <3>1. CASE j # i
      BY <1>6, <3>1, BudgetFacts
    <3>2. CASE j = i
      <4>1. ran'[j] = ran[j] + 1
        BY <3>2, BudgetFacts
      <4> QED BY <1>6, <1>7, <3>2, <4>1, BudgetFacts
    <3> QED BY <3>1, <3>2
  <2>3. ran'[j] \in Nat
    BY BudgetFacts, SMTT(30)
  <2>4. again(j)' \in Nat /\ again(j)' <= tops'
    BY <1>3, OfStepNext
  <2>5. tops' \in Nat /\ passing' \in Nat /\ inside' \in Nat
    BY <1>3, NumbersNext
  <2>6. /\ row.index \in Nat /\ place \in Nat /\ tops \in Nat /\ passing \in Nat /\ inside \in Nat
        /\ allowed \in Nat /\ row.index <= place
    BY Numbers
  <2>7. Fits(row'.index, place, tops', passing', inside', allowed, j, ran'[j], again(j)')
    <3> DEFINE here == row'.index
               before == ran[j]
               t1 == tops'
               w1 == passing'
               p1 == inside'
               a1 == again(j)'
               kept(n) == Fits(here, place, t1, w1, p1, allowed, j, n, a1)
    <3>1. here = row.index \/ here = place
      OBVIOUS
    <3>2. before \in Nat /\ j \in Nat
      BY ONLY <2>1
    <3>3. Fits(row.index, place, tops, passing, inside, allowed, j, before, again(j))
      BY ONLY <2>1
    <3>4. t1 \in Nat /\ w1 \in Nat /\ p1 \in Nat /\ a1 \in Nat
      BY ONLY <2>4, <2>5
    <3>5. t1 + 1 <= tops /\ w1 <= passing /\ p1 <= inside + 1
      BY ONLY <1>4
    <3> HIDE DEF here, before, t1, w1, p1, a1
    <3>6. here \in Nat /\ here <= place /\ row.index <= here
      BY ONLY <2>6, <3>1
    <3>7. CASE ran'[j] = ran[j] /\ again(j)' <= again(j)
      <4>1. a1 <= again(j)
        BY <3>7 DEF a1
      <4>2. kept(before)
        <5>1. CASE j > place
          BY ONLY <2>1, <2>6, <3>1, <3>2, <3>3, <3>4, <3>5, <3>6, <4>1, <5>1 DEF Fits, Spares
        <5>2. CASE j = place
          BY ONLY <2>1, <2>6, <3>1, <3>2, <3>3, <3>4, <3>5, <3>6, <4>1, <5>2 DEF Fits, Spares
        <5>3. CASE j < place
          BY ONLY <2>1, <2>6, <3>1, <3>2, <3>3, <3>4, <3>5, <3>6, <4>1, <5>3 DEF Fits, Spares
        <5> QED BY ONLY <2>6, <3>2, <5>1, <5>2, <5>3
      <4> QED BY <3>7, <4>2 DEF here, before, t1, w1, p1, a1
    <3>8. CASE ran'[j] = ran[j] + 1 /\ j = place
      <4>1. kept(before + 1)
        <5>1. j = place
          BY <3>8
        <5> QED BY ONLY <2>1, <2>6, <3>1, <3>2, <3>3, <3>4, <3>5, <3>6, <5>1 DEF Fits, Spares
      <4> QED BY <3>8, <4>1 DEF here, before, t1, w1, p1, a1
    <3>9. CASE ran'[j] = ran[j] + 1 /\ j < place /\ again(j)' + 1 <= again(j)
      <4>1. a1 + 1 <= again(j) /\ j < place
        BY <3>9 DEF a1
      <4>2. kept(before + 1)
        BY ONLY <2>1, <2>6, <3>1, <3>2, <3>3, <3>4, <3>5, <3>6, <4>1 DEF Fits, Spares
      <4> QED BY <3>9, <4>2 DEF here, before, t1, w1, p1, a1
    <3> QED BY <2>2, <3>7, <3>8, <3>9
  <2> QED BY <2>7
<1>9. row'.index <= place'
  BY Numbers
<1>10. \A u \in Task : pc'[u] = "reentering" => step'[u] \in Step /\ step'[u] <= place'
  BY <1>5 DEF Budget
<1> QED BY <1>3, <1>8, <1>9, <1>10 DEF Budget

\* The boot opens the ticket that a gate lacks.
LEMMA BudgetReminded ==
  ASSUME InstanceAssumption, InstanceShape, Budget,
         place' = place, row' = row, ran' = ran, allowed' = allowed,
         NEW t \in Task, pc[t] \in TopAt, pc'[t] \notin TokenAt,
         NEW g \in Gates, tickets' = [tickets EXCEPT ![g] = Append(@, "PENDING")],
         \A u \in Task : u # t => pc'[u] = pc[u] /\ step'[u] = step[u]
  PROVE  Budget'
<1>1. /\ IsFiniteSet(TasksAt(pc, TopAt)) /\ IsFiniteSet(TasksAt(pc, PassingAt))
      /\ IsFiniteSet(TasksAt(pc, InsideAt)) /\ IsFiniteSet(Open(tickets))
  BY DEF Budget, TokensFinite
<1>2. /\ IsFiniteSet(TasksAt(pc', TopAt)) /\ IsFiniteSet(TasksAt(pc', PassingAt))
      /\ IsFiniteSet(TasksAt(pc', InsideAt))
      /\ Cardinality(TasksAt(pc', PassingAt)) = Cardinality(TasksAt(pc, PassingAt))
      /\ Cardinality(TasksAt(pc', TopAt)) + 1 = Cardinality(TasksAt(pc, TopAt))
      /\ Cardinality(TasksAt(pc', InsideAt)) = Cardinality(TasksAt(pc, InsideAt))
      /\ Cardinality(TasksAt(pc, InsideAt)) \in Nat
  <2>1. Recount(pc, pc', t, TopAt) /\ Recount(pc, pc', t, PassingAt) /\ Recount(pc, pc', t, InsideAt)
    BY <1>1, TokensMove
  <2>2. /\ In(pc'[t], TopAt) = 0 /\ In(pc'[t], PassingAt) = 0 /\ In(pc'[t], InsideAt) = 0
        /\ In(pc[t], TopAt) = 1 /\ In(pc[t], PassingAt) = 0 /\ In(pc[t], InsideAt) = 0
    BY PlacesApart DEF In
  <2> QED BY <2>1, <2>2 DEF Recount
<1>3. /\ IsFiniteSet(Open(tickets')) /\ Cardinality(Open(tickets')) \in Nat
      /\ Cardinality(Open(tickets')) <= Cardinality(Open(tickets)) + 1
  BY <1>1, TicketOpened, BudgetFacts
<1>4. TokensFinite'
  BY <1>2, <1>3, TotalsAre
<1>5. passing' <= passing /\ tops' + 1 <= tops /\ inside' <= inside + 1
  <2>1. tops \in Nat /\ passing \in Nat /\ Cardinality(Open(tickets)) \in Nat
    BY Numbers
  <2>2. tops' \in Nat /\ passing' \in Nat
    BY <1>4, NumbersNext
  <2>3. passing' <= passing
    BY <1>2, <2>1, TotalsAre
  <2>4. tops' + 1 <= tops
    BY <1>2, <2>1, TotalsAre
  <2>5. inside' <= inside + 1
    BY <1>2, <1>3, <2>1, TotalsAre, SMTT(30)
  <2> QED BY <2>3, <2>4, <2>5
<1>6. \A u \in Task : pc'[u] = "reentering" => pc[u] = "reentering" /\ step'[u] = step[u]
  BY PlacesApart
<1>7. \A j \in Step : again(j)' <= again(j)
  BY <1>1, <1>6, AgainFewer, CountsAre
<1>8. ASSUME NEW j \in Step
      PROVE  Fits(row'.index, place', tops', passing', inside', allowed', j, ran'[j], again(j)')
  <2>1. /\ j \in Nat /\ ran[j] \in Nat /\ again(j) \in Nat /\ again(j) <= tops
        /\ Fits(row.index, place, tops, passing, inside, allowed, j, ran[j], again(j))
    BY OfStep
  <2>2. again(j)' \in Nat /\ again(j)' <= again(j) /\ again(j)' <= tops'
    BY <1>4, <1>7, OfStepNext
  <2>3. tops' \in Nat /\ passing' \in Nat /\ inside' \in Nat
    BY <1>4, NumbersNext
  <2>4. /\ row.index \in Nat /\ place \in Nat /\ tops \in Nat /\ passing \in Nat /\ inside \in Nat
        /\ allowed \in Nat /\ row.index <= place
    BY Numbers
  <2>5. Fits(row.index, place, tops', passing', inside', allowed, j, ran[j], again(j)')
    BY <1>5, <2>1, <2>2, <2>3, <2>4, FitsInside
  <2> QED BY <2>5
<1>9. row'.index <= place'
  BY Numbers
<1>10. \A u \in Task : pc'[u] = "reentering" => step'[u] \in Step /\ step'[u] <= place'
  BY <1>6 DEF Budget
<1> QED BY <1>4, <1>8, <1>9, <1>10 DEF Budget

\* A decision takes the place of the ticket, or ends it.
LEMMA BudgetDecided ==
  ASSUME InstanceAssumption, InstanceShape, Budget,
         place' = place, row' = row, ran' = ran, allowed' = allowed,
         NEW t \in Task, pc[t] \notin TokenAt, pc'[t] \notin TopAt \cup PassingAt,
         NEW g \in Gates, NEW n \in DOMAIN tickets[g], tickets[g][n] = "PENDING",
         NEW v, v # "PENDING", tickets' = [tickets EXCEPT ![g][n] = v],
         \A u \in Task : u # t => pc'[u] = pc[u] /\ step'[u] = step[u]
  PROVE  Budget'
<1>1. /\ IsFiniteSet(TasksAt(pc, TopAt)) /\ IsFiniteSet(TasksAt(pc, PassingAt))
      /\ IsFiniteSet(TasksAt(pc, InsideAt)) /\ IsFiniteSet(Open(tickets))
  BY DEF Budget, TokensFinite
<1>2. /\ IsFiniteSet(TasksAt(pc', TopAt)) /\ IsFiniteSet(TasksAt(pc', PassingAt))
      /\ IsFiniteSet(TasksAt(pc', InsideAt))
      /\ Cardinality(TasksAt(pc', PassingAt)) = Cardinality(TasksAt(pc, PassingAt))
      /\ Cardinality(TasksAt(pc', TopAt)) = Cardinality(TasksAt(pc, TopAt))
      /\ Cardinality(TasksAt(pc', InsideAt)) <= Cardinality(TasksAt(pc, InsideAt)) + 1
      /\ Cardinality(TasksAt(pc, InsideAt)) \in Nat /\ Cardinality(TasksAt(pc', InsideAt)) \in Nat
  <2>1. Recount(pc, pc', t, TopAt) /\ Recount(pc, pc', t, PassingAt) /\ Recount(pc, pc', t, InsideAt)
    BY <1>1, TokensMove
  <2>2. /\ In(pc'[t], TopAt) = 0 /\ In(pc'[t], PassingAt) = 0 /\ In(pc'[t], InsideAt) \in {0, 1}
        /\ In(pc[t], TopAt) = 0 /\ In(pc[t], PassingAt) = 0 /\ In(pc[t], InsideAt) = 0
    BY PlacesApart DEF In
  <2> QED BY <2>1, <2>2 DEF Recount
<1>3. /\ IsFiniteSet(Open(tickets')) /\ Cardinality(Open(tickets')) \in Nat
      /\ Cardinality(Open(tickets')) + 1 <= Cardinality(Open(tickets))
  BY <1>1, TicketDecided, BudgetFacts
<1>4. TokensFinite'
  BY <1>2, <1>3, TotalsAre
<1>5. passing' = passing /\ tops' = tops /\ inside' <= inside
  BY <1>2, <1>3, <1>4, TotalsAre, NumbersNext, Numbers
<1>6. \A u \in Task : pc'[u] = "reentering" => pc[u] = "reentering" /\ step'[u] = step[u]
  BY PlacesApart
<1>7. \A j \in Step : again(j)' <= again(j)
  BY <1>1, <1>6, AgainFewer, CountsAre
<1>8. \A u \in Task : pc'[u] = "reentering" => step'[u] \in Step /\ step'[u] <= place
  BY <1>6 DEF Budget
<1>9. tops' + passing' <= tops + passing /\ tops' <= tops
  BY <1>5, Numbers
<1> QED BY <1>4, <1>5, <1>7, <1>8, <1>9, BudgetKept

\* A user resumes the instance: one token more, and one repetition.
LEMMA BudgetByHand ==
  ASSUME InstanceAssumption, InstanceShape, Budget,
         place' = place, row' = row, ran' = ran, allowed' = allowed + 1, tickets' = tickets,
         NEW t \in Task, pc[t] \notin TokenAt, pc'[t] = "resolving",
         \A u \in Task : u # t => pc'[u] = pc[u] /\ step'[u] = step[u]
  PROVE  Budget'
<1>1. /\ IsFiniteSet(TasksAt(pc, TopAt)) /\ IsFiniteSet(TasksAt(pc, PassingAt))
      /\ IsFiniteSet(TasksAt(pc, InsideAt)) /\ IsFiniteSet(Open(tickets))
  BY DEF Budget, TokensFinite
<1>2. pc'[t] \in TopAt
  BY DEF TopAt
<1>3. /\ IsFiniteSet(TasksAt(pc', TopAt)) /\ IsFiniteSet(TasksAt(pc', PassingAt))
      /\ IsFiniteSet(TasksAt(pc', InsideAt))
      /\ Cardinality(TasksAt(pc', PassingAt)) = Cardinality(TasksAt(pc, PassingAt))
      /\ Cardinality(TasksAt(pc', TopAt)) = Cardinality(TasksAt(pc, TopAt)) + 1
      /\ Cardinality(TasksAt(pc', InsideAt)) = Cardinality(TasksAt(pc, InsideAt))
  <2>1. Recount(pc, pc', t, TopAt) /\ Recount(pc, pc', t, PassingAt) /\ Recount(pc, pc', t, InsideAt)
    BY <1>1, TokensMove
  <2>2. /\ In(pc'[t], TopAt) = 1 /\ In(pc'[t], PassingAt) = 0 /\ In(pc'[t], InsideAt) = 0
        /\ In(pc[t], TopAt) = 0 /\ In(pc[t], PassingAt) = 0 /\ In(pc[t], InsideAt) = 0
    BY <1>2, PlacesApart DEF In
  <2> QED BY <2>1, <2>2 DEF Recount
<1>4. TokensFinite' /\ passing' = passing /\ tops' = tops + 1 /\ inside' = inside
  BY <1>1, <1>3, TotalsAre
<1>5. \A u \in Task : pc'[u] = "reentering" => pc[u] = "reentering" /\ step'[u] = step[u]
  OBVIOUS
<1>6. \A j \in Step : again(j)' = again(j)
  <2> SUFFICES ASSUME NEW j \in Step PROVE Again(pc', step', j) = Again(pc, step, j)
    BY CountsAre
  <2>1. pc[t] # "reentering" /\ pc'[t] # "reentering"
    BY PlacesApart
  <2> QED BY <2>1 DEF Again
<1>7. ASSUME NEW j \in Step
      PROVE  Fits(row'.index, place', tops', passing', inside', allowed', j, ran'[j], again(j)')
  <2>1. Fits(row.index, place, tops, passing, inside, allowed, j, ran[j], again(j))
    BY DEF Budget
  <2>2. Fits(row.index, place, tops + 1, passing, inside, allowed + 1, j, ran[j], again(j))
    BY <2>1, OfStep, Numbers, FitsResumed
  <2> QED BY <1>4, <1>6, <2>2
<1> QED BY <1>4, <1>5, <1>7 DEF Budget

\* A crash: the boot is the one token beside the tickets, and one repetition more.
LEMMA BudgetCrashed ==
  ASSUME InstanceAssumption, InstanceShape, Budget,
         place' = row.index, row' = row, ran' = ran, allowed' = allowed + 1,
         tickets' = tickets,
         \A u \in Task : pc'[u] = IF u = Boot THEN "down" ELSE "idle"
  PROVE  Budget'
<1>1. IsFiniteSet(Open(tickets))
  BY DEF Budget, TokensFinite
<1>2. /\ "down" \in TopAt /\ "down" # "reentering" /\ "idle" # "reentering"
      /\ "idle" \notin TopAt \cup PassingAt \cup InsideAt
      /\ "down" \notin PassingAt \cup InsideAt
  BY DEF TopAt, PassingAt, InsideAt
<1>3. /\ TasksAt(pc', TopAt) = {Boot} /\ TasksAt(pc', PassingAt) = {}
      /\ TasksAt(pc', InsideAt) = {} /\ \A j : Again(pc', step', j) = {}
  BY <1>2, BootIs DEF TasksAt, Again
<1>4. /\ TokensFinite' /\ tops' = 1 /\ passing' = 0 /\ inside' = 0 + Cardinality(Open(tickets))
      /\ \A j : again(j)' = 0
  <2>1. IsFiniteSet({}) /\ Cardinality({}) = 0
    BY FS_EmptySet
  <2>2. IsFiniteSet({Boot}) /\ Cardinality({Boot}) = 1
    BY FS_Singleton
  <2>3. TokensFinite' /\ tops' = 1 /\ passing' = 0 /\ inside' = 0 + Cardinality(Open(tickets))
    BY <1>1, <1>3, <2>1, <2>2, TotalsAre
  <2>4. \A j : again(j)' = 0
    BY <1>3, <2>1, CountsAre
  <2> QED BY <2>3, <2>4
<1>5. inside' <= inside
  <2>1. Cardinality(TasksAt(pc, InsideAt)) \in Nat
    BY FS_CardinalityType DEF Budget, TokensFinite
  <2> QED BY <1>4, <2>1, TotalsAre, Numbers
<1>6. ASSUME NEW j \in Step
      PROVE  Fits(row'.index, place', tops', passing', inside', allowed', j, ran'[j], again(j)')
  <2>1. /\ j \in Nat /\ ran[j] \in Nat /\ again(j) \in Nat
        /\ Fits(row.index, place, tops, passing, inside, allowed, j, ran[j], again(j))
    BY OfStep
  <2>2. inside' \in Nat
    BY <1>4, NumbersNext
  <2>3. Fits(row.index, row.index, 1, 0, inside', allowed + 1, j, ran[j], 0)
    BY <1>5, <2>1, <2>2, Numbers, FitsCrashed
  <2> QED BY <1>4, <2>3
<1>7. row'.index <= place'
  BY Numbers
<1>8. \A u \in Task : pc'[u] # "reentering"
  BY <1>2
<1> QED BY <1>4, <1>6, <1>7, <1>8 DEF Budget

(* The steps.                                                              *)
LEMMA AllowedKept == UNCHANGED limits => allowed' = allowed
BY DEF limits, allowed

LEMMA NoToken ==
  \A w \in {"idle", "asked", "parking", "closing", "completing", "cancelling", "refusing",
            "refused", "unwinding", "abandoning"} : w \notin TokenAt
BY DEF TokenAt, TopAt, PassingAt, InsideAt

LEMMA CommitPlace ==
  ASSUME InstanceAssumption, InstanceShape, NEW t \in Task, pc[t] \in Writing, Commit(t)
  PROVE  row'.index = place
BY CommitTyped, PlaceIs

LEMMA EndsBudget ==
  ASSUME InstanceAssumption, InstanceShape, Budget, NEW t \in Task, Ends(t),
         place' = place, row'.index \in {row.index, place},
         UNCHANGED <<ran, limits, tickets>>
  PROVE  Budget'
<1>1. pc'[t] \notin TokenAt /\ \A u \in Task : u # t => pc'[u] = pc[u] /\ step'[u] = step[u]
  BY EndedAt, NoToken
<1> QED BY <1>1, AllowedKept, BudgetDrops

LEMMA AsideBudget ==
  ASSUME InstanceAssumption, InstanceShape, Budget, NEW t \in Task, NEW w, w \notin TokenAt,
         Goto(t, w), place' = place, row'.index \in {row.index, place},
         UNCHANGED <<ran, limits, tickets, step>>
  PROVE  Budget'
<1>1. pc'[t] \notin TokenAt /\ \A u \in Task : u # t => pc'[u] = pc[u]
  BY WentTo, BudgetFacts
<1> QED BY <1>1, AllowedKept, BudgetDrops

LEMMA UnwindBudget ==
  ASSUME InstanceAssumption, InstanceShape, InstanceShape', Budget, NEW t \in Task,
         NEW m \in Instance, m.index = place, Unwind(t, m),
         row'.index \in {row.index, place}, UNCHANGED <<ran, limits, tickets>>
  PROVE  Budget'
<1>1. place' = place
  BY UnwindMem, PlaceNext
<1>2. CASE m.stack # <<>>
  BY <1>1, <1>2, AsideBudget, NoToken DEF Unwind
<1>3. CASE m.stack = <<>> /\ t \in Runner
  <2>1. Goto(t, "closing") /\ step' = step
    BY <1>3 DEF Unwind, RecordStep, Issue
  <2> QED BY <1>1, <2>1, AsideBudget, NoToken
<1>4. CASE m.stack = <<>> /\ t \notin Runner
  <2>1. Ends(t)
    BY <1>4 DEF Unwind
  <2> QED BY <1>1, <2>1, EndsBudget
<1> QED BY <1>2, <1>3, <1>4

LEMMA RunnerBudget ==
  ASSUME InstanceAssumption, InstanceShape, InstanceShape', Budget, NEW r \in Runner,
         RunnerStep(r)
  PROVE  Budget'
<1>1. /\ r \in Task /\ pc \in [Task -> Waits] /\ step \in [Task -> 0..Steps]
      /\ \A t \in Task : buf[t].version \in Nat
  BY RunnerIs, BudgetFacts, PlacedFacts
<1>2. /\ mem \in Instance /\ mem.state # "NONE" /\ mem.index \in Nat \ {0} /\ place = mem.index
  <2>1. pc[r] \notin {"idle", "down", "approved", "refused"}
    BY DEF RunnerStep, TakeStep, Reenter, Reentered, Complete, Leave, Work, Advanced,
       WorkFails, Forbidden, Ask, Wait, Settled
  <2> QED BY <1>1, <2>1, LoadedAt, PlaceIs, Fields
<1>3. mem' \in Instance => place' = mem'.index
  BY PlaceNext
<1>4. CASE TakeStep(r)
  <2>1. /\ Begin(r, mem.index) /\ step' = [step EXCEPT ![r] = mem.index] /\ mem.index \in Step
        /\ pc[r] = "top" /\ UNCHANGED <<row, tickets, limits>>
    BY <1>4 DEF TakeStep
  <2>2. mem'.index = mem.index /\ mem' \in Instance
    <3>1. mem.index \in 0..Steps
      BY <2>1 DEF Step
    <3> QED BY <1>2, <1>4, <3>1, Fields, FieldsKept DEF TakeStep
  <2>3. pc'[r] \in InsideAt /\ pc[r] \in TopAt
        /\ \A u \in Task : u # r => pc'[u] = pc[u] /\ step'[u] = step[u]
    BY <1>1, <2>1 DEF Begin, Goto, InsideAt, TopAt
  <2>4. ran' = [ran EXCEPT ![mem.index] = @ + 1]
    BY <2>1 DEF Begin
  <2> QED BY <1>1, <1>2, <1>3, <2>1, <2>2, <2>3, <2>4, AllowedKept, BudgetBegun
<1>5. CASE Reenter(r)
  <2>1. /\ pc[r] = "top" /\ mem.index \in Step /\ Goto(r, "reentering")
        /\ step' = [step EXCEPT ![r] = mem.index] /\ UNCHANGED <<row, tickets, ran, limits>>
        /\ mem' = [mem EXCEPT !.at = mem.index, !.state = "RUNNING"]
    BY <1>5 DEF Reenter, Update, Issue, ledger
  <2>2. mem'.index = mem.index /\ mem' \in Instance
    <3>1. mem'.index = mem.index /\ mem'.state = "RUNNING"
      BY <1>2, <2>1 DEF Instance
    <3>2. mem' \in Instance \/ mem' = Unloaded
      BY ShapePartsNext
    <3> QED BY <3>1, <3>2 DEF Unloaded
  <2>3. pc'[r] = "reentering" /\ \A u \in Task : u # r => pc'[u] = pc[u]
    BY <1>1, <2>1, WentTo
  <2>4. pc[r] \in TopAt /\ pc'[r] \in TopAt /\ step'[r] = mem.index
        /\ \A u \in Task : u # r => step'[u] = step[u]
    BY <1>1, <2>1, <2>3 DEF TopAt
  <2> QED BY <1>1, <1>2, <1>3, <2>1, <2>2, <2>3, <2>4, AllowedKept, BudgetHanded
<1>6. CASE Reentered(r)
  <2>1. /\ pc[r] = "reentering" /\ Begin(r, step[r]) /\ UNCHANGED <<tickets, step, limits>>
        /\ mem' = [mem EXCEPT !.version = buf[r].version + 1] /\ Commit(r)
    BY <1>6 DEF Reentered, Acknowledged
  <2>2. step[r] \in Step
    BY <1>1, <2>1 DEF Budget
  <2>3. mem'.index = mem.index /\ mem' \in Instance
    <3>1. buf[r].version + 1 \in Nat
      BY <1>1
    <3> QED BY <1>2, <2>1, <3>1, Fields, FieldsKept
  <2>4. pc'[r] \in InsideAt /\ pc[r] \in TopAt
        /\ \A u \in Task : u # r => pc'[u] = pc[u] /\ step'[u] = step[u]
    BY <1>1, <2>1 DEF Begin, Goto, InsideAt, TopAt
  <2>5. ran' = [ran EXCEPT ![step[r]] = @ + 1]
    BY <2>1 DEF Begin
  <2>6. row'.index = place
    BY <1>1, <2>1, CommitPlace DEF Writing, Updating
  <2> QED BY <1>1, <1>2, <1>3, <2>1, <2>2, <2>3, <2>4, <2>5, <2>6, AllowedKept, BudgetBegun
<1>7. CASE Complete(r)
  <2>1. /\ Goto(r, "completing") /\ UNCHANGED <<row, step, ran, limits, tickets>>
        /\ mem' = [mem EXCEPT !.state = "COMPLETED"]
    BY <1>7 DEF Complete, Update, Issue, ledger
  <2>2. place' = place
    BY <1>2, <1>3, <2>1, Fields, FieldsKept, StatesAre
  <2> QED BY <1>1, <2>1, <2>2, NoToken, AsideBudget
<1>8. CASE Leave(r) \/ Forbidden(r)
  BY <1>1, <1>2, <1>3, <1>8, EndsBudget DEF Leave, Forbidden, ledger
<1>9. CASE Work(r)
  <2>1. PICK success \in BOOLEAN :
          LET m == IF success /\ step[r] \in Undoable
                   THEN [mem EXCEPT !.stack = Append(@, step[r])] ELSE mem
          IN IF mem.state = "WAITING"
             THEN RecordStep(r, "parking", m)
             ELSE RecordStep(r, "advancing", [m EXCEPT !.index = @ + 1])
    BY <1>9 DEF Work
  <2> DEFINE m == IF success /\ step[r] \in Undoable
                  THEN [mem EXCEPT !.stack = Append(@, step[r])] ELSE mem
  <2>2. m \in Instance /\ m.index = mem.index
    <3>1. CASE success /\ step[r] \in Undoable
      <4>1. Append(mem.stack, step[r]) \in Seq(Undoable)
        BY <1>2, <3>1, Fields
      <4>2. m = [mem EXCEPT !.stack = Append(mem.stack, step[r])]
        BY <3>1
      <4> QED BY <1>2, <4>1, <4>2, Fields, FieldsKept
    <3> QED BY <1>2, <3>1
  <2>3. /\ pc[r] = "working" /\ UNCHANGED <<row, step, ran, limits, tickets>>
    BY <1>9 DEF Work, ledger
  <2>4. IF mem.state = "WAITING" THEN RecordStep(r, "parking", m)
        ELSE RecordStep(r, "advancing", [m EXCEPT !.index = @ + 1])
    BY <2>1
  <2> HIDE DEF m
  <2>5. CASE mem.state = "WAITING"
    <3>1. Goto(r, "parking") /\ mem' = [m EXCEPT !.version = m.version + 1]
          /\ m.version + 1 \in Nat
      BY <2>2, <2>4, <2>5, Fields DEF RecordStep, Issue
    <3>2. place' = place
      BY <1>2, <1>3, <2>2, <3>1, Fields, FieldsKept
    <3> QED BY <1>1, <2>3, <3>1, <3>2, NoToken, AsideBudget
  <2>6. CASE mem.state # "WAITING"
    <3> DEFINE a == [m EXCEPT !.index = m.index + 1]
    <3>1. a \in Instance /\ a.index = mem.index + 1
      <4>1. m.index + 1 \in Nat \ {0}
        BY <2>2, Fields
      <4> QED BY <2>2, <4>1, Fields, FieldsKept
    <3>2. RecordStep(r, "advancing", a)
      BY <2>2, <2>4, <2>6
    <3> HIDE DEF a
    <3>3. mem' = [a EXCEPT !.version = a.version + 1] /\ a.version + 1 \in Nat
          /\ Goto(r, "advancing")
      BY <3>1, <3>2, Fields DEF RecordStep, Issue
    <3>4. place' = place + 1
      BY <1>2, <1>3, <3>1, <3>3, Fields, FieldsKept
    <3>5. /\ pc[r] \in InsideAt /\ pc'[r] \in PassingAt
          /\ \A u \in Task : u # r => pc'[u] = pc[u] /\ step'[u] = step[u]
      BY <1>1, <2>3, <3>3, WentTo DEF InsideAt, PassingAt
    <3> QED BY <1>1, <2>3, <3>4, <3>5, AllowedKept, BudgetPassed
  <2> QED BY <2>5, <2>6
<1>10. CASE Advanced(r)
  <2>1. /\ pc[r] = "advancing" /\ Goto(r, "top") /\ Commit(r)
        /\ UNCHANGED <<step, ran, limits, tickets, mem>>
    BY <1>10 DEF Advanced, ledger
  <2>2. /\ pc'[r] = "top" /\ pc'[r] \in TopAt /\ pc[r] \in PassingAt
        /\ \A u \in Task : u # r => pc'[u] = pc[u]
    BY <1>1, <2>1, WentTo DEF TopAt, PassingAt
  <2>3. row'.index = place /\ place' = place
    BY <1>1, <1>2, <1>3, <2>1, CommitPlace DEF Writing, Recording
  <2> QED BY <1>1, <2>1, <2>2, <2>3, AllowedKept, BudgetHanded
<1>11. CASE WorkFails(r)
  <2> DEFINE m == [mem EXCEPT !.state = "FAILED"]
  <2>1. m \in Instance /\ m.index = mem.index
    BY <1>2, Fields, FieldsKept, StatesAre
  <2>2. Unwind(r, m) /\ UNCHANGED <<row, ran, limits, tickets>>
    BY <1>11 DEF WorkFails
  <2> HIDE DEF m
  <2> QED BY <1>1, <1>2, <2>1, <2>2, UnwindBudget
<1>12. CASE Ask(r)
  <2>1. /\ pc[r] = "asking" /\ Goto(r, "asked") /\ UNCHANGED <<row, step, ran, limits, mem>>
        /\ tickets' = [tickets EXCEPT ![step[r]] = Append(@, "PENDING")]
    BY <1>12 DEF Ask, ledger
  <2>2. pc'[r] \notin TokenAt /\ \A u \in Task : u # r => pc'[u] = pc[u]
    BY <1>1, <2>1, WentTo, NoToken
  <2>3. place' = place
    BY <1>2, <1>3, <2>1
  <2>4. CASE step[r] \in Gates
    BY <1>1, <2>1, <2>2, <2>3, <2>4, AllowedKept, BudgetAsked
  <2>5. CASE step[r] \notin Gates
    <3>1. tickets' = tickets
      BY <2>1, <2>5, BudgetFacts
    <3> QED BY <1>1, <2>1, <2>2, <2>3, <3>1, AllowedKept, BudgetDrops
  <2> QED BY <2>4, <2>5
<1>13. CASE Wait(r)
  <2> DEFINE m == [mem EXCEPT !.state = "WAITING"]
  <2>1. m \in Instance /\ m.index = mem.index /\ m.version + 1 \in Nat
    BY <1>2, Fields, FieldsKept, StatesAre
  <2>2. /\ Goto(r, "parking") /\ UNCHANGED <<row, step, ran, limits, tickets>>
        /\ mem' = [m EXCEPT !.version = m.version + 1]
    BY <1>13 DEF Wait, RecordStep, Issue, ledger
  <2> HIDE DEF m
  <2>3. place' = place
    BY <1>2, <1>3, <2>1, <2>2, Fields, FieldsKept
  <2> QED BY <1>1, <2>2, <2>3, NoToken, AsideBudget
<1>14. CASE Settled(r)
  <2>1. place' = place
    <3>1. buf[r].version + 1 \in Nat
      BY <1>1
    <3>2. mem' = mem \/ mem' = [mem EXCEPT !.version = buf[r].version + 1]
      BY <1>14 DEF Settled, Acknowledged
    <3>3. CASE mem' = mem
      BY <1>2, <1>3, <3>3
    <3>4. CASE mem' = [mem EXCEPT !.version = buf[r].version + 1]
      BY <1>2, <1>3, <3>1, <3>4, Fields, FieldsKept
    <3> QED BY <3>2, <3>3, <3>4
  <2>2. row'.index = place
    BY <1>1, <1>14, CommitPlace DEF Settled, Writing, Recording, Updating
  <2> QED BY <1>1, <1>14, <2>1, <2>2, EndsBudget DEF Settled, ledger
<1> QED BY <1>4, <1>5, <1>6, <1>7, <1>8, <1>9, <1>10, <1>11, <1>12, <1>13, <1>14 DEF RunnerStep

LEMMA PlaceKept ==
  ASSUME InstanceAssumption, InstanceShape, InstanceShape',
         \/ mem' = mem /\ (row' = row \/ mem \in Instance)
         \/ mem' \in Instance /\ mem'.index = place
  PROVE  place' = place
<1>1. CASE mem' = mem /\ row' = row
  BY <1>1 DEF place, Known
<1>2. CASE mem' = mem /\ mem \in Instance
  BY <1>2, PlaceIs, PlaceNext
<1>3. CASE mem' \in Instance /\ mem'.index = place
  BY <1>3, PlaceNext
<1> QED BY <1>1, <1>2, <1>3

LEMMA CallBudget ==
  ASSUME InstanceAssumption, InstanceShape, InstanceShape', Budget, NEW c \in Caller,
         CallStep(c)
  PROVE  Budget'
<1>1. /\ c \in Task /\ pc \in [Task -> Waits] /\ step \in [Task -> 0..Steps]
      /\ \A t \in Task : buf[t].version \in Nat
      /\ Known \in Instance /\ Known.index = place /\ place \in Nat
  BY CallerIs, BudgetFacts, PlacedFacts, KnownIs DEF place
<1>2. pc[c] \notin {"idle", "down", "approved", "refused"} =>
        mem \in Instance /\ mem.index = place /\ Known = mem
  BY <1>1, LoadedAt, PlaceIs DEF Known
<1>3. "idle" \notin TokenAt /\ "refused" \notin TokenAt
  BY NoToken
<1>4. ASSUME NEW g \in Gates, NEW n \in DOMAIN tickets[g],
             NEW verdict \in {"APPROVED", "REJECTED"}, Decide(c, g, n, verdict)
      PROVE  Budget'
  <2>1. /\ tickets[g][n] = "PENDING" /\ UNCHANGED <<row, mem, ran, step, limits>>
        /\ tickets' = [tickets EXCEPT ![g][n] = verdict] /\ pc[c] = "idle"
        /\ Goto(c, IF verdict = "APPROVED" THEN "approved" ELSE "refused")
    BY <1>4 DEF Decide, ledger
  <2>2. /\ pc'[c] \in {"approved", "refused"} /\ \A u \in Task : u # c => pc'[u] = pc[u]
    BY <1>1, <2>1, WentTo
  <2>3. pc[c] \notin TokenAt /\ pc'[c] \notin TopAt \cup PassingAt
    BY <1>3, <2>1, <2>2 DEF TopAt, PassingAt
  <2>4. place' = place /\ verdict # "PENDING"
    BY <2>1, PlaceKept
  <2> QED BY <1>1, <2>1, <2>2, <2>3, <2>4, AllowedKept, BudgetDecided
<1>5. CASE StepOver(c)
  <2> DEFINE m == [Known EXCEPT !.index = Known.index + 1]
  <2>1. m \in Instance /\ m.index = place + 1
    <3>1. Known.index + 1 \in Nat \ {0}
      BY <1>1
    <3> QED BY <1>1, <3>1, Fields, FieldsKept
  <2>2. /\ pc[c] = "approved" /\ Goto(c, "stepping") /\ mem' = m
        /\ UNCHANGED <<row, step, ran, limits, tickets>>
    BY <1>5 DEF StepOver, Update, Issue, ledger
  <2>3. /\ pc[c] \in InsideAt /\ pc'[c] \in PassingAt
        /\ \A u \in Task : u # c => pc'[u] = pc[u]
    BY <1>1, <2>2, WentTo DEF InsideAt, PassingAt
  <2>4. place' = place + 1
    BY <2>1, <2>2, PlaceNext
  <2> QED BY <1>1, <2>2, <2>3, <2>4, AllowedKept, BudgetPassed
<1>6. CASE SteppedOver(c)
  <2> DEFINE m == [mem EXCEPT !.version = buf[c].version + 1]
  <2>1. pc[c] = "stepping" /\ Commit(c) /\ UNCHANGED <<ran, limits, tickets>>
    BY <1>6 DEF SteppedOver, ledger
  <2>2. m \in Instance /\ m.index = place
    <3>1. buf[c].version + 1 \in Nat
      BY <1>1
    <3> QED BY <1>2, <2>1, <3>1, Fields, FieldsKept
  <2>3. Resuming(c, m) \/ (mem' = m /\ Ends(c))
    BY <1>6 DEF SteppedOver
  <2>4. row'.index = place
    BY <1>1, <2>1, CommitPlace DEF Writing, Updating
  <2> HIDE DEF m
  <2>5. CASE Resuming(c, m)
    <3> DEFINE s == IF m.state = "WAITING" THEN "APPROVED" ELSE m.state
    <3>1. s \in States /\ mem' = [m EXCEPT !.state = s] /\ Goto(c, "resolving") /\ step' = step
      BY <2>5, StatesAre DEF Resuming
    <3> HIDE DEF s
    <3>2. mem' \in Instance /\ mem'.index = place
      BY <2>2, <3>1, Fields, FieldsKept
    <3>3. /\ pc[c] \in PassingAt /\ pc'[c] \in TopAt /\ pc'[c] # "reentering"
          /\ \A u \in Task : u # c => pc'[u] = pc[u]
      BY <1>1, <2>1, <3>1, WentTo DEF PassingAt, TopAt
    <3>4. place' = place
      BY <3>2, PlaceKept
    <3> QED BY <1>1, <2>1, <2>4, <3>1, <3>3, <3>4, AllowedKept, BudgetHanded
  <2>6. CASE mem' = m /\ Ends(c)
    <3>1. place' = place
      BY <2>2, <2>6, PlaceKept
    <3> QED BY <1>1, <2>1, <2>4, <2>6, <3>1, EndsBudget
  <2> QED BY <2>3, <2>5, <2>6
<1>7. CASE ResumeByHand(c)
  <2>1. /\ pc[c] = "idle" /\ Resuming(c, Known) /\ resumes' = resumes + 1
        /\ UNCHANGED <<row, tickets, ran, crashes>>
    BY <1>7 DEF ResumeByHand, ledger
  <2> DEFINE s == IF Known.state = "WAITING" THEN "APPROVED" ELSE Known.state
  <2>2. /\ s \in States /\ mem' = [Known EXCEPT !.state = s] /\ Goto(c, "resolving")
        /\ step' = step
    BY <2>1, StatesAre DEF Resuming
  <2> HIDE DEF s
  <2>3. mem' \in Instance /\ mem'.index = place
    BY <1>1, <2>2, Fields, FieldsKept
  <2>4. place' = place
    BY <2>3, PlaceKept
  <2>5. pc'[c] = "resolving" /\ \A u \in Task : u # c => pc'[u] = pc[u]
    BY <1>1, <2>2, WentTo
  <2>6. allowed' = allowed + 1
    <3>1. crashes \in Nat /\ resumes \in Nat
      BY ShapeParts DEF RestTyped, InstanceAssumption
    <3> QED BY <2>1, <3>1 DEF allowed
  <2> QED BY <1>1, <1>3, <2>1, <2>2, <2>4, <2>5, <2>6, BudgetByHand
<1>8. CASE Resolved(c)
  <2>1. /\ pc[c] = "resolving" /\ Goto(c, "resuming")
        /\ UNCHANGED <<row, step, ran, limits, tickets, mem>>
    BY <1>8 DEF Resolved, Update, Issue, ledger
  <2>2. /\ pc[c] \in TopAt /\ pc'[c] \in TopAt /\ pc'[c] # "reentering"
        /\ \A u \in Task : u # c => pc'[u] = pc[u]
    BY <1>1, <2>1, WentTo DEF TopAt
  <2>3. place' = place
    BY <2>1, PlaceKept
  <2> QED BY <1>1, <2>1, <2>2, <2>3, AllowedKept, BudgetHanded
<1>9. CASE Refuse(c)
  <2>1. UNCHANGED <<row, ran, limits, tickets>>
    BY <1>9 DEF Refuse, ledger
  <2>2. CASE Known.state \in Active \cup {"FAILED"}
    <3>1. /\ Goto(c, "refusing") /\ mem' = [Known EXCEPT !.state = "FAILED"] /\ step' = step
      BY <1>9, <2>2 DEF Refuse, Update, Issue
    <3>2. mem' \in Instance /\ mem'.index = place
      BY <1>1, <3>1, Fields, FieldsKept, StatesAre
    <3> QED BY <1>1, <2>1, <3>1, <3>2, PlaceKept, NoToken, AsideBudget
  <2>3. CASE Known.state \notin Active \cup {"FAILED"}
    <3>1. mem' = Known /\ Ends(c)
      BY <1>9, <2>3 DEF Refuse
    <3> QED BY <1>1, <2>1, <3>1, PlaceKept, EndsBudget
  <2> QED BY <2>2, <2>3
<1>10. CASE Cancel(c)
  <2>1. mem' = [Known EXCEPT !.state = "CANCELLED"] /\ UNCHANGED <<ran, limits>>
    BY <1>10 DEF Cancel, ledger
  <2>2. place' = place
    BY <1>1, <2>1, Fields, FieldsKept, StatesAre, PlaceKept
  <2>3. \A u \in Task : /\ pc'[u] = IF u = c THEN "cancelling"
                                    ELSE IF u = tracked THEN "idle" ELSE pc[u]
                        /\ step'[u] = IF u = tracked THEN 0 ELSE step[u]
    BY <1>10 DEF Cancel
  <2>4. tracked # c /\ (tracked # NoTask => tracked \in Task)
    BY RunnerIs, ShapeParts DEF RestTyped, InstanceAssumption
  <2>5. \A u \in Task : pc'[u] \in TokenAt => u # tracked /\ pc'[u] = pc[u] /\ step'[u] = step[u]
    BY <2>3, NoToken
  <2>6. PICK committed \in BOOLEAN : StopTracked(committed)
    BY <1>10 DEF Cancel
  <2>7. \/ tickets' = tickets /\ row' = row
        \/ /\ tracked \in Task /\ pc[tracked] \in Writing /\ Commit(tracked)
           /\ tickets' = tickets
        \/ /\ tracked \in Task /\ pc[tracked] = "asking" /\ row' = row
           /\ tickets' = [tickets EXCEPT ![step[tracked]] = Append(@, "PENDING")]
    BY <2>4, <2>6 DEF StopTracked, Writing
  <2>8. CASE tickets' = tickets
    <3>1. row'.index \in {row.index, place}
      <4>1. CASE row' = row
        BY <4>1
      <4>2. CASE row' # row
        <5>1. tracked \in Task /\ pc[tracked] \in Writing /\ Commit(tracked)
          BY <2>7, <4>2
        <5> QED BY <5>1, CommitPlace
      <4> QED BY <4>1, <4>2
    <3> QED BY <2>1, <2>2, <2>5, <2>8, <3>1, AllowedKept, BudgetDrops
  <2>9. CASE /\ tracked \in Task /\ pc[tracked] = "asking" /\ row' = row
             /\ tickets' = [tickets EXCEPT ![step[tracked]] = Append(@, "PENDING")]
             /\ step[tracked] \in Gates
    <3>1. pc'[tracked] \notin TokenAt
      BY <1>3, <2>3, <2>4, <2>9
    <3> QED BY <2>1, <2>2, <2>5, <2>9, <3>1, AllowedKept, BudgetAsked
  <2>10. CASE /\ row' = row
              /\ tickets' = [tickets EXCEPT ![step[tracked]] = Append(@, "PENDING")]
              /\ step[tracked] \notin Gates
    <3>1. tickets' = tickets
      BY <2>10, BudgetFacts
    <3> QED BY <2>8, <3>1
  <2> QED BY <2>7, <2>8, <2>9, <2>10
<1>11. CASE Cancelled(c)
  <2>1. /\ pc[c] = "cancelling" /\ Commit(c) /\ Ends(c) /\ UNCHANGED <<ran, limits, tickets>>
        /\ mem' = [mem EXCEPT !.version = buf[c].version + 1]
    BY <1>11 DEF Cancelled, Acknowledged, ledger
  <2>2. mem' \in Instance /\ mem'.index = place
    <3>1. buf[c].version + 1 \in Nat
      BY <1>1
    <3> QED BY <1>2, <2>1, <3>1, Fields, FieldsKept
  <2>3. row'.index = place
    BY <1>1, <2>1, CommitPlace DEF Writing, Updating
  <2> QED BY <1>1, <2>1, <2>2, <2>3, PlaceKept, EndsBudget
<1>12. CASE CutOff(c)
  <2>1. Ends(c) /\ UNCHANGED <<ran, limits, tickets, mem>>
    BY <1>12 DEF CutOff, ledger
  <2>2. row' = row \/ (pc[c] \in Updating /\ Commit(c))
    BY <1>12 DEF CutOff
  <2>3. CASE row' = row
    BY <1>1, <2>1, <2>3, PlaceKept, EndsBudget
  <2>4. CASE pc[c] \in Updating /\ Commit(c)
    <3>1. pc[c] \in Writing /\ row'.index = place
      BY <1>1, <2>4, CommitPlace DEF Writing
    <3>2. mem \in Instance
      BY <1>1, <3>1, PlacedFacts
    <3> QED BY <1>1, <2>1, <3>1, <3>2, PlaceKept, EndsBudget
  <2> QED BY <2>2, <2>3, <2>4
<1> QED BY <1>4, <1>5, <1>6, <1>7, <1>8, <1>9, <1>10, <1>11, <1>12 DEF CallStep

LEMMA TaskBudget ==
  ASSUME InstanceAssumption, InstanceShape, InstanceShape', Budget, NEW t \in Task,
         Compensate(t) \/ Conflict(t) \/ Raises(t)
  PROVE  Budget'
<1>1. CASE Compensate(t)
  <2>1. mem \in Instance /\ mem.index = place
    BY <1>1, LoadedAt, PlaceIs DEF Compensate
  <2> QED BY <1>1, <2>1, UnwindBudget DEF Compensate
<1>2. CASE Conflict(t) \/ Raises(t)
  BY <1>2, PlaceKept, EndsBudget DEF Conflict, Raises, ledger
<1> QED BY <1>1, <1>2

LEMMA ResumeBudget ==
  ASSUME InstanceAssumption, InstanceShape, InstanceShape', Budget,
         NEW t \in Caller \cup {Boot}, Resumed(t) \/ Refused(t)
  PROVE  Budget'
<1>1. /\ t \in Task /\ t \notin Runner /\ pc \in [Task -> Waits] /\ Commit(t)
      /\ buf[t].version + 1 \in Nat /\ pc[t] \in {"resuming", "reviving", "refusing"}
      /\ UNCHANGED <<ran, limits, tickets>>
  <2>1. t \in Task /\ t \notin Runner
    BY CallerIs, BootIs
  <2>2. pc \in [Task -> Waits] /\ buf[t].version + 1 \in Nat
    BY <2>1, BudgetFacts, PlacedFacts, SMTT(30)
  <2>3. /\ Commit(t) /\ pc[t] \in {"resuming", "reviving", "refusing"}
        /\ UNCHANGED <<ran, limits, tickets>>
    BY DEF Resumed, Refused, ledger
  <2> QED BY <2>1, <2>2, <2>3
<1>2. pc[t] \in Writing /\ mem \in Instance /\ mem.index = place /\ row'.index = place
  <2>1. pc[t] \in Writing
    BY <1>1 DEF Writing, Updating
  <2> QED BY <1>1, <2>1, PlacedFacts, PlaceIs, CommitPlace
<1> DEFINE m == [mem EXCEPT !.version = buf[t].version + 1]
<1>3. m \in Instance /\ m.index = place
  BY <1>1, <1>2, Fields, FieldsKept
<1>4. CASE Refused(t)
  <2>1. Unwind(t, m)
    BY <1>4 DEF Refused
  <2> HIDE DEF m
  <2> QED BY <1>1, <1>2, <1>3, <2>1, UnwindBudget
<1>5. CASE Resumed(t)
  <2>1. PICK r \in Runner : /\ pc[r] = "idle"
                            /\ pc' = [pc EXCEPT ![t] = "idle", ![r] = "top"]
    BY <1>5 DEF Resumed, Spawn
  <2>2. /\ mem' = m /\ step' = step /\ pc[t] \in {"resuming", "reviving"}
    BY <1>5 DEF Resumed, Acknowledged
  <2>3. r \in Task /\ r # t
    BY <1>1, RunnerIs
  <2>4. /\ pc'[t] = "idle" /\ pc'[r] = "top"
        /\ \A u \in Task : u \notin {t, r} => pc'[u] = pc[u]
    BY <1>1, <2>1, <2>3
  <2>5. /\ pc[t] \in TopAt \cup PassingAt /\ pc'[r] \in TopAt /\ pc'[r] # "reentering"
        /\ pc[r] \notin TokenAt /\ pc'[t] \notin TokenAt
    BY <2>1, <2>2, <2>4, NoToken DEF TopAt, PassingAt
  <2>6. place' = place
    BY <1>3, <2>2, PlaceKept
  <2> QED BY <1>1, <1>2, <2>2, <2>3, <2>4, <2>5, <2>6, AllowedKept, BudgetHanded
<1> QED BY <1>4, <1>5

LEMMA CrashBudget ==
  ASSUME InstanceAssumption, InstanceShape, InstanceShape', Budget, ProcessCrash
  PROVE  Budget'
<1>1. /\ UNCHANGED <<row, tickets, ran, resumes>> /\ crashes' = crashes + 1
      /\ \A u \in Task : pc'[u] = IF u = Boot THEN "down" ELSE "idle"
      /\ mem'.state = "NONE"
  BY DEF ProcessCrash, ledger, Unloaded
<1>2. place' = row.index
  BY <1>1, PlaceNext
<1>3. allowed' = allowed + 1
  <2>1. crashes \in Nat /\ resumes \in Nat
    BY ShapeParts DEF RestTyped, InstanceAssumption
  <2> QED BY <1>1, <2>1 DEF allowed
<1> QED BY <1>1, <1>2, <1>3, BudgetCrashed

LEMMA HydrateBudget ==
  ASSUME InstanceAssumption, InstanceShape, InstanceShape', Budget, Hydrate
  PROVE  Budget'
<1>1. /\ pc[Boot] = "down" /\ UNCHANGED <<row, step, ran, limits>> /\ Boot \in Task
      /\ pc \in [Task -> Waits]
  BY BootIs, BudgetFacts DEF Hydrate, ledger
<1>2. mem = Unloaded /\ place = row.index /\ row \in Instance /\ row.index \in Nat
  <2>1. mem = Unloaded /\ row \in Instance
    BY <1>1, ShapeParts DEF Placed
  <2> QED BY <2>1, PlaceIs DEF Unloaded
<1>3. "down" \in TopAt /\ "idle" \notin TokenAt /\ "refusing" \notin TokenAt
  BY NoToken DEF TopAt
<1>limits. allowed' = allowed
  BY <1>1, AllowedKept
<1>loaded. ASSUME mem' = row PROVE place' = place
  BY <1>1, <1>2, <1>loaded, PlaceKept
<1>4. CASE Goto(Boot, "idle") /\ tickets' = tickets /\ (mem' = mem \/ mem' = row)
  <2>1. place' = place
    <3>1. CASE mem' = mem
      BY <1>1, <3>1, PlaceKept
    <3>2. CASE mem' = row
      BY <3>2, <1>loaded
    <3> QED BY <1>4, <3>1, <3>2
  <2>2. row'.index \in {row.index, place} /\ UNCHANGED <<ran, limits, tickets, step>>
    BY <1>1, <1>4
  <2> QED BY <1>1, <1>3, <1>4, <2>1, <2>2, AsideBudget
<1>5. CASE /\ mem' = row /\ tickets' = tickets
           /\ \E r \in Runner : Spawn(r) /\ pc' = [pc EXCEPT ![Boot] = "idle", ![r] = "top"]
  <2>1. PICK r \in Runner : /\ pc[r] = "idle"
                            /\ pc' = [pc EXCEPT ![Boot] = "idle", ![r] = "top"]
    BY <1>5 DEF Spawn
  <2>2. r \in Task /\ r # Boot
    BY RunnerIs
  <2>3. /\ pc'[Boot] = "idle" /\ pc'[r] = "top"
        /\ \A u \in Task : u \notin {Boot, r} => pc'[u] = pc[u]
    BY <1>1, <2>1, <2>2
  <2>4. pc'[r] \in TopAt /\ pc'[r] # "reentering" /\ pc[r] \notin TokenAt
    BY <1>3, <2>1, <2>3 DEF TopAt
  <2>5. place' = place
    BY <1>5, <1>loaded
  <2>6. /\ row'.index \in {row.index, place} /\ ran' = ran /\ tickets' = tickets
        /\ \A u \in Task : u \notin {Boot, r} => pc'[u] = pc[u] /\ step'[u] = step[u]
    BY <1>1, <1>5, <2>3
  <2>7. pc[Boot] \in TopAt /\ pc'[Boot] \notin TokenAt /\ Boot \in Task
    BY <1>1, <1>3, <2>3
  <2> QED BY <1>limits, <2>2, <2>4, <2>5, <2>6, <2>7, BudgetHanded
<1>6. CASE /\ row.state = "WAITING" /\ Latest \in {"NO GATE", "NO TICKET", "PENDING"}
           /\ mem' = row /\ Goto(Boot, "idle")
           /\ tickets' = IF Latest = "NO TICKET"
                         THEN [tickets EXCEPT ![row.at] = <<"PENDING">>]
                         ELSE tickets
  <2>1. CASE Latest # "NO TICKET"
    BY <1>4, <1>6, <2>1
  <2>2. CASE Latest = "NO TICKET"
    <3>1. row.at \in Gates /\ tickets[row.at] = <<>>
      <4>1. \A g \in Gates : tickets[g] # <<>> =>
              tickets[g][Len(tickets[g])] \in {"PENDING", "APPROVED", "REJECTED"}
        <5> SUFFICES ASSUME NEW g \in Gates, tickets[g] # <<>>
                     PROVE  tickets[g][Len(tickets[g])] \in {"PENDING", "APPROVED", "REJECTED"}
          OBVIOUS
        <5>1. tickets[g] \in Seq({"PENDING", "APPROVED", "REJECTED"})
          BY BudgetFacts
        <5> QED BY <5>1
      <4> QED BY <2>2, <4>1 DEF Latest
    <3>2. tickets' = [tickets EXCEPT ![row.at] = Append(@, "PENDING")]
      <4>1. Append(<<>>, "PENDING") = <<"PENDING">>
        OBVIOUS
      <4> QED BY <1>6, <2>2, <3>1, <4>1
    <3>3. pc'[Boot] = "idle" /\ \A u \in Task : u # Boot => pc'[u] = pc[u]
      BY <1>1, <1>6, WentTo
    <3>4. place' = place
      BY <1>6, <1>loaded
    <3>5. \A u \in Task : u # Boot => pc'[u] = pc[u] /\ step'[u] = step[u]
      BY <1>1, <3>3
    <3>6. /\ pc[Boot] \in TopAt /\ pc'[Boot] \notin TokenAt /\ Boot \in Task
          /\ row' = row /\ ran' = ran
      BY <1>1, <1>3, <3>3
    <3> QED BY <1>limits, <3>1, <3>2, <3>4, <3>5, <3>6, BudgetReminded
  <2> QED BY <2>1, <2>2
<1>7. CASE /\ Update(Boot, "reviving", [row EXCEPT !.index = @ + 1]) /\ tickets' = tickets
  <2> DEFINE m == [row EXCEPT !.index = row.index + 1]
  <2>1. m \in Instance /\ m.index = place + 1
    <3>1. row.index + 1 \in Nat \ {0}
      BY <1>2
    <3> QED BY <1>2, <3>1, Fields, FieldsKept
  <2>2. mem' = m /\ Goto(Boot, "reviving")
    BY <1>7 DEF Update, Issue
  <2>3. place' = place + 1
    BY <2>1, <2>2, PlaceNext
  <2>4. pc'[Boot] \in PassingAt /\ \A u \in Task : u # Boot => pc'[u] = pc[u]
    BY <1>1, <2>2, WentTo DEF PassingAt
  <2>5. \A u \in Task : u # Boot => pc'[u] = pc[u] /\ step'[u] = step[u]
    BY <1>1, <2>4
  <2>6. /\ pc[Boot] \in InsideAt \cup TopAt /\ Boot \in Task
        /\ row' = row /\ ran' = ran /\ tickets' = tickets
    BY <1>1, <1>3, <1>7
  <2> QED BY <1>limits, <2>3, <2>4, <2>5, <2>6, BudgetPassed
<1>8. CASE /\ Update(Boot, "refusing", [row EXCEPT !.state = "FAILED"]) /\ tickets' = tickets
  <2>1. mem' = [row EXCEPT !.state = "FAILED"] /\ Goto(Boot, "refusing")
    BY <1>8 DEF Update, Issue
  <2>2. mem' \in Instance /\ mem'.index = place
    BY <1>2, <2>1, Fields, FieldsKept, StatesAre
  <2>3. place' = place
    BY <2>2, PlaceKept
  <2>4. row'.index \in {row.index, place} /\ UNCHANGED <<ran, limits, tickets, step>>
    BY <1>1, <1>8
  <2> QED BY <1>1, <1>3, <2>1, <2>3, <2>4, AsideBudget
<1> QED BY <1>4, <1>5, <1>6, <1>7, <1>8 DEF Hydrate

LEMMA BootBudget ==
  ASSUME InstanceAssumption, InstanceShape, InstanceShape', Budget, FailAtBoot \/ FailedAtBoot
  PROVE  Budget'
<1>1. Boot \in Task
  BY BootIs
<1>2. CASE FailAtBoot
  <2>1. /\ mem' = [row EXCEPT !.state = "FAILED"] /\ Goto(Boot, "abandoning")
        /\ UNCHANGED <<row, step, ran, limits, tickets>> /\ pc[Boot] = "down"
    BY <1>2 DEF FailAtBoot, Update, Issue, ledger
  <2>2. mem = Unloaded /\ row \in Instance
    BY <2>1, ShapeParts DEF Placed
  <2>3. place = row.index
    BY <2>2, PlaceIs DEF Unloaded
  <2>4. mem' \in Instance /\ mem'.index = place
    BY <2>1, <2>2, <2>3, Fields, FieldsKept, StatesAre
  <2> QED BY <1>1, <2>1, <2>4, PlaceKept, NoToken, AsideBudget
<1>3. CASE FailedAtBoot
  <2>1. /\ pc[Boot] \in Writing /\ Commit(Boot) /\ Ends(Boot)
        /\ UNCHANGED <<ran, limits, tickets>>
        /\ mem' = [mem EXCEPT !.version = buf[Boot].version + 1]
    BY <1>3 DEF FailedAtBoot, Acknowledged, ledger, Writing, Updating
  <2>2. mem \in Instance /\ mem.index = place /\ buf[Boot].version + 1 \in Nat
    BY <1>1, <2>1, PlacedFacts, PlaceIs
  <2>3. mem' \in Instance /\ mem'.index = place
    BY <2>1, <2>2, Fields, FieldsKept
  <2>4. row'.index = place
    BY <1>1, <2>1, CommitPlace
  <2> QED BY <1>1, <2>1, <2>3, <2>4, PlaceKept, EndsBudget
<1> QED BY <1>2, <1>3

LEMMA BudgetStep ==
  ASSUME InstanceAssumption, InstanceShape, InstanceShape', Budget,
         [InstanceNext]_instanceVars
  PROVE  Budget'
<1>1. CASE UNCHANGED instanceVars
  <2>1. UNCHANGED <<row, mem, pc, step, tickets, ran, limits>>
    BY <1>1 DEF instanceVars, proc, ledger
  <2>2. place' = place
    BY <2>1 DEF place, Known
  <2> QED BY <2>1, <2>2, AllowedKept, BudgetDrops
<1> QED BY <1>1, RunnerBudget, CallBudget, TaskBudget, ResumeBudget, CrashBudget,
           HydrateBudget, BootBudget DEF InstanceNext

LEMMA BudgetInit == ASSUME InstanceAssumption, InstanceInit PROVE Budget
<1>1. /\ original \in Runner /\ original \in Task
      /\ \A t \in Task : pc[t] = IF t = original THEN "top" ELSE "idle"
      /\ \A i \in Step : ran[i] = 0 /\ i \in Nat /\ i >= 1
      /\ \A g \in Gates : tickets[g] = <<>>
  BY RunnerIs DEF InstanceInit, Step, InstanceAssumption
<1>2. /\ "top" \in TopAt /\ "top" # "reentering" /\ "idle" # "reentering"
      /\ "idle" \notin TopAt \cup PassingAt \cup InsideAt
      /\ "top" \notin PassingAt \cup InsideAt
  BY DEF TopAt, PassingAt, InsideAt
<1>3. /\ TasksAt(pc, TopAt) = {original} /\ TasksAt(pc, PassingAt) = {}
      /\ TasksAt(pc, InsideAt) = {} /\ \A j : Again(pc, step, j) = {}
  BY <1>1, <1>2 DEF TasksAt, Again
<1>4. Open(tickets) = {}
  <2>1. \A g \in Gates : DOMAIN tickets[g] = {}
    BY <1>1
  <2>2. \A x : x \notin Open(tickets)
    BY <2>1 DEF Open
  <2> QED BY <2>2
<1>5. /\ TokensFinite /\ tops = 1 /\ passing = 0 /\ inside = 0 /\ \A j : again(j) = 0
  <2>1. IsFiniteSet({}) /\ Cardinality({}) = 0
    BY FS_EmptySet
  <2>2. IsFiniteSet({original}) /\ Cardinality({original}) = 1
    BY FS_Singleton
  <2>3. TokensFinite /\ tops = 1 /\ passing = 0
    BY <1>3, <1>4, <2>1, <2>2 DEF TokensFinite, tops, passing
  <2>4. inside = 0 /\ \A j : again(j) = 0
    BY <1>3, <1>4, <2>1 DEF inside, again
  <2> QED BY <2>3, <2>4
<1>6. row.index = 1 /\ place = 1 /\ allowed = 1
  BY DEF InstanceInit, Started, place, Known, allowed
<1>7. \A j \in Step : Fits(1, 1, 1, 0, 0, 1, j, 0, 0)
  BY <1>1 DEF Fits, Spares
<1>8. \A j \in Step : Fits(row.index, place, tops, passing, inside, allowed, j, ran[j], again(j))
  BY <1>1, <1>5, <1>6, <1>7
<1> QED BY <1>1, <1>2, <1>5, <1>6, <1>8 DEF Budget

\* However often the process crashes and users resume the instance, a step is begun
\* once more for each of these at most: no late decision, second runner or stale
\* index of the row adds a repetition of its own.
THEOREM RepeatsBoundedAlways == InstanceSpec => []RepeatsBounded
<1>1. InstanceInit => Budget
  BY InstanceAssumption, BudgetInit
<1>2. InstanceShape /\ InstanceShape' /\ Budget /\ [InstanceNext]_instanceVars => Budget'
  BY InstanceAssumption, BudgetStep
<1>3. Budget => RepeatsBounded
  BY DEF Budget, Fits, RepeatsBounded, allowed
<1> QED BY <1>1, <1>2, <1>3, InstanceShapeAlways, PTL DEF InstanceSpec

\* Undisturbed, the steps of an instance are begun in their order, each gate
\* approved before the next step and none twice; crashes and manual resumes add one
\* repetition each at most.
THEOREM StepsInOrderAlways == InstanceSpec => []StepsInOrder
BY InOrderAlways, RepeatsBoundedAlways, PTL DEF StepsInOrder

-----------------------------------------------------------------------------
(* The workflow instance: the compensations *)

Occurs(s, i) == Cardinality({n \in DOMAIN s : s[n] = i})
AtWork(p, s, i) == {t \in Task : p[t] = "working" /\ s[t] = i}

\* Until the first crash, a compensation is due once for each time its step was begun:
\* it was dispatched, or it is on the stack, or the step is still at work. Whoever
\* unwinds the stack, and whatever was undone, the instance has failed.
Undoing ==
  /\ mem \in Instance /\ pc[Boot] = "idle"
  /\ \A t \in Task : pc[t] \in {"unwinding", "refusing"} => mem.state = "FAILED"
  /\ \A i \in Undoable : undone[i] > 0 => mem.state = "FAILED"
  /\ \A i \in Undoable :
       /\ IsFiniteSet(AtWork(pc, step, i))
       /\ undone[i] + Occurs(mem.stack, i) + Cardinality(AtWork(pc, step, i)) <= ran[i]

LEMMA OccursAppend ==
  ASSUME NEW s \in Seq(Undoable), NEW x, NEW i
  PROVE  /\ Occurs(s, i) \in Nat
         /\ Occurs(Append(s, x), i) = Occurs(s, i) + (IF x = i THEN 1 ELSE 0)
<1> DEFINE A == {n \in DOMAIN s : s[n] = i}
           p == Append(s, x)
           B == {n \in DOMAIN p : p[n] = i}
           l == Len(s) + 1
<1>1. /\ DOMAIN s = 1..Len(s) /\ Len(s) \in Nat /\ DOMAIN p = 1..l
      /\ p[l] = x /\ \A n \in 1..Len(s) : p[n] = s[n]
  OBVIOUS
<1>2. IsFiniteSet(A) /\ Cardinality(A) \in Nat
  <2>1. IsFiniteSet(1..Len(s))
    BY <1>1, FS_Interval
  <2>2. A \subseteq 1..Len(s)
    BY <1>1
  <2> HIDE DEF A
  <2> QED BY <2>1, <2>2, FS_Subset, FS_CardinalityType
<1>3. l \notin A /\ B = IF x = i THEN A \cup {l} ELSE A
  <2>1. l \notin A
    BY <1>1
  <2>2. CASE x = i
    <3>1. \A n : n \in B <=> n \in A \/ n = l
      <4> HIDE DEF p
      <4> QED BY <1>1, <2>2
    <3> HIDE DEF A, B
    <3> QED BY <2>1, <2>2, <3>1
  <2>3. CASE x # i
    <3>1. \A n : n \in B <=> n \in A
      <4> HIDE DEF p
      <4> QED BY <1>1, <2>3
    <3> HIDE DEF A, B
    <3> QED BY <2>1, <2>3, <3>1
  <2> QED BY <2>2, <2>3
<1>4. Cardinality(B) = Cardinality(A) + (IF x = i THEN 1 ELSE 0)
  <2> HIDE DEF A, B, l
  <2>1. CASE x = i
    BY <1>2, <1>3, <2>1, FS_AddElement
  <2>2. CASE x # i
    BY <1>2, <1>3, <2>2
  <2> QED BY <2>1, <2>2
<1> QED BY <1>2, <1>4 DEF Occurs

LEMMA OccursFront ==
  ASSUME NEW s \in Seq(Undoable), s # <<>>, NEW i
  PROVE  /\ Occurs(s, i) \in Nat /\ Occurs(SubSeq(s, 1, Len(s) - 1), i) \in Nat
         /\ Occurs(SubSeq(s, 1, Len(s) - 1), i) + (IF s[Len(s)] = i THEN 1 ELSE 0) = Occurs(s, i)
<1> DEFINE q == SubSeq(s, 1, Len(s) - 1)
<1>1. q \in Seq(Undoable) /\ Len(q) = Len(s) - 1 /\ \A n \in 1..Len(q) : q[n] = s[n]
  <2> DEFINE l == Len(s)
  <2>1. l \in Nat /\ l # 0 /\ \A n \in 1..l : s[n] \in Undoable
    OBVIOUS
  <2> HIDE DEF l
  <2>2. l - 1 \in Nat /\ l - 1 \in Int /\ 1 \in Int /\ \A n \in 1..(l - 1) : n \in 1..l
    BY <2>1
  <2>3. \A n \in 1..(l - 1) : s[n] \in Undoable
    BY <2>1, <2>2
  <2>4. /\ SubSeq(s, 1, l - 1) \in Seq(Undoable)
        /\ Len(SubSeq(s, 1, l - 1)) = IF 1 <= l - 1 THEN (l - 1) - 1 + 1 ELSE 0
        /\ \A n \in 1..((l - 1) - 1 + 1) : SubSeq(s, 1, l - 1)[n] = s[1 + n - 1]
    BY <2>2, <2>3, SubSeqProperties
  <2>5. q = SubSeq(s, 1, l - 1)
    BY DEF l
  <2> HIDE DEF q
  <2>6. (IF 1 <= l - 1 THEN (l - 1) - 1 + 1 ELSE 0) = l - 1
    BY <2>2
  <2>7. Len(q) = l - 1 /\ \A n \in 1..(l - 1) : 1 + n - 1 = n /\ n \in 1..((l - 1) - 1 + 1)
    BY <2>2, <2>4, <2>5, <2>6
  <2>8. \A n \in 1..(l - 1) : q[n] = s[n]
    BY <2>4, <2>5, <2>7
  <2> QED BY <2>4, <2>5, <2>7, <2>8 DEF l
<1> HIDE DEF q
<1> DEFINE a == Append(q, s[Len(s)])
<1>2. a = s
  <2>1. Len(s) \in Nat /\ Len(s) # 0 /\ \A n \in 1..Len(s) : s[n] \in Undoable
    OBVIOUS
  <2>2. s[Len(s)] \in Undoable
    BY <2>1
  <2>3. a \in Seq(Undoable) /\ Len(a) = Len(q) + 1 /\ a[Len(q) + 1] = s[Len(s)]
    BY <1>1, <2>2
  <2>4. \A n \in 1..Len(q) : a[n] = q[n]
    BY <1>1
  <2>5. Len(a) = Len(s)
    BY <1>1, <2>1, <2>3
  <2> HIDE DEF a
  <2>6. \A n \in 1..Len(s) : a[n] = s[n]
    <3> TAKE n \in 1..Len(s)
    <3>1. CASE n = Len(s)
      BY <1>1, <2>1, <2>3, <3>1
    <3>2. CASE n # Len(s)
      <4>1. n \in 1..Len(q)
        BY <1>1, <2>1, <3>2
      <4> QED BY <1>1, <2>4, <4>1
    <3> QED BY <3>1, <3>2
  <2> QED BY <2>3, <2>5, <2>6, SeqEqual
<1>3. /\ Occurs(q, i) \in Nat
      /\ Occurs(a, i) = Occurs(q, i) + (IF s[Len(s)] = i THEN 1 ELSE 0)
  BY <1>1, OccursAppend
<1>4. Occurs(s, i) \in Nat
  BY OccursAppend
<1> QED BY <1>2, <1>3, <1>4 DEF q

LEMMA WorkingLess ==
  ASSUME NEW p, NEW s, NEW q, NEW v, NEW i, IsFiniteSet(AtWork(p, s, i)),
         \A u \in Task : q[u] = "working" => p[u] = "working" /\ v[u] = s[u]
  PROVE  /\ IsFiniteSet(AtWork(q, v, i))
         /\ Cardinality(AtWork(q, v, i)) \in Nat /\ Cardinality(AtWork(p, s, i)) \in Nat
         /\ Cardinality(AtWork(q, v, i)) <= Cardinality(AtWork(p, s, i))
         /\ \A t \in Task : p[t] = "working" /\ s[t] = i /\ q[t] # "working" =>
              Cardinality(AtWork(q, v, i)) + 1 <= Cardinality(AtWork(p, s, i))
<1> DEFINE A == AtWork(p, s, i)  B == AtWork(q, v, i)
<1>1. B \subseteq A
  BY DEF AtWork
<1>2. IsFiniteSet(B) /\ Cardinality(B) <= Cardinality(A)
  BY <1>1, FS_Subset
<1>3. ASSUME NEW t \in Task, p[t] = "working", s[t] = i, q[t] # "working"
      PROVE  Cardinality(B) + 1 <= Cardinality(A)
  <2>1. B \subseteq A \ {t} /\ t \in A
    BY <1>1, <1>3 DEF AtWork
  <2>2. IsFiniteSet(A \ {t}) /\ Cardinality(A \ {t}) = Cardinality(A) - 1
    BY <2>1, FS_RemoveElement
  <2>3. Cardinality(B) <= Cardinality(A \ {t})
    BY <2>1, <2>2, FS_Subset
  <2> QED BY <1>2, <2>2, <2>3, FS_CardinalityType
<1> QED BY <1>2, <1>3, FS_CardinalityType

LEMMA WorkingMore ==
  ASSUME NEW p, NEW s, NEW q, NEW v, NEW i, NEW t \in Task, IsFiniteSet(AtWork(p, s, i)),
         p[t] # "working", \A u \in Task : u # t => q[u] = p[u] /\ v[u] = s[u]
  PROVE  /\ IsFiniteSet(AtWork(q, v, i))
         /\ Cardinality(AtWork(q, v, i)) \in Nat /\ Cardinality(AtWork(p, s, i)) \in Nat
         /\ Cardinality(AtWork(q, v, i)) <=
              Cardinality(AtWork(p, s, i)) + (IF q[t] = "working" /\ v[t] = i THEN 1 ELSE 0)
<1> DEFINE A == AtWork(p, s, i)  B == AtWork(q, v, i)
<1>1. CASE q[t] = "working" /\ v[t] = i
  <2>1. B = A \cup {t}
    BY <1>1 DEF AtWork
  <2> HIDE DEF A, B
  <2>2. /\ IsFiniteSet(A \cup {t}) /\ Cardinality(A) \in Nat
        /\ Cardinality(A \cup {t}) <= Cardinality(A) + 1
    <3>1. IsFiniteSet(A)
      BY DEF A
    <3>2. Cardinality(A) \in Nat
      BY <3>1, FS_CardinalityType
    <3>3. /\ IsFiniteSet(A \cup {t})
          /\ Cardinality(A \cup {t}) = IF t \in A THEN Cardinality(A) ELSE Cardinality(A) + 1
      BY <3>1, FS_AddElement
    <3> QED BY <3>2, <3>3
  <2>3. Cardinality(B) \in Nat
    BY <2>1, <2>2, FS_CardinalityType
  <2> QED BY <1>1, <2>1, <2>2, <2>3 DEF A, B
<1>2. CASE ~(q[t] = "working" /\ v[t] = i)
  <2>1. B = A
    BY <1>2 DEF AtWork
  <2> QED BY <1>2, <2>1, FS_CardinalityType
<1> QED BY <1>1, <1>2

LEMMA UndoingFacts ==
  ASSUME InstanceAssumption, InstanceShape, Undoing
  PROVE  /\ mem \in Instance /\ Known = mem /\ mem.stack \in Seq(Undoable)
         /\ pc \in [Task -> Waits] /\ step \in [Task -> 0..Steps]
         /\ undone \in [Undoable -> Nat] /\ ran \in [Step -> Nat]
         /\ \A t \in Task : buf[t].version \in Nat
         /\ \A i \in Undoable : /\ i \in Step /\ i \notin Gates
                                /\ undone[i] \in Nat /\ ran[i] \in Nat
                                /\ Occurs(mem.stack, i) \in Nat
                                /\ IsFiniteSet(AtWork(pc, step, i))
                                /\ Cardinality(AtWork(pc, step, i)) \in Nat
<1>1. mem \in Instance /\ Known = mem /\ mem.stack \in Seq(Undoable)
  BY Fields DEF Undoing, Known
<1>2. /\ pc \in [Task -> Waits] /\ step \in [Task -> 0..Steps]
      /\ undone \in [Undoable -> Nat] /\ ran \in [Step -> Nat]
      /\ \A t \in Task : buf[t].version \in Nat
  BY PlacedFacts, ShapeParts DEF RestTyped, Pending
<1>3. \A i \in Undoable : i \in Step /\ i \notin Gates /\ undone[i] \in Nat /\ ran[i] \in Nat
  BY <1>2 DEF InstanceAssumption, Step
<1>4. \A i \in Undoable : Occurs(mem.stack, i) \in Nat
  BY <1>1, OccursAppend
<1>5. \A i \in Undoable : /\ IsFiniteSet(AtWork(pc, step, i))
                          /\ Cardinality(AtWork(pc, step, i)) \in Nat
  BY FS_CardinalityType DEF Undoing
<1> QED BY <1>1, <1>2, <1>3, <1>4, <1>5

LEMMA UndoingKept ==
  ASSUME InstanceAssumption, InstanceShape, Undoing, UNCHANGED <<ran, undone>>,
         mem' \in Instance, mem'.stack = mem.stack, pc'[Boot] = "idle",
         mem.state = "FAILED" => mem'.state = "FAILED",
         \A u \in Task : pc'[u] = "working" => pc[u] = "working" /\ step'[u] = step[u],
         \A u \in Task : pc'[u] \in {"unwinding", "refusing"} =>
                           pc[u] \in {"unwinding", "refusing"} \/ mem'.state = "FAILED"
  PROVE  Undoing'
<1>1. ASSUME NEW i \in Undoable
      PROVE  /\ IsFiniteSet(AtWork(pc', step', i))
             /\ undone'[i] + Occurs(mem'.stack, i) + Cardinality(AtWork(pc', step', i)) <= ran'[i]
  <2>1. /\ undone[i] + Occurs(mem.stack, i) + Cardinality(AtWork(pc, step, i)) <= ran[i]
        /\ IsFiniteSet(AtWork(pc, step, i))
    BY DEF Undoing
  <2>2. /\ IsFiniteSet(AtWork(pc', step', i)) /\ Cardinality(AtWork(pc', step', i)) \in Nat
        /\ Cardinality(AtWork(pc', step', i)) <= Cardinality(AtWork(pc, step, i))
    BY <2>1, WorkingLess
  <2> QED BY <2>1, <2>2, UndoingFacts, SMTT(30)
<1> QED BY <1>1 DEF Undoing, AtWork, Occurs

\* No task but the boot goes where the boot is.
LEMMA BootStays ==
  ASSUME InstanceAssumption, Undoing, NEW t \in Runner \cup Caller,
         \A u \in Task : u # t => pc'[u] = pc[u]
  PROVE  t \in Task /\ t # Boot /\ pc'[Boot] = "idle"
BY RunnerIs, CallerIs, BootIs DEF Undoing

LEMMA GoesUndoing ==
  ASSUME InstanceAssumption, InstanceShape, Undoing, UNCHANGED <<ran, undone>>,
         NEW t \in Runner \cup Caller, NEW w, Goto(t, w), w # "working",
         w \in {"unwinding", "refusing"} => mem'.state = "FAILED",
         \A u \in Task : u # t => step'[u] = step[u],
         mem' \in Instance, mem'.stack = mem.stack,
         mem.state = "FAILED" => mem'.state = "FAILED"
  PROVE  Undoing'
<1>1. t \in Task
  BY RunnerIs, CallerIs
<1>2. pc'[t] = w /\ \A u \in Task : u # t => pc'[u] = pc[u]
  BY <1>1, WentTo, UndoingFacts
<1>3. pc'[Boot] = "idle"
  BY <1>2, BootStays
<1> QED BY <1>2, <1>3, UndoingKept

LEMMA EndsUndoing ==
  ASSUME InstanceAssumption, InstanceShape, Undoing, UNCHANGED <<ran, undone>>,
         NEW t \in Runner \cup Caller, Ends(t), mem' \in Instance, mem'.stack = mem.stack,
         mem.state = "FAILED" => mem'.state = "FAILED"
  PROVE  Undoing'
<1>1. t \in Task
  BY RunnerIs, CallerIs
<1>2. Goto(t, "idle") /\ \A u \in Task : u # t => step'[u] = step[u]
  BY <1>1, EndedAt DEF Ends
<1> QED BY <1>2, GoesUndoing

LEMMA UnwindUndoing ==
  ASSUME InstanceAssumption, InstanceShape, Undoing, UNCHANGED ran,
         NEW t \in Runner \cup Caller, NEW m \in Instance, m.stack = mem.stack,
         m.state = "FAILED", Unwind(t, m)
  PROVE  Undoing'
<1>1. t \in Task
  BY RunnerIs, CallerIs
<1>2. CASE m.stack # <<>>
  <2> DEFINE q == SubSeq(m.stack, 1, Len(m.stack) - 1)
             x == m.stack[Len(m.stack)]
  <2>1. q \in Seq(Undoable) /\ x \in Undoable /\ m.stack \in Seq(Undoable)
    <3>1. m.stack \in Seq(Undoable)
      BY Fields
    <3> QED BY <1>2, <3>1
  <2>2. /\ mem' = [m EXCEPT !.stack = q] /\ undone' = [undone EXCEPT ![x] = @ + 1]
        /\ Goto(t, "unwinding") /\ step' = step
    BY <1>2 DEF Unwind
  <2>3. \A i : /\ Occurs(m.stack, i) \in Nat /\ Occurs(q, i) \in Nat
               /\ Occurs(q, i) + (IF x = i THEN 1 ELSE 0) = Occurs(m.stack, i)
    BY <1>2, <2>1, OccursFront
  <2> HIDE DEF q, x
  <2>4. mem' \in Instance /\ mem'.stack = q /\ mem'.state = "FAILED"
    BY <2>1, <2>2, Fields, FieldsKept
  <2>5. pc'[t] = "unwinding" /\ \A u \in Task : u # t => pc'[u] = pc[u]
    BY <1>1, <2>2, WentTo, UndoingFacts
  <2>6. pc'[Boot] = "idle"
    BY <2>5, BootStays
  <2>7. ASSUME NEW i \in Undoable
        PROVE  /\ IsFiniteSet(AtWork(pc', step', i))
               /\ undone'[i] + Occurs(mem'.stack, i) + Cardinality(AtWork(pc', step', i)) <= ran'[i]
    <3>1. /\ undone[i] + Occurs(mem.stack, i) + Cardinality(AtWork(pc, step, i)) <= ran[i]
          /\ IsFiniteSet(AtWork(pc, step, i))
      BY DEF Undoing
    <3>2. /\ IsFiniteSet(AtWork(pc', step', i)) /\ Cardinality(AtWork(pc', step', i)) \in Nat
          /\ Cardinality(AtWork(pc', step', i)) <= Cardinality(AtWork(pc, step, i))
      BY <2>2, <2>5, <3>1, WorkingLess
    <3>3. undone'[i] = undone[i] + (IF x = i THEN 1 ELSE 0)
      <4>1. CASE x = i
        BY <2>1, <2>2, <4>1, UndoingFacts
      <4>2. CASE x # i
        BY <2>1, <2>2, <4>2, UndoingFacts
      <4> QED BY <4>1, <4>2
    <3> QED BY <2>3, <2>4, <3>1, <3>2, <3>3, UndoingFacts, SMTT(30)
  <2> QED BY <2>4, <2>6, <2>7 DEF Undoing, AtWork, Occurs
<1>3. CASE m.stack = <<>>
  <2>1. undone' = undone
    BY <1>3 DEF Unwind
  <2>2. CASE t \in Runner
    <3>1. /\ Goto(t, "closing") /\ step' = step /\ m.version + 1 \in Nat
          /\ mem' = [m EXCEPT !.version = m.version + 1]
      BY <1>3, <2>2, Fields DEF Unwind, RecordStep, Issue
    <3> QED BY <2>1, <3>1, Fields, FieldsKept, GoesUndoing, SMTT(30)
  <2>3. CASE t \notin Runner
    BY <1>3, <2>1, <2>3, EndsUndoing DEF Unwind
  <2> QED BY <2>2, <2>3
<1> QED BY <1>2, <1>3

LEMMA BeginUndoing ==
  ASSUME InstanceAssumption, InstanceShape, Undoing, UNCHANGED undone,
         NEW t \in Runner, pc[t] # "working", NEW i \in Step, Begin(t, i),
         \A u \in Task : u # t => step'[u] = step[u], step'[t] = i,
         mem' \in Instance, mem'.stack = mem.stack, mem'.state = mem.state
  PROVE  Undoing'
<1>1. t \in Task
  BY RunnerIs
<1>2. /\ pc'[t] = IF i \in Gates THEN "asking" ELSE "working"
      /\ \A u \in Task : u # t => pc'[u] = pc[u]
      /\ ran' = [ran EXCEPT ![i] = @ + 1]
  BY <1>1, UndoingFacts DEF Begin, Goto
<1>3. pc'[Boot] = "idle"
  BY <1>2, BootStays
<1>4. ASSUME NEW k \in Undoable
      PROVE  /\ IsFiniteSet(AtWork(pc', step', k))
             /\ undone'[k] + Occurs(mem'.stack, k) + Cardinality(AtWork(pc', step', k)) <= ran'[k]
  <2>1. /\ undone[k] + Occurs(mem.stack, k) + Cardinality(AtWork(pc, step, k)) <= ran[k]
        /\ IsFiniteSet(AtWork(pc, step, k))
    BY DEF Undoing
  <2>2. /\ IsFiniteSet(AtWork(pc', step', k)) /\ Cardinality(AtWork(pc', step', k)) \in Nat
        /\ Cardinality(AtWork(pc', step', k)) <=
             Cardinality(AtWork(pc, step, k)) + (IF i = k THEN 1 ELSE 0)
    <3>1. /\ IsFiniteSet(AtWork(pc', step', k)) /\ Cardinality(AtWork(pc', step', k)) \in Nat
          /\ Cardinality(AtWork(pc', step', k)) <=
               Cardinality(AtWork(pc, step, k))
                 + (IF pc'[t] = "working" /\ step'[t] = k THEN 1 ELSE 0)
      <4>1. pc[t] # "working" /\ \A u \in Task : u # t => pc'[u] = pc[u] /\ step'[u] = step[u]
        BY <1>2
      <4> QED BY <1>1, <2>1, <4>1, WorkingMore
    <3> QED BY <3>1, UndoingFacts
  <2>3. ran'[k] = ran[k] + (IF i = k THEN 1 ELSE 0)
    <3>1. CASE i = k
      BY <1>2, <3>1, UndoingFacts
    <3>2. CASE i # k
      BY <1>2, <3>2, UndoingFacts
    <3> QED BY <3>1, <3>2
  <2> QED BY <2>1, <2>2, <2>3, UndoingFacts
<1> QED BY <1>2, <1>3, <1>4 DEF Undoing, AtWork, Occurs

LEMMA WorkUndoing ==
  ASSUME InstanceAssumption, InstanceShape, Undoing, UNCHANGED <<ran, undone, step>>,
         NEW t \in Runner, pc[t] = "working", NEW w \in {"parking", "advancing"}, Goto(t, w),
         mem' \in Instance, mem.state = "FAILED" => mem'.state = "FAILED",
         mem'.stack = mem.stack \/ mem'.stack = Append(mem.stack, step[t])
  PROVE  Undoing'
<1>1. t \in Task
  BY RunnerIs
<1>2. /\ pc'[t] = w /\ \A u \in Task : u # t => pc'[u] = pc[u]
      /\ w \notin {"working", "unwinding", "refusing"}
  BY <1>1, WentTo, UndoingFacts
<1>3. pc'[Boot] = "idle"
  BY <1>2, BootStays
<1>4. ASSUME NEW i \in Undoable
      PROVE  /\ IsFiniteSet(AtWork(pc', step', i))
             /\ undone'[i] + Occurs(mem'.stack, i) + Cardinality(AtWork(pc', step', i)) <= ran'[i]
  <2>1. /\ undone[i] + Occurs(mem.stack, i) + Cardinality(AtWork(pc, step, i)) <= ran[i]
        /\ IsFiniteSet(AtWork(pc, step, i))
    BY DEF Undoing
  <2>2. \A u \in Task : pc'[u] = "working" => pc[u] = "working" /\ step'[u] = step[u]
    BY <1>2
  <2>3. /\ IsFiniteSet(AtWork(pc', step', i)) /\ Cardinality(AtWork(pc', step', i)) \in Nat
        /\ Cardinality(AtWork(pc', step', i)) <= Cardinality(AtWork(pc, step, i))
        /\ step[t] = i => Cardinality(AtWork(pc', step', i)) + 1 <= Cardinality(AtWork(pc, step, i))
    BY <1>1, <1>2, <2>1, <2>2, WorkingLess
  <2>4. Occurs(Append(mem.stack, step[t]), i)
          = Occurs(mem.stack, i) + (IF step[t] = i THEN 1 ELSE 0)
    BY UndoingFacts, OccursAppend
  <2>5. CASE mem'.stack = mem.stack
    BY <2>1, <2>3, <2>5, UndoingFacts
  <2>6. CASE mem'.stack = Append(mem.stack, step[t])
    BY <2>1, <2>3, <2>4, <2>6, UndoingFacts, SMTT(30)
  <2> QED BY <2>5, <2>6
<1>5. \A u \in Task : pc'[u] \in {"unwinding", "refusing"} => mem'.state = "FAILED"
  BY <1>2 DEF Undoing
<1>6. \A i \in Undoable : undone'[i] > 0 => mem'.state = "FAILED"
  BY DEF Undoing
<1> QED BY <1>3, <1>4, <1>5, <1>6 DEF Undoing, AtWork, Occurs

LEMMA RunnerUndoing ==
  ASSUME InstanceAssumption, InstanceShape, Lawful, Budget, Undoing, NEW r \in Runner,
         RunnerStep(r)
  PROVE  Undoing'
<1>1. /\ r \in Task /\ r \in Runner \cup Caller /\ mem \in Instance
      /\ pc \in [Task -> Waits] /\ step \in [Task -> 0..Steps]
      /\ \A t \in Task : buf[t].version + 1 \in Nat
      /\ mem.state = "FAILED" => mem'.state = "FAILED"
  <2>1. "FAILED" \in Terminal
    BY DEF Terminal
  <2> QED BY <2>1, RunnerIs, UndoingFacts DEF Lawful
<1>2. \A v \in Nat : /\ [mem EXCEPT !.version = v] \in Instance
                     /\ [mem EXCEPT !.version = v].stack = mem.stack
                     /\ [mem EXCEPT !.version = v].state = mem.state
  BY <1>1, Fields, FieldsKept
<1>3. CASE TakeStep(r)
  <2>1. /\ Begin(r, mem.index) /\ step' = [step EXCEPT ![r] = mem.index] /\ mem.index \in Step
        /\ pc[r] = "top" /\ UNCHANGED undone /\ mem' = [mem EXCEPT !.at = mem.index]
    BY <1>3 DEF TakeStep
  <2>2. mem' \in Instance /\ mem'.stack = mem.stack /\ mem'.state = mem.state
    <3>1. mem.index \in 0..Steps
      BY <2>1 DEF Step
    <3> QED BY <1>1, <2>1, <3>1, Fields, FieldsKept
  <2>3. step'[r] = mem.index /\ \A u \in Task : u # r => step'[u] = step[u]
    BY <1>1, <2>1
  <2> QED BY <2>1, <2>2, <2>3, BeginUndoing
<1>4. CASE Reenter(r)
  <2>1. /\ Goto(r, "reentering") /\ step' = [step EXCEPT ![r] = mem.index]
        /\ UNCHANGED <<ran, undone>> /\ mem.index \in Step
        /\ mem' = [mem EXCEPT !.at = mem.index, !.state = "RUNNING"]
    BY <1>4 DEF Reenter, Update, Issue, ledger
  <2>2. mem' \in Instance /\ mem'.stack = mem.stack
    <3> DEFINE m == [mem EXCEPT !.at = mem.index]
    <3>1. m \in Instance /\ m.stack = mem.stack
      <4>1. mem.index \in 0..Steps
        BY <2>1 DEF Step
      <4> QED BY <1>1, <4>1, Fields, FieldsKept
    <3>2. mem' = [m EXCEPT !.state = "RUNNING"]
      BY <1>1, <2>1 DEF Instance
    <3> HIDE DEF m
    <3> QED BY <3>1, <3>2, Fields, FieldsKept, StatesAre
  <2>3. \A u \in Task : u # r => step'[u] = step[u]
    BY <1>1, <2>1
  <2> QED BY <1>1, <2>1, <2>2, <2>3, GoesUndoing
<1>5. CASE Reentered(r)
  <2>1. /\ pc[r] = "reentering" /\ Begin(r, step[r]) /\ UNCHANGED <<undone, step>>
        /\ mem' = [mem EXCEPT !.version = buf[r].version + 1]
    BY <1>5 DEF Reentered, Acknowledged
  <2>2. mem' \in Instance /\ mem'.stack = mem.stack /\ mem'.state = mem.state
    BY <1>1, <1>2, <2>1
  <2>3. step[r] \in Step
    BY <1>1, <2>1 DEF Budget
  <2> QED BY <2>1, <2>2, <2>3, BeginUndoing
<1>6. CASE Complete(r)
  <2>1. /\ Goto(r, "completing") /\ UNCHANGED <<ran, undone, step>>
        /\ mem' = [mem EXCEPT !.state = "COMPLETED"]
    BY <1>6 DEF Complete, Update, Issue, ledger
  <2>2. mem' \in Instance /\ mem'.stack = mem.stack
    BY <1>1, <2>1, Fields, FieldsKept, StatesAre
  <2> QED BY <1>1, <2>1, <2>2, GoesUndoing
<1>7. CASE Leave(r) \/ Forbidden(r)
  BY <1>1, <1>7, EndsUndoing DEF Leave, Forbidden, ledger
<1>8. CASE Work(r)
  <2>1. PICK success \in BOOLEAN :
          LET m == IF success /\ step[r] \in Undoable
                   THEN [mem EXCEPT !.stack = Append(@, step[r])] ELSE mem
          IN IF mem.state = "WAITING"
             THEN RecordStep(r, "parking", m)
             ELSE RecordStep(r, "advancing", [m EXCEPT !.index = @ + 1])
    BY <1>8 DEF Work
  <2> DEFINE m == IF success /\ step[r] \in Undoable
                  THEN [mem EXCEPT !.stack = Append(@, step[r])] ELSE mem
  <2>2. /\ m \in Instance
        /\ m.stack = mem.stack \/ m.stack = Append(mem.stack, step[r])
    <3>1. CASE success /\ step[r] \in Undoable
      <4>1. Append(mem.stack, step[r]) \in Seq(Undoable)
        BY <1>1, <3>1, Fields
      <4>2. m = [mem EXCEPT !.stack = Append(mem.stack, step[r])]
        BY <3>1
      <4>3. mem \in Instance /\ [mem EXCEPT !.stack = Append(mem.stack, step[r])] \in Instance
        BY <1>1, <4>1, Fields
      <4>4. [mem EXCEPT !.stack = Append(mem.stack, step[r])].stack = Append(mem.stack, step[r])
        BY <4>3, FieldsKept
      <4> QED BY <4>2, <4>3, <4>4
    <3>2. CASE ~(success /\ step[r] \in Undoable)
      BY <1>1, <3>2
    <3> QED BY <3>1, <3>2
  <2>3. /\ pc[r] = "working" /\ UNCHANGED <<ran, undone, step>>
    BY <1>8 DEF Work, ledger
  <2>4. IF mem.state = "WAITING" THEN RecordStep(r, "parking", m)
        ELSE RecordStep(r, "advancing", [m EXCEPT !.index = @ + 1])
    BY <2>1
  <2> HIDE DEF m
  <2>5. CASE mem.state = "WAITING"
    <3>1. Goto(r, "parking") /\ mem' = [m EXCEPT !.version = m.version + 1]
          /\ m.version + 1 \in Nat
      BY <2>2, <2>4, <2>5, Fields DEF RecordStep, Issue
    <3>2. mem' \in Instance /\ mem'.stack = m.stack
      BY <2>2, <3>1, Fields, FieldsKept
    <3> QED BY <1>1, <2>2, <2>3, <3>1, <3>2, WorkUndoing
  <2>6. CASE mem.state # "WAITING"
    <3> DEFINE a == [m EXCEPT !.index = m.index + 1]
    <3>1. a \in Instance /\ a.stack = m.stack
      <4>1. m.index + 1 \in Nat \ {0}
        BY <2>2, Fields
      <4> QED BY <2>2, <4>1, Fields, FieldsKept
    <3>2. RecordStep(r, "advancing", a)
      BY <2>2, <2>4, <2>6
    <3> HIDE DEF a
    <3>3. mem' = [a EXCEPT !.version = a.version + 1] /\ a.version + 1 \in Nat
          /\ Goto(r, "advancing")
      BY <3>1, <3>2, Fields DEF RecordStep, Issue
    <3>4. mem' \in Instance /\ mem'.stack = m.stack
      BY <3>1, <3>3, Fields, FieldsKept
    <3> QED BY <1>1, <2>2, <2>3, <3>3, <3>4, WorkUndoing
  <2> QED BY <2>5, <2>6
<1>9. CASE Advanced(r)
  <2>1. Goto(r, "top") /\ UNCHANGED <<ran, undone, step, mem>>
    BY <1>9 DEF Advanced, ledger
  <2> QED BY <1>1, <2>1, GoesUndoing
<1>10. CASE WorkFails(r)
  <2> DEFINE m == [mem EXCEPT !.state = "FAILED"]
  <2>1. m \in Instance /\ m.stack = mem.stack /\ m.state = "FAILED"
    BY <1>1, Fields, FieldsKept, StatesAre
  <2>2. Unwind(r, m) /\ UNCHANGED ran
    BY <1>10 DEF WorkFails
  <2> HIDE DEF m
  <2> QED BY <1>1, <2>1, <2>2, UnwindUndoing
<1>11. CASE Ask(r)
  <2>1. Goto(r, "asked") /\ UNCHANGED <<ran, undone, step, mem>>
    BY <1>11 DEF Ask, ledger
  <2> QED BY <1>1, <2>1, GoesUndoing
<1>12. CASE Wait(r)
  <2> DEFINE m == [mem EXCEPT !.state = "WAITING"]
  <2>1. m \in Instance /\ m.stack = mem.stack /\ m.version + 1 \in Nat
    BY <1>1, Fields, FieldsKept, StatesAre
  <2>2. /\ Goto(r, "parking") /\ UNCHANGED <<ran, undone, step>>
        /\ mem' = [m EXCEPT !.version = m.version + 1]
    BY <1>12 DEF Wait, RecordStep, Issue, ledger
  <2> HIDE DEF m
  <2>3. mem' \in Instance /\ mem'.stack = mem.stack
    BY <2>1, <2>2, Fields, FieldsKept
  <2> QED BY <1>1, <2>2, <2>3, GoesUndoing
<1>13. CASE Settled(r)
  <2>1. /\ Ends(r) /\ UNCHANGED <<ran, undone>>
        /\ mem' = mem \/ mem' = [mem EXCEPT !.version = buf[r].version + 1]
    BY <1>13 DEF Settled, Acknowledged, ledger
  <2>2. mem' \in Instance /\ mem'.stack = mem.stack
    BY <1>1, <1>2, <2>1
  <2> QED BY <1>1, <2>1, <2>2, EndsUndoing
<1> QED BY <1>3, <1>4, <1>5, <1>6, <1>7, <1>8, <1>9, <1>10, <1>11, <1>12, <1>13 DEF RunnerStep

LEMMA CallUndoing ==
  ASSUME InstanceAssumption, InstanceShape, Lawful, Undoing, NEW c \in Caller, CallStep(c)
  PROVE  Undoing'
<1>1. /\ c \in Task /\ c \in Runner \cup Caller /\ mem \in Instance /\ Known = mem
      /\ pc \in [Task -> Waits] /\ step \in [Task -> 0..Steps]
      /\ \A t \in Task : buf[t].version + 1 \in Nat
      /\ mem.state = "FAILED" => mem'.state = "FAILED"
  <2>1. "FAILED" \in Terminal
    BY DEF Terminal
  <2> QED BY <2>1, CallerIs, UndoingFacts DEF Lawful
<1>2. \A v \in Nat : /\ [mem EXCEPT !.version = v] \in Instance
                     /\ [mem EXCEPT !.version = v].stack = mem.stack
                     /\ [mem EXCEPT !.version = v].state = mem.state
  BY <1>1, Fields, FieldsKept
<1>3. ASSUME NEW m \in Instance, m.stack = mem.stack, Resuming(c, m), UNCHANGED <<ran, undone>>
      PROVE  Undoing'
  <2> DEFINE s == IF m.state = "WAITING" THEN "APPROVED" ELSE m.state
  <2>1. s \in States /\ mem' = [m EXCEPT !.state = s] /\ Goto(c, "resolving") /\ step' = step
    BY <1>3, StatesAre DEF Resuming
  <2> HIDE DEF s
  <2>2. mem' \in Instance /\ mem'.stack = mem.stack
    BY <1>3, <2>1, Fields, FieldsKept
  <2> QED BY <1>1, <1>3, <2>1, <2>2, GoesUndoing
<1>4. ASSUME NEW g \in Gates, NEW n \in DOMAIN tickets[g],
             NEW verdict \in {"APPROVED", "REJECTED"}, Decide(c, g, n, verdict)
      PROVE  Undoing'
  <2> DEFINE w == IF verdict = "APPROVED" THEN "approved" ELSE "refused"
  <2>1. Goto(c, w) /\ w \notin {"working", "unwinding", "refusing"}
        /\ UNCHANGED <<ran, undone, step, mem>>
    BY <1>4 DEF Decide, ledger
  <2> HIDE DEF w
  <2> QED BY <1>1, <2>1, GoesUndoing
<1>5. CASE StepOver(c)
  <2>1. /\ Goto(c, "stepping") /\ mem' = [mem EXCEPT !.index = mem.index + 1]
        /\ UNCHANGED <<ran, undone, step>>
    BY <1>1, <1>5 DEF StepOver, Update, Issue, ledger
  <2>2. mem' \in Instance /\ mem'.stack = mem.stack
    <3>1. mem.index + 1 \in Nat \ {0}
      BY <1>1, Fields
    <3> QED BY <1>1, <2>1, <3>1, Fields, FieldsKept
  <2> QED BY <1>1, <2>1, <2>2, GoesUndoing
<1>6. CASE SteppedOver(c)
  <2> DEFINE m == [mem EXCEPT !.version = buf[c].version + 1]
  <2>1. m \in Instance /\ m.stack = mem.stack
    BY <1>1, <1>2
  <2>2. UNCHANGED <<ran, undone>> /\ (Resuming(c, m) \/ (mem' = m /\ Ends(c)))
    BY <1>6 DEF SteppedOver, ledger
  <2> HIDE DEF m
  <2>3. CASE Resuming(c, m)
    BY <1>3, <2>1, <2>2, <2>3
  <2>4. CASE mem' = m /\ Ends(c)
    BY <1>1, <2>1, <2>2, <2>4, EndsUndoing
  <2> QED BY <2>2, <2>3, <2>4
<1>7. CASE ResumeByHand(c)
  BY <1>1, <1>3, <1>7 DEF ResumeByHand, ledger
<1>8. CASE Resolved(c)
  <2>1. Goto(c, "resuming") /\ UNCHANGED <<ran, undone, step, mem>>
    BY <1>8 DEF Resolved, Update, Issue, ledger
  <2> QED BY <1>1, <2>1, GoesUndoing
<1>9. CASE Refuse(c)
  <2>1. UNCHANGED <<ran, undone>>
    BY <1>9 DEF Refuse, ledger
  <2>2. CASE mem.state \in Active \cup {"FAILED"}
    <3>1. /\ Goto(c, "refusing") /\ mem' = [mem EXCEPT !.state = "FAILED"] /\ step' = step
      BY <1>1, <1>9, <2>2 DEF Refuse, Update, Issue
    <3>2. mem' \in Instance /\ mem'.stack = mem.stack /\ mem'.state = "FAILED"
      BY <1>1, <3>1, Fields, FieldsKept, StatesAre
    <3> QED BY <1>1, <2>1, <3>1, <3>2, GoesUndoing
  <2>3. CASE mem.state \notin Active \cup {"FAILED"}
    <3>1. mem' = mem /\ Ends(c)
      BY <1>1, <1>9, <2>3 DEF Refuse
    <3> QED BY <1>1, <2>1, <3>1, EndsUndoing
  <2> QED BY <2>2, <2>3
<1>10. CASE Cancel(c)
  <2>1. mem' = [mem EXCEPT !.state = "CANCELLED"] /\ UNCHANGED <<ran, undone>>
    BY <1>1, <1>10 DEF Cancel, ledger
  <2>2. mem' \in Instance /\ mem'.stack = mem.stack
    BY <1>1, <2>1, Fields, FieldsKept, StatesAre
  <2>3. \A u \in Task : /\ pc'[u] = IF u = c THEN "cancelling"
                                    ELSE IF u = tracked THEN "idle" ELSE pc[u]
                        /\ step'[u] = IF u = tracked THEN 0 ELSE step[u]
    BY <1>10 DEF Cancel
  <2>4. pc'[Boot] = "idle"
    <3>1. Boot # c /\ Boot \in Task
      BY BootIs
    <3> QED BY <2>3, <3>1 DEF Undoing
  <2>5. \A u \in Task :
          /\ pc'[u] = "working" => pc[u] = "working" /\ step'[u] = step[u]
          /\ pc'[u] \in {"unwinding", "refusing"} => pc[u] \in {"unwinding", "refusing"}
    BY <2>3
  <2> QED BY <1>1, <2>1, <2>2, <2>4, <2>5, UndoingKept
<1>11. CASE Cancelled(c)
  <2>1. /\ Ends(c) /\ UNCHANGED <<ran, undone>>
        /\ mem' = [mem EXCEPT !.version = buf[c].version + 1]
    BY <1>11 DEF Cancelled, Acknowledged, ledger
  <2> QED BY <1>1, <1>2, <2>1, EndsUndoing
<1>12. CASE CutOff(c)
  BY <1>1, <1>12, EndsUndoing DEF CutOff, ledger
<1> QED BY <1>4, <1>5, <1>6, <1>7, <1>8, <1>9, <1>10, <1>11, <1>12 DEF CallStep

LEMMA TaskUndoing ==
  ASSUME InstanceAssumption, InstanceShape, Lawful, Undoing, NEW t \in Task,
         Compensate(t) \/ Conflict(t) \/ Raises(t)
  PROVE  Undoing'
<1>1. mem \in Instance /\ (mem.state = "FAILED" => mem'.state = "FAILED")
  BY DEF Undoing, Lawful, Terminal
<1>2. pc[t] # "idle" /\ t \in Runner \cup Caller
  <2>1. pc[t] # "idle"
    BY DEF Compensate, Conflict, Raises, Recording, Updating
  <2> QED BY <2>1 DEF Undoing, Task
<1>3. CASE Compensate(t)
  <2>1. mem.state = "FAILED" /\ Unwind(t, mem) /\ ran' = ran
    BY <1>3 DEF Compensate, Undoing
  <2>2. mem \in Instance /\ mem.stack = mem.stack
    BY <1>1
  <2>3. UNCHANGED ran
    BY <2>1
  <2> QED BY <1>2, <2>1, <2>2, <2>3, UnwindUndoing
<1>4. CASE Conflict(t) \/ Raises(t)
  <2>1. Ends(t) /\ UNCHANGED <<mem, ran, undone>>
    BY <1>4 DEF Conflict, Raises, ledger
  <2>2. mem' \in Instance /\ mem'.stack = mem.stack
    BY <1>1, <2>1
  <2> QED BY <1>1, <1>2, <2>1, <2>2, EndsUndoing
<1> QED BY <1>3, <1>4

LEMMA ResumeUndoing ==
  ASSUME InstanceAssumption, InstanceShape, Lawful, Undoing, NEW t \in Caller \cup {Boot},
         Resumed(t) \/ Refused(t)
  PROVE  Undoing'
<1>1. /\ t \in Task /\ t \in Caller /\ t # Boot /\ pc \in [Task -> Waits]
      /\ mem \in Instance /\ buf[t].version + 1 \in Nat
      /\ mem.state = "FAILED" => mem'.state = "FAILED"
  <2>1. pc[t] # "idle"
    BY DEF Resumed, Refused
  <2>2. t \in Caller
    BY <2>1 DEF Undoing
  <2> QED BY <2>2, CallerIs, UndoingFacts DEF Lawful, Terminal
<1> DEFINE m == [mem EXCEPT !.version = buf[t].version + 1]
<1>2. m \in Instance /\ m.stack = mem.stack /\ m.state = mem.state
  BY <1>1, Fields, FieldsKept
<1>3. CASE Refused(t)
  <2>1. Unwind(t, m) /\ mem.state = "FAILED" /\ UNCHANGED ran
    BY <1>1, <1>3 DEF Refused, Undoing
  <2> HIDE DEF m
  <2> QED BY <1>1, <1>2, <2>1, UnwindUndoing
<1>4. CASE Resumed(t)
  <2>1. PICK r \in Runner : pc' = [pc EXCEPT ![t] = "idle", ![r] = "top"]
    BY <1>4 DEF Resumed
  <2>2. mem' = m /\ UNCHANGED <<ran, undone, step>>
    BY <1>4 DEF Resumed, Acknowledged, ledger
  <2>3. r \in Task /\ r # Boot
    BY RunnerIs
  <2>4. \A u \in Task : pc'[u] \in {"idle", "top"} \/ pc'[u] = pc[u]
    BY <1>1, <2>1, <2>3
  <2>5. pc'[Boot] = "idle"
    BY <1>1, <2>1, <2>3, BootIs DEF Undoing
  <2> QED BY <1>1, <1>2, <2>2, <2>4, <2>5, UndoingKept
<1> QED BY <1>3, <1>4

LEMMA UndoingStep ==
  ASSUME InstanceAssumption, InstanceShape, Budget, (crashes = 0) => Undoing,
         [InstanceNext]_instanceVars
  PROVE  (crashes = 0 => Undoing)'
<1>1. crashes \in Nat
  BY ShapeParts DEF RestTyped, InstanceAssumption
<1>2. SUFFICES ASSUME crashes' = 0 PROVE Undoing'
  OBVIOUS
<1>3. CASE UNCHANGED instanceVars
  <2>1. UNCHANGED <<mem, pc, step, ran, undone, crashes>>
    BY <1>3 DEF instanceVars, proc, ledger, limits
  <2> QED BY <1>2, <2>1 DEF Undoing, AtWork, Occurs
<1>4. CASE InstanceNext
  <2>1. ~ProcessCrash
    BY <1>1, <1>2 DEF ProcessCrash
  <2>2. crashes = 0 /\ Undoing
    <3>1. crashes' = crashes
      BY <1>4, <2>1, ZenonT(60) DEF InstanceNext, RunnerStep, CallStep, limits, TakeStep, Reenter, Reentered,
         Complete, Leave, Work, Advanced, WorkFails, Forbidden, Ask, Wait, Settled, Decide,
         StepOver, SteppedOver, ResumeByHand, Resolved, Refuse, Cancel, Cancelled, CutOff,
         Compensate, Conflict, Raises, Resumed, Refused, Hydrate, FailAtBoot, FailedAtBoot
    <3> QED BY <1>2, <3>1
  <2>3. Lawful
    BY <1>4, <2>1, ShapeStep
  <2>4. ~Hydrate /\ ~FailAtBoot /\ ~FailedAtBoot
    BY <2>2 DEF Undoing, Hydrate, FailAtBoot, FailedAtBoot
  <2> QED BY <1>4, <2>1, <2>2, <2>3, <2>4, RunnerUndoing, CallUndoing, TaskUndoing,
             ResumeUndoing DEF InstanceNext
<1> QED BY <1>3, <1>4

LEMMA UndoingInit == ASSUME InstanceAssumption, InstanceInit PROVE Undoing
<1>1. /\ original \in Task /\ original # Boot /\ mem = Started
      /\ \A t \in Task : pc[t] = IF t = original THEN "top" ELSE "idle"
      /\ \A i \in Step : ran[i] = 0
      /\ \A i \in Undoable : undone[i] = 0 /\ i \in Step
  BY RunnerIs DEF InstanceInit, InstanceAssumption, Step
<1>2. mem \in Instance
  BY ShapeInit, Fields, ShapeParts DEF InstanceInit, Started, Unloaded
<1>3. pc[Boot] = "idle" /\ \A t \in Task : pc[t] \in {"top", "idle"}
  BY <1>1, BootIs
<1>4. \A i : AtWork(pc, step, i) = {}
  BY <1>3 DEF AtWork
<1>5. \A i : Occurs(<<>>, i) = 0
  <2>1. \A i : {n \in DOMAIN <<>> : <<>>[n] = i} = {}
    OBVIOUS
  <2> QED BY <2>1, FS_EmptySet DEF Occurs
<1>6. mem.stack = <<>>
  BY <1>1 DEF Started
<1>7. \A i \in Undoable :
        /\ IsFiniteSet(AtWork(pc, step, i)) /\ undone[i] = 0
        /\ undone[i] + Occurs(mem.stack, i) + Cardinality(AtWork(pc, step, i)) <= ran[i]
  <2>1. IsFiniteSet({}) /\ Cardinality({}) = 0
    BY FS_EmptySet
  <2> TAKE i \in Undoable
  <2>2. /\ AtWork(pc, step, i) = {} /\ Occurs(mem.stack, i) = 0 /\ undone[i] = 0
        /\ ran[i] = 0
    BY <1>1, <1>4, <1>5, <1>6
  <2> QED BY <2>1, <2>2
<1> QED BY <1>2, <1>3, <1>7 DEF Undoing

\* Until the first crash, whatever is undone belongs to an instance that has failed,
\* and is undone once at most for each time its step was begun.
THEOREM CompensatedOnFailureAlways == InstanceSpec => []CompensatedOnFailure
<1>1. InstanceInit => (crashes = 0 => Undoing)
  BY InstanceAssumption, UndoingInit
<1>2. InstanceShape /\ Budget /\ (crashes = 0 => Undoing) /\ [InstanceNext]_instanceVars
        => (crashes = 0 => Undoing)'
  BY InstanceAssumption, UndoingStep
<1>3. InstanceInit => Budget
  BY InstanceAssumption, BudgetInit
<1>4. InstanceShape /\ InstanceShape' /\ Budget /\ [InstanceNext]_instanceVars => Budget'
  BY InstanceAssumption, BudgetStep
<1>5. InstanceShape /\ (crashes = 0 => Undoing) => CompensatedOnFailure
  <2> SUFFICES ASSUME InstanceShape, Undoing, NEW i \in Undoable, undone[i] > 0
               PROVE  mem.state = "FAILED" /\ undone[i] <= ran[i]
    BY DEF CompensatedOnFailure
  <2> QED BY InstanceAssumption, UndoingFacts DEF Undoing
<1> QED BY <1>1, <1>2, <1>3, <1>4, <1>5, InstanceShapeAlways, PTL DEF InstanceSpec
=============================================================================
