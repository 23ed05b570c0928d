---------------------- MODULE ExternalExecution_proofs ----------------------
(***************************************************************************)
(* Theorems about ExternalExecution for any requests, tickets, keys, users *)
(* that cancel, recovered workflows, attempts, crashes and faults.         *)
(*                                                                         *)
(* The argument: a row is inserted once, under the unique constraint       *)
(* (Rows, Unique), so of one key only one row is ever dispatched. A row    *)
(* that is RUNNING has a loop, or the boot scan still has to see it        *)
(* (Owned). The handler, the loop and the boot scans write over whatever   *)
(* the row says by then; that the row still says what they read, for a     *)
(* request that nobody else writes, is Alone, and it takes Booting: nobody *)
(* else is up while the scans run.                                         *)
(***************************************************************************)
EXTENDS ExternalExecution, TLAPS

\* What the decision's handler is about to do.
Deciding == {"resuming", "cancelling", "writing"}

\* What a request that has no row has not got either.
Rows ==
  \A r \in Request :
    /\ caller[r] \in {"idle", "creating", "saving"} => status[r] = "ABSENT"
    /\ status[r] = "ABSENT" =>
         /\ handler[r] \notin Deciding /\ canceller[r] # "writing"
         /\ boot = "failing" => r \notin scan
    /\ status[r] \in {"ABSENT", "WAITING_APPROVAL"} => dispatched[r] = 0 /\ loop[r] = "idle"

\* The unique constraint on the idempotency key.
Unique == \A r, s \in Keyed : status[r] # "ABSENT" /\ status[s] # "ABSENT" => r = s

\* A ticket has one outcome, and its handler acts on it.
Tickets ==
  \A r \in Request :
    /\ caller[r] = "saving" => r \in Gated
    /\ ticket[r] # "ABSENT" => r \in Gated /\ caller[r] \notin {"idle", "creating"}
    /\ ticket[r] \in {"ABSENT", "PENDING"} => handler[r] = "idle"
    /\ handler[r] = "resuming" => ticket[r] = "APPROVED"

\* A loop has attempts left when it makes one.
Attempts == \A r \in Request : loop[r] = "attempting" => tries[r] < MaxAttempts

\* A loop is started once, by a call that can do so once, and counts what it
\* dispatches.
Once ==
  \A r \in Request :
    /\ IF loop[r] = "idle" THEN dispatched[r] = 0 ELSE dispatched[r] = tries[r]
    /\ loop[r] # "idle" =>
         IF r \in Gated THEN handler[r] = "dispatching" /\ ticket[r] = "APPROVED"
                        ELSE caller[r] = "dispatching"

\* Who may have written a row that is RUNNING.
Owned ==
  \A r \in Request : status[r] = "RUNNING" =>
    \/ loop[r] \in Looping \cup {"cut", "unrecorded"}
    \/ boot = "listing"
    \/ boot = "failing" /\ r \in scan

\* Before the boot scans are over only recovered workflows run.
Booting ==
  boot # "up" => \A r \in Request :
    /\ handler[r] \notin Suspended /\ canceller[r] \notin Suspended
    /\ r \notin Early => caller[r] \notin Suspended /\ loop[r] \notin Looping

\* Nobody else writes the row of a request that only its own coroutines and
\* the boot scans know.
Alone ==
  \A r \in Undisturbed :
    /\ handler[r] \in Deciding => status[r] = "WAITING_APPROVAL"
    /\ canceller[r] = "idle"
    /\ loop[r] \in Looping => status[r] = "RUNNING" /\ dispatched[r] = tries[r]
    /\ boot = "failing" /\ r \in scan => status[r] = "RUNNING"

ExecutionInv ==
  /\ TypeOK /\ Rows /\ Unique /\ Tickets /\ Attempts /\ Once
  /\ Owned /\ Booting /\ Alone

-----------------------------------------------------------------------------
(* Every part of the invariant is kept.                                    *)

\* Abbreviations, always expanded in this section.
USE DEF rows, calls, work, system, Call, Handle, Loop, Write

\* Every step keeps the types, and a loop never tries once more than it may.
LEMMA TypeStep ==
  ASSUME TypeOK, Attempts, [Next]_vars
  PROVE TypeOK'
<1> USE ExecutionAssumption DEF TypeOK, Attempts, Status, Terminal, TicketState,
   LoopState, Control, Suspended, Ended, Looping
<1>1. ASSUME NEW r \in Request, Submit(r) \/ CallerStep(r) PROVE TypeOK'
  <2>1. CASE Submit(r) \/ CreateTicket(r)
    BY <2>1 DEF Submit, CreateTicket
  <2>2. CASE SaveWaiting(r)
    BY <2>2 DEF SaveWaiting, Insert
  <2>3. CASE StartUngated(r)
    BY <2>3 DEF StartUngated, Insert
  <2>4. QED
    BY <1>1, <2>1, <2>2, <2>3 DEF CallerStep
<1>2. ASSUME NEW r \in Request, LoopStep(r) PROVE TypeOK'
  BY <1>2 DEF LoopStep, Attempt, RecordSuccess, RecordFailure, AfterFailure
<1>3. ASSUME NEW r \in Request, HandlerStep(r) PROVE TypeOK'
  BY <1>3 DEF HandlerStep, ReadEvent, HandlerFails, Resume, Resumes, HandlerCancels,
     HandlerWritesCancelled
<1>4. ASSUME NEW r \in Request, CancelRead(r) \/ CancelWrite(r) \/ ClientTimeout(r)
      PROVE TypeOK'
  BY <1>4 DEF CancelRead, CancelWrite, ClientTimeout
<1>5. ASSUME NEW r \in Request, FailStranded(r) \/ Reconcile(r) PROVE TypeOK'
  BY <1>5 DEF FailStranded, Reconcile
<1>6. ASSUME NEW r \in Request, NEW o \in {"APPROVED", "REJECTED", "EXPIRED"},
             Settle(r, o)
      PROVE TypeOK'
  BY <1>6 DEF Settle
<1>7. CASE ListStranded \/ ListWaiting \/ FinishBoot
  BY <1>7 DEF ListStranded, ListWaiting, FinishBoot, RowsIn
<1>8. CASE Crash
  BY <1>8 DEF Crash, Kill
<1>9. CASE UNCHANGED vars
  BY <1>9 DEF vars
<1>10. QED
  BY <1>1, <1>2, <1>3, <1>4, <1>5, <1>6, <1>7, <1>8, <1>9 DEF Next, BootStep

\* No step works on a row that is not there.
LEMMA RowsStep ==
  ASSUME TypeOK, Rows, Tickets, Booting, [Next]_vars
  PROVE Rows'
<1> USE ExecutionAssumption DEF TypeOK, Rows, Insert, KeyTaken, Deciding, Terminal,
   Suspended, Looping
<1>1. ASSUME NEW r \in Request, Submit(r) \/ CallerStep(r) PROVE Rows'
  BY <1>1 DEF Submit, CallerStep, CreateTicket, SaveWaiting, StartUngated
<1>2. ASSUME NEW r \in Request, LoopStep(r) PROVE Rows'
  BY <1>2 DEF LoopStep, Attempt, RecordSuccess, RecordFailure, AfterFailure
<1>3. ASSUME NEW r \in Request, HandlerStep(r) PROVE Rows'
  BY <1>3 DEF HandlerStep, ReadEvent, HandlerFails, Resume, Resumes, HandlerCancels,
     HandlerWritesCancelled
<1>4. ASSUME NEW r \in Request, CancelRead(r) \/ CancelWrite(r) \/ ClientTimeout(r)
      PROVE Rows'
  BY <1>4 DEF CancelRead, CancelWrite, ClientTimeout
<1>5. ASSUME NEW r \in Request, FailStranded(r) \/ Reconcile(r) PROVE Rows'
  BY <1>5 DEF FailStranded, Reconcile
<1>6. ASSUME NEW r \in Request, NEW o \in {"APPROVED", "REJECTED", "EXPIRED"},
             Settle(r, o)
      PROVE Rows'
  BY <1>6 DEF Settle
<1>7. CASE ListStranded \/ ListWaiting \/ FinishBoot
  BY <1>7 DEF ListStranded, ListWaiting, FinishBoot, RowsIn
<1>8. CASE Crash
  BY <1>8 DEF Crash, Kill
<1>9. CASE UNCHANGED vars
  BY <1>9 DEF vars
<1>10. QED
  BY <1>1, <1>2, <1>3, <1>4, <1>5, <1>6, <1>7, <1>8, <1>9 DEF Next, BootStep

\* A key has one row.
LEMMA UniqueStep ==
  ASSUME TypeOK, Rows, Unique, [Next]_vars
  PROVE Unique'
<1> USE ExecutionAssumption DEF TypeOK, Rows, Unique, Insert, KeyTaken, Deciding,
   Terminal, Suspended, Looping
<1>1. ASSUME NEW r \in Request, Submit(r) \/ CallerStep(r) PROVE Unique'
  BY <1>1 DEF Submit, CallerStep, CreateTicket, SaveWaiting, StartUngated
<1>2. ASSUME NEW r \in Request, LoopStep(r) PROVE Unique'
  BY <1>2 DEF LoopStep, Attempt, RecordSuccess, RecordFailure, AfterFailure
<1>3. ASSUME NEW r \in Request, HandlerStep(r) PROVE Unique'
  BY <1>3 DEF HandlerStep, ReadEvent, HandlerFails, Resume, Resumes, HandlerCancels,
     HandlerWritesCancelled
<1>4. ASSUME NEW r \in Request, CancelRead(r) \/ CancelWrite(r) \/ ClientTimeout(r)
      PROVE Unique'
  BY <1>4 DEF CancelRead, CancelWrite, ClientTimeout
<1>5. ASSUME NEW r \in Request, FailStranded(r) \/ Reconcile(r) PROVE Unique'
  BY <1>5 DEF FailStranded, Reconcile
<1>6. ASSUME NEW r \in Request, NEW o \in {"APPROVED", "REJECTED", "EXPIRED"},
             Settle(r, o)
      PROVE Unique'
  BY <1>6 DEF Settle
<1>7. CASE ListStranded \/ ListWaiting \/ FinishBoot
  BY <1>7 DEF ListStranded, ListWaiting, FinishBoot, RowsIn
<1>8. CASE Crash
  BY <1>8 DEF Crash, Kill
<1>9. CASE UNCHANGED vars
  BY <1>9 DEF vars
<1>10. QED
  BY <1>1, <1>2, <1>3, <1>4, <1>5, <1>6, <1>7, <1>8, <1>9 DEF Next, BootStep

\* A ticket is created by its caller, settled once and heard of once.
LEMMA TicketsStep ==
  ASSUME TypeOK, Tickets, [Next]_vars
  PROVE Tickets'
<1> USE ExecutionAssumption DEF TypeOK, Tickets, Suspended
<1>1. ASSUME NEW r \in Request, Submit(r) \/ CallerStep(r) PROVE Tickets'
  BY <1>1 DEF Submit, CallerStep, CreateTicket, SaveWaiting, StartUngated
<1>2. ASSUME NEW r \in Request, LoopStep(r) PROVE Tickets'
  BY <1>2 DEF LoopStep, Attempt, RecordSuccess, RecordFailure, AfterFailure
<1>3. ASSUME NEW r \in Request, HandlerStep(r) PROVE Tickets'
  BY <1>3 DEF HandlerStep, ReadEvent, HandlerFails, Resume, Resumes, HandlerCancels,
     HandlerWritesCancelled
<1>4. ASSUME NEW r \in Request, CancelRead(r) \/ CancelWrite(r) \/ ClientTimeout(r)
      PROVE Tickets'
  BY <1>4 DEF CancelRead, CancelWrite, ClientTimeout
<1>5. ASSUME NEW r \in Request, FailStranded(r) \/ Reconcile(r) PROVE Tickets'
  BY <1>5 DEF FailStranded, Reconcile
<1>6. ASSUME NEW r \in Request, NEW o \in {"APPROVED", "REJECTED", "EXPIRED"},
             Settle(r, o)
      PROVE Tickets'
  BY <1>6 DEF Settle
<1>7. CASE ListStranded \/ ListWaiting \/ FinishBoot
  BY <1>7 DEF ListStranded, ListWaiting, FinishBoot, RowsIn
<1>8. CASE Crash
  BY <1>8 DEF Crash, Kill
<1>9. CASE UNCHANGED vars
  BY <1>9 DEF vars
<1>10. QED
  BY <1>1, <1>2, <1>3, <1>4, <1>5, <1>6, <1>7, <1>8, <1>9 DEF Next, BootStep

\* A loop that goes on has an attempt left.
LEMMA AttemptsStep ==
  ASSUME TypeOK, Attempts, [Next]_vars
  PROVE Attempts'
<1> USE ExecutionAssumption DEF TypeOK, Attempts, Looping
<1>1. ASSUME NEW r \in Request, Submit(r) \/ CallerStep(r) PROVE Attempts'
  BY <1>1 DEF Submit, CallerStep, CreateTicket, SaveWaiting, StartUngated
<1>2. ASSUME NEW r \in Request, LoopStep(r) PROVE Attempts'
  BY <1>2 DEF LoopStep, Attempt, RecordSuccess, RecordFailure, AfterFailure
<1>3. ASSUME NEW r \in Request, HandlerStep(r) PROVE Attempts'
  BY <1>3 DEF HandlerStep, ReadEvent, HandlerFails, Resume, Resumes, HandlerCancels,
     HandlerWritesCancelled
<1>4. ASSUME NEW r \in Request, CancelRead(r) \/ CancelWrite(r) \/ ClientTimeout(r)
      PROVE Attempts'
  BY <1>4 DEF CancelRead, CancelWrite, ClientTimeout
<1>5. ASSUME NEW r \in Request, FailStranded(r) \/ Reconcile(r) PROVE Attempts'
  BY <1>5 DEF FailStranded, Reconcile
<1>6. ASSUME NEW r \in Request, NEW o \in {"APPROVED", "REJECTED", "EXPIRED"},
             Settle(r, o)
      PROVE Attempts'
  BY <1>6 DEF Settle
<1>7. CASE ListStranded \/ ListWaiting \/ FinishBoot
  BY <1>7 DEF ListStranded, ListWaiting, FinishBoot, RowsIn
<1>8. CASE Crash
  BY <1>8 DEF Crash, Kill
<1>9. CASE UNCHANGED vars
  BY <1>9 DEF vars
<1>10. QED
  BY <1>1, <1>2, <1>3, <1>4, <1>5, <1>6, <1>7, <1>8, <1>9 DEF Next, BootStep

\* A loop is started once and counts every attempt.
LEMMA OnceStep ==
  ASSUME TypeOK, Rows, Tickets, Once, [Next]_vars
  PROVE Once'
<1> USE ExecutionAssumption DEF TypeOK, Rows, Tickets, Once, Looping, Suspended
<1>1. ASSUME NEW r \in Request, Submit(r) \/ CallerStep(r) PROVE Once'
  BY <1>1 DEF Submit, CallerStep, CreateTicket, SaveWaiting, StartUngated
<1>2. ASSUME NEW r \in Request, LoopStep(r) PROVE Once'
  BY <1>2 DEF LoopStep, Attempt, RecordSuccess, RecordFailure, AfterFailure
<1>3. ASSUME NEW r \in Request, HandlerStep(r) PROVE Once'
  BY <1>3 DEF HandlerStep, ReadEvent, HandlerFails, Resume, Resumes, HandlerCancels,
     HandlerWritesCancelled
<1>4. ASSUME NEW r \in Request, CancelRead(r) \/ CancelWrite(r) \/ ClientTimeout(r)
      PROVE Once'
  BY <1>4 DEF CancelRead, CancelWrite, ClientTimeout
<1>5. ASSUME NEW r \in Request, FailStranded(r) \/ Reconcile(r) PROVE Once'
  BY <1>5 DEF FailStranded, Reconcile
<1>6. ASSUME NEW r \in Request, NEW o \in {"APPROVED", "REJECTED", "EXPIRED"},
             Settle(r, o)
      PROVE Once'
  BY <1>6 DEF Settle
<1>7. CASE ListStranded \/ ListWaiting \/ FinishBoot
  BY <1>7 DEF ListStranded, ListWaiting, FinishBoot, RowsIn
<1>8. CASE Crash
  BY <1>8 DEF Crash, Kill
<1>9. CASE UNCHANGED vars
  BY <1>9 DEF vars
<1>10. QED
  BY <1>1, <1>2, <1>3, <1>4, <1>5, <1>6, <1>7, <1>8, <1>9 DEF Next, BootStep

\* A row becomes RUNNING together with its loop, and stays so with it.
LEMMA OwnedStep ==
  ASSUME TypeOK, Rows, Owned, [Next]_vars
  PROVE Owned'
<1> USE ExecutionAssumption DEF TypeOK, Rows, Owned, Insert, Looping, Terminal, Suspended
<1>1. ASSUME NEW r \in Request, Submit(r) \/ CallerStep(r) PROVE Owned'
  BY <1>1 DEF Submit, CallerStep, CreateTicket, SaveWaiting, StartUngated
<1>2. ASSUME NEW r \in Request, LoopStep(r) PROVE Owned'
  BY <1>2 DEF LoopStep, Attempt, RecordSuccess, RecordFailure, AfterFailure
<1>3. ASSUME NEW r \in Request, HandlerStep(r) PROVE Owned'
  BY <1>3 DEF HandlerStep, ReadEvent, HandlerFails, Resume, Resumes, HandlerCancels,
     HandlerWritesCancelled
<1>4. ASSUME NEW r \in Request, CancelRead(r) \/ CancelWrite(r) \/ ClientTimeout(r)
      PROVE Owned'
  BY <1>4 DEF CancelRead, CancelWrite, ClientTimeout
<1>5. ASSUME NEW r \in Request, FailStranded(r) \/ Reconcile(r) PROVE Owned'
  BY <1>5 DEF FailStranded, Reconcile
<1>6. ASSUME NEW r \in Request, NEW o \in {"APPROVED", "REJECTED", "EXPIRED"},
             Settle(r, o)
      PROVE Owned'
  BY <1>6 DEF Settle
<1>7. CASE ListStranded \/ ListWaiting \/ FinishBoot
  BY <1>7 DEF ListStranded, ListWaiting, FinishBoot, RowsIn
<1>8. CASE Crash
  BY <1>8 DEF Crash, Kill
<1>9. CASE UNCHANGED vars
  BY <1>9 DEF vars
<1>10. QED
  BY <1>1, <1>2, <1>3, <1>4, <1>5, <1>6, <1>7, <1>8, <1>9 DEF Next, BootStep

\* A crash ends every coroutine, and only recovered workflows begin new ones.
LEMMA BootingStep ==
  ASSUME TypeOK, Booting, Rows, [Next]_vars
  PROVE Booting'
<1> USE ExecutionAssumption DEF TypeOK, Booting, Calling, Suspended, Looping
<1>1. ASSUME NEW r \in Request, Submit(r) \/ CallerStep(r) PROVE Booting'
  BY <1>1 DEF Submit, CallerStep, CreateTicket, SaveWaiting, StartUngated
<1>2. ASSUME NEW r \in Request, LoopStep(r) PROVE Booting'
  BY <1>2 DEF LoopStep, Attempt, RecordSuccess, RecordFailure, AfterFailure
<1>3. ASSUME NEW r \in Request, HandlerStep(r) PROVE Booting'
  BY <1>3 DEF HandlerStep, ReadEvent, HandlerFails, Resume, Resumes, HandlerCancels,
     HandlerWritesCancelled
<1>4. ASSUME NEW r \in Request, CancelRead(r) \/ CancelWrite(r) \/ ClientTimeout(r)
      PROVE Booting'
  BY <1>4 DEF CancelRead, CancelWrite, ClientTimeout
<1>5. ASSUME NEW r \in Request, FailStranded(r) \/ Reconcile(r) PROVE Booting'
  BY <1>5 DEF FailStranded, Reconcile
<1>6. ASSUME NEW r \in Request, NEW o \in {"APPROVED", "REJECTED", "EXPIRED"},
             Settle(r, o)
      PROVE Booting'
  BY <1>6 DEF Settle
<1>7. CASE ListStranded \/ ListWaiting \/ FinishBoot
  BY <1>7 DEF ListStranded, ListWaiting, FinishBoot, RowsIn
<1>8. CASE Crash
  BY <1>8 DEF Crash, Kill
<1>9. CASE UNCHANGED vars
  BY <1>9 DEF vars
<1>10. QED
  BY <1>1, <1>2, <1>3, <1>4, <1>5, <1>6, <1>7, <1>8, <1>9 DEF Next, BootStep

\* What was read of an undisturbed row is still so when it is written.
LEMMA AloneStep ==
  ASSUME TypeOK, Rows, Tickets, Attempts, Booting, Alone, [Next]_vars
  PROVE Alone'
<1> USE ExecutionAssumption DEF TypeOK, Rows, Tickets, Booting, Alone, Undisturbed,
   Deciding, Insert, KeyTaken, Terminal, Suspended, Looping
<1>1. ASSUME NEW r \in Request, Submit(r) \/ CallerStep(r) PROVE Alone'
  BY <1>1 DEF Submit, CallerStep, CreateTicket, SaveWaiting, StartUngated
<1>2. ASSUME NEW r \in Request, LoopStep(r) PROVE Alone'
  BY <1>2 DEF LoopStep, Attempt, RecordSuccess, RecordFailure, AfterFailure
<1>3. ASSUME NEW r \in Request, HandlerStep(r) PROVE Alone'
  BY <1>3 DEF HandlerStep, ReadEvent, HandlerFails, Resume, Resumes, HandlerCancels,
     HandlerWritesCancelled
<1>4. ASSUME NEW r \in Request, CancelRead(r) \/ CancelWrite(r) \/ ClientTimeout(r)
      PROVE Alone'
  BY <1>4 DEF CancelRead, CancelWrite, ClientTimeout
<1>5. ASSUME NEW r \in Request, FailStranded(r) \/ Reconcile(r) PROVE Alone'
  BY <1>5 DEF FailStranded, Reconcile
<1>6. ASSUME NEW r \in Request, NEW o \in {"APPROVED", "REJECTED", "EXPIRED"},
             Settle(r, o)
      PROVE Alone'
  BY <1>6 DEF Settle
<1>7. CASE ListStranded \/ ListWaiting \/ FinishBoot
  BY <1>7 DEF ListStranded, ListWaiting, FinishBoot, RowsIn
<1>8. CASE Crash
  BY <1>8 DEF Crash, Kill
<1>9. CASE UNCHANGED vars
  BY <1>9 DEF vars
<1>10. QED
  BY <1>1, <1>2, <1>3, <1>4, <1>5, <1>6, <1>7, <1>8, <1>9 DEF Next, BootStep

HIDE DEF rows, calls, work, system, Call, Handle, Loop, Write

-----------------------------------------------------------------------------
(* What a step does to the abstract state.                                 *)
phase == [r \in Undisturbed |-> PhaseOf(status[r])]
consent == {r \in Gated \cap Undisturbed : ticket[r] = "APPROVED"}
effects == [r \in Undisturbed |-> dispatched[r]]
Still == UNCHANGED <<phase, consent, effects>>

\* A write to one row.
LEMMA Written ==
  ASSUME TypeOK, NEW r \in Request, NEW s, Write(r, s), UNCHANGED <<ticket, dispatched>>
  PROVE  /\ consent' = consent /\ effects' = effects
         /\ phase' = IF r \in Undisturbed THEN [phase EXCEPT ![r] = PhaseOf(s)] ELSE phase
<1>1. status' = [status EXCEPT ![r] = s] /\ status \in [Request -> Status] /\ Undisturbed \subseteq Request
  BY DEF Write, TypeOK, Undisturbed
<1>2. consent' = consent /\ effects' = effects
  BY DEF consent, effects
<1>3. phase' = IF r \in Undisturbed THEN [phase EXCEPT ![r] = PhaseOf(s)] ELSE phase
  BY <1>1 DEF phase
<1>4. QED
  BY <1>2, <1>3

\* Every step of the manager is a step of what it promises, or none.
LEMMA StepRefines ==
  ASSUME ExecutionInv, [Next]_vars
  PROVE  Still \/ \E r \in Undisturbed : \/ Effect!Hold(r) \/ Effect!Consent(r) \/ Effect!Release(r)
                                          \/ Effect!Act(r) \/ Effect!Close(r)
<1> DEFINE Goal == Still \/ \E r \in Undisturbed : \/ Effect!Hold(r) \/ Effect!Consent(r)
                                   \/ Effect!Release(r) \/ Effect!Act(r) \/ Effect!Close(r)
<1> USE DEF ExecutionInv
<1>s. ASSUME UNCHANGED <<status, ticket, dispatched>> PROVE Goal
  BY <1>s DEF Still, phase, consent, effects
<1>w. ASSUME NEW r \in Request, NEW s, Write(r, s), UNCHANGED <<ticket, dispatched>>,
             r \in Undisturbed =>
               \/ status[r] = "ABSENT" /\ s = "WAITING_APPROVAL" /\ r \in Gated
               \/ status[r] = "ABSENT" /\ s = "RUNNING" /\ r \notin Gated
               \/ status[r] = "WAITING_APPROVAL" /\ s = "RUNNING" /\ r \in Gated /\ ticket[r] = "APPROVED"
               \/ status[r] \in {"WAITING_APPROVAL", "RUNNING"} /\ s \in Terminal
      PROVE Goal
  <2>1. /\ consent' = consent /\ effects' = effects
        /\ phase' = IF r \in Undisturbed THEN [phase EXCEPT ![r] = PhaseOf(s)] ELSE phase
    BY <1>w, Written
  <2>2. CASE r \notin Undisturbed
    BY <2>1, <2>2 DEF Still
  <2>3. CASE r \in Undisturbed
    <3>0. phase' = [phase EXCEPT ![r] = PhaseOf(s)] /\ phase[r] = PhaseOf(status[r])
      BY <2>1, <2>3 DEF phase
    <3>1. CASE status[r] = "ABSENT" /\ s = "WAITING_APPROVAL" /\ r \in Gated
      <4>1. phase[r] = "none" /\ PhaseOf(s) = "held"
        BY <3>0, <3>1 DEF PhaseOf
      <4>2. Effect!Hold(r)
        BY <2>1, <2>3, <3>0, <3>1, <4>1 DEF Effect!Hold, Effect!Becomes, phase, consent,
           effects
      <4>3. QED
        BY <2>3, <4>2
    <3>2. CASE status[r] = "ABSENT" /\ s = "RUNNING" /\ r \notin Gated
      <4>1. phase[r] = "none" /\ PhaseOf(s) = "released"
        BY <3>0, <3>2 DEF PhaseOf
      <4>2. Effect!Release(r)
        BY <2>1, <2>3, <3>0, <3>2, <4>1 DEF Effect!Release, Effect!Becomes, phase,
           consent, effects
      <4>3. QED
        BY <2>3, <4>2
    <3>3. CASE status[r] = "WAITING_APPROVAL" /\ s = "RUNNING" /\ r \in Gated /\ ticket[r] = "APPROVED"
      <4>1. phase[r] = "held" /\ PhaseOf(s) = "released" /\ r \in consent
        BY <2>3, <3>0, <3>3 DEF PhaseOf, consent
      <4>2. Effect!Release(r)
        BY <2>1, <2>3, <3>0, <3>3, <4>1 DEF Effect!Release, Effect!Becomes, phase,
           consent, effects
      <4>3. QED
        BY <2>3, <4>2
    <3>4. CASE status[r] \in {"WAITING_APPROVAL", "RUNNING"} /\ s \in Terminal
      <4>1. phase[r] \in {"held", "released"} /\ PhaseOf(s) = "closed"
        BY <3>0, <3>4 DEF PhaseOf, Terminal
      <4>2. Effect!Close(r)
        BY <2>1, <2>3, <3>0, <4>1 DEF Effect!Close, Effect!Becomes, phase, consent,
           effects
      <4>3. QED
        BY <2>3, <4>2
    <3>5. QED
      BY <1>w, <2>3, <3>1, <3>2, <3>3, <3>4
  <2>4. QED
    BY <2>2, <2>3
<1>1. ASSUME NEW r \in Request, Submit(r) \/ CallerStep(r) PROVE Goal
  <2>1. CASE Submit(r)
    BY <1>s, <2>1 DEF Submit, rows, work
  <2>2. CASE CreateTicket(r)
    <3>1. status' = status /\ dispatched' = dispatched /\ ticket' = [ticket EXCEPT ![r] = "PENDING"]
          /\ ticket[r] = "ABSENT"
      BY <2>2 DEF CreateTicket, work, Tickets
    <3>2. QED
      BY <3>1 DEF Still, phase, consent, effects, TypeOK
  <2>3. CASE SaveWaiting(r)
    <3>1. /\ status[r] = "ABSENT" /\ r \in Gated /\ UNCHANGED <<ticket, dispatched>>
          /\ Write(r, "WAITING_APPROVAL") \/ status' = status
      BY <2>3 DEF SaveWaiting, Insert, Rows, Tickets, work
    <3>2. QED
      BY <1>s, <1>w, <3>1
  <2>4. CASE StartUngated(r)
    <3>1. /\ status[r] = "ABSENT" /\ r \notin Gated /\ UNCHANGED <<ticket, dispatched>>
          /\ Write(r, "RUNNING") \/ status' = status
      BY <2>4 DEF StartUngated, Insert, Rows
    <3>2. QED
      BY <1>s, <1>w, <3>1
  <2>5. QED
    BY <1>1, <2>1, <2>2, <2>3, <2>4 DEF CallerStep
<1>2. ASSUME NEW r \in Request, LoopStep(r) PROVE Goal
  <2>1. /\ loop[r] \in Looping
        /\ r \in Undisturbed => status[r] = "RUNNING" /\ dispatched[r] = tries[r]
    BY <1>2 DEF LoopStep, Attempt, RecordSuccess, RecordFailure, Looping, Alone
  <2>2. CASE Attempt(r)
    <3>1. /\ status' = status /\ ticket' = ticket
          /\ dispatched' = [dispatched EXCEPT ![r] = @ + 1] /\ tries[r] < MaxAttempts
      BY <2>2 DEF Attempt, rows, Attempts
    <3>2. phase' = phase /\ consent' = consent
      BY <3>1 DEF phase, consent
    <3>3. CASE r \notin Undisturbed
      BY <3>1, <3>2, <3>3 DEF Still, effects, TypeOK, Undisturbed
    <3>4. CASE r \in Undisturbed
      <4>1. phase[r] = "released" /\ effects[r] < MaxAttempts
        BY <2>1, <3>1, <3>4 DEF phase, effects, PhaseOf
      <4>2. effects' = [effects EXCEPT ![r] = effects[r] + 1]
        BY <3>1, <3>4 DEF effects, TypeOK, Undisturbed
      <4>3. Effect!Act(r)
        BY <3>2, <4>1, <4>2 DEF Effect!Act, phase, consent, effects
      <4>4. QED
        BY <3>4, <4>3
    <3>5. QED
      BY <3>3, <3>4
  <2>3. CASE RecordSuccess(r) \/ RecordFailure(r)
    <3>1. /\ UNCHANGED <<ticket, dispatched>>
          /\ status' = status \/ \E s \in Terminal : Write(r, s)
      BY <2>3 DEF RecordSuccess, RecordFailure, Terminal
    <3>2. QED
      BY <1>s, <1>w, <2>1, <3>1
  <2>4. QED
    BY <1>2, <2>2, <2>3 DEF LoopStep
<1>3. ASSUME NEW r \in Request, HandlerStep(r) PROVE Goal
  <2>1. CASE ReadEvent(r) \/ HandlerFails(r) \/ HandlerCancels(r)
    BY <1>s, <2>1 DEF ReadEvent, HandlerFails, HandlerCancels, rows, work
  <2>2. CASE Resume(r)
    <3>1. /\ Write(r, "RUNNING") /\ UNCHANGED <<ticket, dispatched>>
          /\ ticket[r] = "APPROVED" /\ r \in Gated
          /\ r \in Undisturbed => status[r] = "WAITING_APPROVAL"
      BY <2>2 DEF Resume, Tickets, Alone, Deciding
    <3>2. QED
      BY <1>w, <3>1
  <2>3. CASE HandlerWritesCancelled(r)
    <3>1. /\ Write(r, "CANCELLED") /\ UNCHANGED <<ticket, dispatched>>
          /\ r \in Undisturbed => status[r] = "WAITING_APPROVAL"
      BY <2>3 DEF HandlerWritesCancelled, Alone, Deciding, work
    <3>2. QED
      BY <1>w, <3>1 DEF Terminal
  <2>4. QED
    BY <1>3, <2>1, <2>2, <2>3 DEF HandlerStep
<1>4. ASSUME NEW r \in Request, CancelRead(r) \/ ClientTimeout(r) PROVE Goal
  BY <1>s, <1>4 DEF CancelRead, ClientTimeout, rows, work
<1>5. ASSUME NEW r \in Request, CancelWrite(r) PROVE Goal
  <2>1. Write(r, "CANCELLED") /\ UNCHANGED <<ticket, dispatched>> /\ r \notin Undisturbed
    BY <1>5 DEF CancelWrite, Alone, work
  <2>2. QED
    BY <1>w, <2>1
<1>6. ASSUME NEW r \in Request, FailStranded(r) PROVE Goal
  <2>1. /\ Write(r, "FAILED") /\ UNCHANGED <<ticket, dispatched>>
        /\ r \in Undisturbed => status[r] = "RUNNING"
    BY <1>6 DEF FailStranded, Alone, work
  <2>2. QED
    BY <1>w, <2>1 DEF Terminal
<1>7. ASSUME NEW r \in Request, Reconcile(r) PROVE Goal
  <2>1. /\ UNCHANGED <<ticket, dispatched>>
        /\ status' = status \/ (Write(r, "CANCELLED") /\ status[r] = "WAITING_APPROVAL")
    BY <1>7 DEF Reconcile, work
  <2>2. QED
    BY <1>s, <1>w, <2>1 DEF Terminal
<1>8. ASSUME NEW r \in Request, NEW o \in {"APPROVED", "REJECTED", "EXPIRED"},
             Settle(r, o) PROVE Goal
  <2>1. /\ status' = status /\ dispatched' = dispatched /\ ticket[r] = "PENDING" /\ r \in Gated
        /\ ticket' = [ticket EXCEPT ![r] = o]
    BY <1>8 DEF Settle, work, Tickets
  <2>2. phase' = phase /\ effects' = effects /\ r \notin consent
    BY <2>1 DEF phase, effects, consent
  <2>3. CASE r \in Undisturbed /\ o = "APPROVED"
    <3>1. consent' = consent \cup {r}
      BY <2>1, <2>3 DEF consent, TypeOK
    <3>2. Effect!Consent(r)
      BY <2>1, <2>2, <2>3, <3>1 DEF Effect!Consent, phase, consent, effects
    <3>3. QED
      BY <2>3, <3>2
  <2>4. CASE ~(r \in Undisturbed /\ o = "APPROVED")
    <3>1. consent' = consent
      BY <2>1, <2>4 DEF consent, TypeOK
    <3>2. QED
      BY <2>2, <3>1 DEF Still
  <2>5. QED
    BY <2>3, <2>4
<1>9. CASE ListStranded \/ ListWaiting \/ FinishBoot \/ Crash \/ UNCHANGED vars
  BY <1>s, <1>9 DEF ListStranded, ListWaiting, FinishBoot, Crash, vars, rows, work
<1>10. QED
  BY <1>1, <1>2, <1>3, <1>4, <1>5, <1>6, <1>7, <1>8, <1>9 DEF Next, BootStep

-----------------------------------------------------------------------------
(* The theorems.                                                           *)

\* The invariant holds at the start,
LEMMA InitInv == Init => ExecutionInv
<1> SUFFICES ASSUME Init PROVE ExecutionInv
  OBVIOUS
<1>1. TypeOK
  BY ExecutionAssumption DEF Init, TypeOK, Status, TicketState, Control, Ended, LoopState
<1>2. Rows /\ Unique /\ Tickets /\ Attempts /\ Once /\ Owned /\ Booting /\ Alone
  BY ExecutionAssumption
  DEF Init, Rows, Unique, Tickets, Attempts, Once, Owned, Booting, Alone, Deciding,
     Looping, Undisturbed
<1>3. QED
  BY <1>1, <1>2 DEF ExecutionInv

\* and every step keeps it.
LEMMA StepInv == ExecutionInv /\ [Next]_vars => ExecutionInv'
BY TypeStep, RowsStep, UniqueStep, TicketsStep, AttemptsStep, OnceStep, OwnedStep,
   BootingStep, AloneStep
DEF ExecutionInv

\* The invariant.
THEOREM ExecutionInvariant == Spec => []ExecutionInv
BY InitInv, StepInv, PTL DEF Spec

\* Every row, ticket and coroutine keeps its type; no loop makes more attempts
\* than the retry policy allows.
THEOREM ExecutionTypeCorrect == Spec => []TypeOK
<1>1. ExecutionInv => TypeOK
  BY DEF ExecutionInv
<1>2. QED
  BY <1>1, ExecutionInvariant, PTL

\* Whatever is dispatched has one owner.
THEOREM OneOwnerAlways == Spec => []OneOwner
<1>1. ASSUME ExecutionInv PROVE OneExecutionPerKey
  BY <1>1, ExecutionAssumption DEF ExecutionInv, Rows, Unique, OneExecutionPerKey
<1>2. ASSUME ExecutionInv PROVE RunningIsOwned
  BY <1>2 DEF ExecutionInv, Owned, RunningIsOwned
<1>3. ExecutionInv => OneOwner
  BY <1>1, <1>2 DEF OneOwner
<1>4. QED
  BY <1>3, ExecutionInvariant, PTL

\* Also a request that a user cancels, or that comes from a recovered workflow,
\* reaches its target only after its ticket was approved, if it needs one, and
\* no more often than its retry policy allows, over all crashes.
Restrained ==
  \A r \in Request : /\ dispatched[r] > 0 /\ r \in Gated => ticket[r] = "APPROVED"
                      /\ dispatched[r] <= MaxAttempts

\* Whatever cancels, boots, deliveries and faults overlap, every dispatch is
\* Restrained.
THEOREM RestrainedAlways == Spec => []Restrained
<1>1. ASSUME ExecutionInv, NEW r \in Request
      PROVE  /\ dispatched[r] > 0 /\ r \in Gated => ticket[r] = "APPROVED"
             /\ dispatched[r] <= MaxAttempts
  <2>1. dispatched[r] \in Nat /\ tries[r] \in 0..MaxAttempts /\ MaxAttempts \in Nat
    BY <1>1, ExecutionAssumption DEF ExecutionInv, TypeOK
  <2>2. QED
    BY <1>1, <2>1 DEF ExecutionInv, Once
<1>2. ExecutionInv => Restrained
  BY <1>1 DEF Restrained
<1>3. QED
  BY <1>2, ExecutionInvariant, PTL

\* The manager implements GovernedEffect.
THEOREM ImplementsEffect == Spec => PromiseKept
<1>1. Init => Effect!Init
  BY ExecutionAssumption DEF Init, Effect!Init, PhaseOf, Undisturbed
<1>2. ExecutionInv /\ [Next]_vars => [Effect!Next]_<<phase, consent, effects>>
  BY StepRefines DEF Still, Effect!Next
<1>3. QED
  BY <1>1, <1>2, ExecutionInvariant, PTL DEF Spec, PromiseKept, Effect!Spec, Effect!vars,
     phase, consent, effects
=============================================================================
