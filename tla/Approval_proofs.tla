--------------------------- MODULE Approval_proofs ---------------------------
(***************************************************************************)
(* Theorems about Approval for any tickets, principals, submissions and    *)
(* sweepers, any batch limit and every fault.                              *)
(***************************************************************************)
EXTENDS Approval, SequenceTheorems, TLAPS

(* What appending does to the short sequences of the outbox and the bus.   *)
LEMMA Appending ==
  ASSUME NEW e, NEW f
  PROVE  /\ Append(<<>>, e) = <<e>>
         /\ Append(<<e>>, f) = <<e, f>>
         /\ <<e>> # <<>> /\ Len(<<e>>) = 1 /\ <<e>>[1] = e
<1>1. Append(<<>>, e) = <<e>>
  OBVIOUS
<1>2. Append(<<e>>, f) = <<e, f>>
  <2> DEFINE both == Append(<<e>>, f)
  <2>1. <<e>> \in Seq({e, f}) /\ Len(<<e>>) = 1
    OBVIOUS
  <2>2. both \in Seq({e, f}) /\ Len(both) = 2 /\ both[1] = e /\ both[2] = f
    BY <2>1
  <2>3. <<e, f>> \in Seq({e, f}) /\ Len(<<e, f>>) = 2
    OBVIOUS
  <2>4. <<e, f>>[1] = e /\ <<e, f>>[2] = f
    OBVIOUS
  <2>5. ASSUME NEW i \in 1..2 PROVE both[i] = <<e, f>>[i]
    <3>1. CASE i = 1
      BY <3>1, <2>2, <2>4
    <3>2. CASE i = 2
      BY <3>2, <2>2, <2>4
    <3>3. QED
      BY <3>1, <3>2
  <2>6. QED
    BY <2>2, <2>3, <2>5, SeqEqual
<1>3. Len(<<e>>) = 1 /\ <<e>>[1] = e
  OBVIOUS
<1>4. <<e>> # <<>>
  OBVIOUS
<1>5. QED
  BY <1>1, <1>2, <1>3, <1>4

LEMMA StageType ==
  ASSUME TypeOK, NEW t \in Ticket, NEW e \in {"created"} \cup Outcome,
         Stage(t, e) \/ outbox' = outbox
  PROVE  outbox' \in [Ticket -> Seq({"created"} \cup Outcome)]
<1>1. outbox \in [Ticket -> Seq({"created"} \cup Outcome)]
  BY DEF TypeOK
<1>2. Append(outbox[t], e) \in Seq({"created"} \cup Outcome)
  BY <1>1, AppendProperties
<1>3. QED
  BY <1>1, <1>2 DEF Stage

LEMMA PublishType ==
  ASSUME TypeOK, NEW t \in Ticket, NEW o \in Outcome, Publish(t, o)
  PROVE  heard' \in [Ticket -> Seq(Outcome)]
<1>1. heard \in [Ticket -> Seq(Outcome)]
  BY DEF TypeOK
<1>2. Append(heard[t], o) \in Seq(Outcome)
  BY <1>1, AppendProperties
<1>3. QED
  BY <1>1, <1>2 DEF Publish

(* Goto moves one submission, to a label of the program.                   *)
LEMMA GotoFacts ==
  ASSUME TypeOK, NEW s \in Submission, NEW label \in Control, Goto(s, label)
  PROVE  /\ pc' \in [Submission -> Control]
         /\ pc'[s] = label
         /\ \A r \in Submission : r # s => pc'[r] = pc[r]
BY DEF TypeOK, Goto

LEMMA Labels ==
  /\ Deciding \subseteq Control
  /\ {"idle", "committed", "returned", "conflict", "denied", "raised"}
       \subseteq Control
BY DEF Control

(* What submit_decision has established about a call that it lets through  *)
(* to a later await: the ticket exists, the verdict is one, the requester  *)
(* is another principal and, from the commit on, signature and role hold.  *)
Entitled(c) ==
  c.ticket \in Restricted /\ c.principal \notin Holders =>
    \E g \in delegations : g.to = c.principal
Vetted ==
  \A s \in Submission : pc[s] \in Deciding \cup {"committed"} =>
    /\ state[call[s].ticket] # "ABSENT" /\ MayDecide(call[s])
    /\ pc[s] # "delegation" => SignatureAccepted(call[s]) /\ Entitled(call[s])

(* Each kind of step leaves every variable in its type.                    *)
LEMMA CreateType == TypeOK /\ Create => TypeOK'
<1> SUFFICES ASSUME TypeOK, Create PROVE TypeOK'
  OBVIOUS
<1>1. ASSUME NEW t \in Ticket, NEW p \in Principal \cup {NoPrincipal},
             CreateRequest(t, p)
      PROVE TypeOK'
  <2>1. outbox' \in [Ticket -> Seq({"created"} \cup Outcome)]
    BY <1>1, StageType DEF CreateRequest
  <2>2. QED
    BY <1>1, <2>1 DEF CreateRequest, authority, TypeOK, TicketState
<1>2. ASSUME NEW t \in Ticket, DeadlinePasses(t) PROVE TypeOK'
  BY <1>2 DEF DeadlinePasses, authority, TypeOK
<1>3. ASSUME NEW p \in Principal, NEW q \in Principal, Delegate(p, q)
      PROVE TypeOK'
  BY <1>3 DEF Delegate, tickets, TypeOK, Delegation
<1>4. ASSUME NEW d \in Delegation, DelegationEnds(d) PROVE TypeOK'
  BY <1>4 DEF DelegationEnds, tickets, TypeOK
<1>5. QED
  BY <1>1, <1>2, <1>3, <1>4 DEF Create

LEMMA DecideType ==
  ASSUME NEW s \in Submission PROVE TypeOK /\ Vetted /\ Decide(s) => TypeOK'
<1> SUFFICES ASSUME TypeOK, Vetted, Decide(s) PROVE TypeOK'
  OBVIOUS
<1>1. ASSUME NEW c \in Call, Submit(s, c) PROVE TypeOK'
  <2>1. \E label \in Control : Goto(s, label)
    BY <1>1, Labels DEF Submit, Deciding
  <2>2. pc' \in [Submission -> Control] /\ \A r \in Submission : r # s => pc'[r] = pc[r]
    BY <2>1, GotoFacts
  <2>3. call' \in [Submission -> Call \cup {NoCall}]
        /\ call'[s] = c /\ \A r \in Submission : r # s => call'[r] = call[r]
    BY <1>1 DEF Submit, TypeOK
  <2>4. QED
    BY <1>1, <2>2, <2>3 DEF Submit, tickets, authority, TypeOK
<1>2. CASE CheckDelegation(s) \/ ReadPending(s)
  <2>1. \E label \in Control : Goto(s, label)
    BY <1>2, Labels DEF CheckDelegation, ReadPending, Deciding
  <2>2. pc' \in [Submission -> Control] /\ \A r \in Submission : r # s => pc'[r] = pc[r]
    BY <2>1, GotoFacts
  <2>3. pc[s] # "idle"
    BY <1>2 DEF CheckDelegation, ReadPending
  <2>4. QED
    BY <1>2, <2>2, <2>3
    DEF CheckDelegation, ReadPending, tickets, authority, TypeOK
<1>3. CASE CommitDecision(s)
  <2> DEFINE c == call[s]
             row == [ticket |-> c.ticket, approver |-> c.principal,
                     decision |-> c.decision, signature |-> c.signature]
  <2>1. \E label \in Control : Goto(s, label)
    BY <1>3, Labels DEF CommitDecision
  <2>2. pc' \in [Submission -> Control] /\ \A r \in Submission : r # s => pc'[r] = pc[r]
    BY <2>1, GotoFacts
  <2>3. pc[s] # "idle" /\ c \in Call
    BY <1>3 DEF CommitDecision, TypeOK
  <2>4. outbox' \in [Ticket -> Seq({"created"} \cup Outcome)]
    <3>1. c.ticket \in Ticket /\ c.decision \in Outcome
      BY <2>3 DEF Call
    <3>2. Stage(c.ticket, c.decision) \/ outbox' = outbox
      BY <1>3 DEF CommitDecision
    <3>3. QED
      BY <3>1, <3>2, StageType
  <2>5. state' \in [Ticket -> TicketState]
    BY <1>3, <2>3 DEF CommitDecision, TypeOK, TicketState, Call
  <2>6. decisions' \subseteq Decision
    <3>1. c.decision \in Verdict
      BY <1>3 DEF CommitDecision, Vetted, Deciding, MayDecide
    <3>2. row \in Decision
      BY <2>3, <3>1 DEF Call, Decision
    <3>3. decisions' = decisions \/ decisions' = decisions \cup {row}
      BY <1>3 DEF CommitDecision
    <3>4. QED
      BY <3>2, <3>3 DEF TypeOK
  <2>7. QED
    BY <1>3, <2>2, <2>3, <2>4, <2>5, <2>6 DEF CommitDecision, authority, TypeOK
<1>4. CASE PublishDecision(s)
  <2>1. pc[s] # "idle" /\ call[s] \in Call /\ call[s].decision \in Verdict
    BY <1>4 DEF PublishDecision, TypeOK, Vetted, MayDecide
  <2>2. heard' \in [Ticket -> Seq(Outcome)]
    BY <1>4, <2>1, PublishType DEF PublishDecision, Call, Outcome
  <2>3. pc' \in [Submission -> Control] /\ \A r \in Submission : r # s => pc'[r] = pc[r]
    BY <1>4, GotoFacts, Labels DEF PublishDecision
  <2>4. QED
    BY <1>4, <2>1, <2>2, <2>3 DEF PublishDecision, tickets, authority, TypeOK
<1>5. QED
  BY <1>1, <1>2, <1>3, <1>4 DEF Decide

LEMMA SweepType ==
  ASSUME NEW w \in Sweeper PROVE TypeOK /\ SweepStep(w) => TypeOK'
<1> SUFFICES ASSUME TypeOK, SweepStep(w) PROVE TypeOK'
  OBVIOUS
<1>1. Asleep \in Sweep
  BY DEF Asleep, Sweep
<1>2. CASE StartSweep(w)
  <2>1. PICK batch \in SUBSET Expired :
          sweep' = [sweep EXCEPT ![w] = [at |-> "expiring", todo |-> batch,
                                         ticket |-> NoTicket]]
    BY <1>2 DEF StartSweep
  <2>2. batch \subseteq Ticket
    BY ApprovalAssumption DEF Expired, TypeOK
  <2>3. [at |-> "expiring", todo |-> batch, ticket |-> NoTicket] \in Sweep
    BY <2>2 DEF Sweep
  <2>4. QED
    BY <1>2, <2>1, <2>3 DEF StartSweep, tickets, authority, TypeOK
<1>3. ASSUME NEW t \in Ticket, Expire(w, t) PROVE TypeOK'
  <2>1. outbox' \in [Ticket -> Seq({"created"} \cup Outcome)]
    <3>1. Stage(t, "EXPIRED") \/ outbox' = outbox
      BY <1>3 DEF Expire
    <3>2. QED
      BY <3>1, StageType DEF Outcome
  <2>2. state' \in [Ticket -> TicketState]
    BY <1>3 DEF Expire, TypeOK, TicketState, Outcome
  <2>3. [at |-> "announcing", ticket |-> t, todo |-> sweep[w].todo \ {t}] \in Sweep
    BY DEF TypeOK, Sweep
  <2>4. [sweep[w] EXCEPT !.todo = @ \ {t}] \in Sweep
    BY DEF TypeOK, Sweep
  <2>5. sweep' \in [Sweeper -> Sweep]
    BY <1>3, <2>3, <2>4 DEF Expire, TypeOK
  <2>6. QED
    BY <1>3, <2>1, <2>2, <2>5 DEF Expire, authority, TypeOK
<1>4. CASE PublishExpiry(w)
  <2>1. sweep[w].ticket \in Ticket => heard' \in [Ticket -> Seq(Outcome)]
    BY <1>4, PublishType DEF PublishExpiry, Outcome
  <2>2. sweep[w].ticket \notin Ticket => heard' = heard
    BY <1>4 DEF PublishExpiry, Publish, TypeOK
  <2>3. sweep' \in [Sweeper -> Sweep]
    <3>1. [sweep[w] EXCEPT !.at = "expiring", !.ticket = NoTicket] \in Sweep
      BY DEF TypeOK, Sweep
    <3>2. QED
      BY <1>4, <3>1 DEF PublishExpiry, TypeOK
  <2>4. QED
    BY <1>4, <2>1, <2>2, <2>3 DEF PublishExpiry, tickets, authority, TypeOK
<1>5. CASE EndSweep(w)
  BY <1>1, <1>5 DEF EndSweep, tickets, authority, TypeOK
<1>6. QED
  BY <1>2, <1>3, <1>4, <1>5 DEF SweepStep

LEMMA FailType == TypeOK /\ Fail => TypeOK'
<1> SUFFICES ASSUME TypeOK, Fail PROVE TypeOK'
  OBVIOUS
<1>1. Asleep \in Sweep
  BY DEF Asleep, Sweep
<1>2. ASSUME NEW s \in Submission, SubmissionFails(s) PROVE TypeOK'
  <2>1. pc' \in [Submission -> Control] /\ \A r \in Submission : r # s => pc'[r] = pc[r]
    BY <1>2, GotoFacts, Labels DEF SubmissionFails
  <2>2. pc[s] # "idle"
    BY <1>2 DEF SubmissionFails, Deciding
  <2>3. QED
    BY <1>2, <2>1, <2>2 DEF SubmissionFails, tickets, authority, TypeOK
<1>3. ASSUME NEW w \in Sweeper, SweepFails(w) PROVE TypeOK'
  BY <1>1, <1>3 DEF SweepFails, tickets, authority, TypeOK
<1>4. CASE Crash
  <2>1. pc' \in [Submission -> Control]
    BY <1>4, Labels DEF Crash, TypeOK
  <2>2. \A s \in Submission : pc'[s] # "idle" => pc[s] # "idle"
    BY <1>4 DEF Crash, TypeOK, Deciding
  <2>3. QED
    BY <1>1, <1>4, <2>1, <2>2 DEF Crash, tickets, authority, TypeOK
<1>5. QED
  BY <1>2, <1>3, <1>4 DEF Fail

LEMMA TypeStep == TypeOK /\ Vetted /\ [Next]_vars => TypeOK'
<1>1. TypeOK /\ UNCHANGED vars => TypeOK'
  BY DEF vars, tickets, authority, TypeOK
<1>2. QED
  BY <1>1, CreateType, DecideType, SweepType, FailType DEF Next

-----------------------------------------------------------------------------
(* What a step does to one ticket: nothing, its creation, or its outcome.  *)
Kept(t) == /\ state'[t] = state[t] /\ outbox'[t] = outbox[t]
           /\ requester'[t] = requester[t]
Opened(t) == /\ state[t] = "ABSENT" /\ state'[t] = "PENDING"
             /\ outbox'[t] = Append(outbox[t], "created")
Settled(t) == /\ state[t] = "PENDING" /\ state'[t] \in Outcome
              /\ outbox'[t] = Append(outbox[t], state'[t])
              /\ requester'[t] = requester[t]

LEMMA TicketFlow ==
  ASSUME TypeOK, [Next]_vars, NEW t \in Ticket
  PROVE  Kept(t) \/ Opened(t) \/ Settled(t)
<1> USE DEF Kept, Opened, Settled
<1>1. ASSUME NEW u \in Ticket, NEW p \in Principal \cup {NoPrincipal},
             CreateRequest(u, p)
      PROVE Kept(t) \/ Opened(t)
  BY <1>1 DEF CreateRequest, Stage, TypeOK
<1>2. ASSUME NEW s \in Submission, CommitDecision(s)
      PROVE Kept(t) \/ Settled(t)
  <2>1. call[s] \in Call
    BY <1>2 DEF CommitDecision, TypeOK
  <2>2. QED
    BY <1>2, <2>1 DEF CommitDecision, StillPending, Stage, TypeOK, Call
<1>3. ASSUME NEW w \in Sweeper, NEW u \in Ticket, Expire(w, u)
      PROVE Kept(t) \/ Settled(t)
  BY <1>3 DEF Expire, Stage, TypeOK, Outcome
<1>4. ASSUME UNCHANGED <<state, outbox, requester>> PROVE Kept(t)
  BY <1>4
<1>5. ASSUME NEW s \in Submission, Decide(s) PROVE Kept(t) \/ Settled(t)
  BY <1>2, <1>4, <1>5
  DEF Decide, Submit, CheckDelegation, ReadPending, PublishDecision, tickets
<1>6. ASSUME NEW w \in Sweeper, SweepStep(w) PROVE Kept(t) \/ Settled(t)
  BY <1>3, <1>4, <1>6 DEF SweepStep, StartSweep, PublishExpiry, EndSweep, tickets
<1>7. CASE Create
  BY <1>1, <1>4, <1>7 DEF Create, DeadlinePasses, Delegate, DelegationEnds, tickets
<1>8. CASE Fail \/ UNCHANGED vars
  BY <1>4, <1>8 DEF Fail, SubmissionFails, SweepFails, Crash, vars, tickets
<1>9. QED
  BY <1>5, <1>6, <1>7, <1>8 DEF Next

(* The delegations table only grows, by rows of those who may delegate.    *)
RightfulDelegations == \A g \in delegations : g.by \in Holders \cup Admins

LEMMA DelegationFlow ==
  ASSUME TypeOK, [Next]_vars
  PROVE  /\ delegations \subseteq delegations'
         /\ RightfulDelegations => RightfulDelegations'
<1>1. ASSUME NEW p \in Principal, NEW q \in Principal, Delegate(p, q)
      PROVE  /\ delegations \subseteq delegations'
             /\ RightfulDelegations => RightfulDelegations'
  BY <1>1 DEF Delegate, RightfulDelegations
<1>2. CASE delegations' = delegations
  BY <1>2 DEF RightfulDelegations
<1>3. ASSUME Create PROVE delegations' = delegations
                          \/ \E p, q \in Principal : Delegate(p, q)
  BY <1>3 DEF Create, CreateRequest, DeadlinePasses, DelegationEnds, authority
<1>4. ASSUME NEW s \in Submission, Decide(s) PROVE delegations' = delegations
  BY <1>4 DEF Decide, Submit, CheckDelegation, ReadPending, CommitDecision,
              PublishDecision, authority
<1>5. ASSUME NEW w \in Sweeper, SweepStep(w) PROVE delegations' = delegations
  BY <1>5 DEF SweepStep, StartSweep, Expire, PublishExpiry, EndSweep, authority
<1>6. ASSUME Fail \/ UNCHANGED vars PROVE delegations' = delegations
  BY <1>6 DEF Fail, SubmissionFails, SweepFails, Crash, vars, authority
<1>7. QED
  BY <1>1, <1>2, <1>3, <1>4, <1>5, <1>6 DEF Next

(* A vetted submission stays vetted, whatever else happens to its ticket.  *)
LEMMA VettedStep == TypeOK /\ Vetted /\ [Next]_vars => Vetted'
<1> SUFFICES ASSUME TypeOK, Vetted, [Next]_vars, NEW s \in Submission,
                    pc'[s] \in Deciding \cup {"committed"}
             PROVE  /\ state'[call'[s].ticket] # "ABSENT"
                    /\ MayDecide(call[s])'
                    /\ pc'[s] # "delegation" =>
                         SignatureAccepted(call'[s]) /\ Entitled(call[s])'
  BY DEF Vetted, SignatureAccepted
<1> DEFINE Past(c) == /\ state[c.ticket] # "ABSENT" /\ MayDecide(c)
           Full(c) == Past(c) /\ SignatureAccepted(c) /\ Entitled(c)
<1>1. ASSUME NEW c \in Call, call'[s] = c, Past(c)
      PROVE  /\ state'[call'[s].ticket] # "ABSENT"
             /\ MayDecide(call[s])'
  <2>1. c.ticket \in Ticket
    BY DEF Call
  <2>2. Kept(c.ticket) \/ Settled(c.ticket)
    BY <1>1, <2>1, TicketFlow DEF Opened
  <2>3. state'[c.ticket] # "ABSENT"
    BY <1>1, <2>2 DEF Kept, Settled, Outcome, Verdict
  <2>4. requester'[c.ticket] = requester[c.ticket]
    BY <2>2 DEF Kept, Settled
  <2>5. c.decision \in Verdict /\ requester'[c.ticket] # c.principal
    BY <1>1, <2>4 DEF MayDecide
  <2>6. QED
    BY <1>1, <2>3, <2>5 DEF MayDecide
<1>2. ASSUME NEW c \in Call, call'[s] = c, SignatureAccepted(c), Entitled(c)
      PROVE  SignatureAccepted(call'[s]) /\ Entitled(call[s])'
  BY <1>2, DelegationFlow DEF SignatureAccepted, Entitled
<1>3. CASE pc'[s] = pc[s] /\ call'[s] = call[s]
  <2>1. call[s] \in Call /\ Past(call[s])
    BY <1>3 DEF Vetted, TypeOK, Deciding
  <2>2. pc[s] # "delegation" => SignatureAccepted(call[s]) /\ Entitled(call[s])
    BY <1>3 DEF Vetted
  <2>3. QED
    BY <1>1, <1>2, <1>3, <2>1, <2>2
<1>4. ASSUME NEW c \in Call, Submit(s, c)
      PROVE  /\ call'[s] = c /\ Past(c)
             /\ pc'[s] # "delegation" => SignatureAccepted(c) /\ Entitled(c)
  <2>1. call'[s] = c
    BY <1>4 DEF Submit, TypeOK
  <2>2. \A label \in Control : Goto(s, label) => pc'[s] = label
    BY GotoFacts
  <2>3. state[c.ticket] = "PENDING" /\ MayDecide(c)
    BY <1>4, <2>2, Labels DEF Submit, Deciding, MayDecide
  <2>4. \/ pc'[s] = "delegation"
        \/ SignatureAccepted(c) /\ (c.ticket \notin Restricted \/ c.principal \in Holders)
    BY <1>4, <2>2, <2>3, Labels DEF Submit, Deciding, Outcome
  <2>5. QED
    BY <2>1, <2>3, <2>4 DEF Entitled
<1>5. ASSUME CheckDelegation(s) \/ ReadPending(s) \/ CommitDecision(s)
      PROVE  /\ call'[s] = call[s] /\ call[s] \in Call /\ Full(call[s])
  <2>1. call'[s] = call[s] /\ call[s] \in Call /\ Past(call[s])
    BY <1>5 DEF CheckDelegation, ReadPending, CommitDecision, TypeOK, Vetted, Deciding
  <2>2. CASE CheckDelegation(s)
    <3>1. \A label \in Control : Goto(s, label) => pc'[s] = label
      BY GotoFacts
    <3>2. SignatureAccepted(call[s])
          /\ \E d \in delegations : d.to = call[s].principal
      BY <2>2, <3>1, Labels DEF CheckDelegation, Deciding
    <3>3. QED
      BY <2>1, <3>2 DEF Entitled
  <2>3. QED
    BY <1>5, <2>1, <2>2 DEF ReadPending, CommitDecision, Vetted, Deciding
<1>6. ASSUME Decide(s) PROVE (\E c \in Call : Submit(s, c)) \/ CheckDelegation(s)
                             \/ ReadPending(s) \/ CommitDecision(s)
  <2>1. ~PublishDecision(s)
    BY GotoFacts, Labels DEF PublishDecision, Deciding
  <2>2. QED
    BY <1>6, <2>1 DEF Decide
<1>7. ASSUME NEW r \in Submission, r # s, Decide(r)
      PROVE pc'[s] = pc[s] /\ call'[s] = call[s]
  BY <1>7 DEF Decide, Submit, CheckDelegation, ReadPending, CommitDecision,
              PublishDecision, Goto, TypeOK
<1>8. ASSUME Create \/ Fail \/ UNCHANGED vars \/ \E w \in Sweeper : SweepStep(w)
      PROVE pc'[s] = pc[s] /\ call'[s] = call[s]
  <2>1. CASE Fail
    BY <2>1 DEF Fail, SubmissionFails, SweepFails, Crash, Goto, TypeOK, Deciding
  <2>2. QED
    BY <1>8, <2>1
    DEF Create, CreateRequest, DeadlinePasses, Delegate, DelegationEnds, vars,
        SweepStep, StartSweep, Expire, PublishExpiry, EndSweep
<1>9. QED
  BY <1>1, <1>2, <1>3, <1>4, <1>5, <1>6, <1>7, <1>8 DEF Next

LEMMA BaseInvariant == Spec => [](TypeOK /\ Vetted /\ RightfulDelegations)
<1>1. Init => TypeOK /\ Vetted /\ RightfulDelegations
  BY DEF Init, TypeOK, Vetted, RightfulDelegations, TicketState, Control,
         Deciding, Sweep, Asleep
<1>2. QED
  BY <1>1, TypeStep, VettedStep, DelegationFlow, PTL DEF Spec

(* Type correctness of the tables, the bus and every coroutine.            *)
THEOREM TypeCorrect == Spec => []TypeOK
BY BaseInvariant, PTL

-----------------------------------------------------------------------------
(* The outbox of a ticket holds its creation and its one outcome.          *)
LEMMA OutboxStep == TypeOK /\ OutboxTellsStory /\ [Next]_vars => OutboxTellsStory'
<1> SUFFICES ASSUME TypeOK, OutboxTellsStory, [Next]_vars, NEW t \in Ticket
             PROVE  (outbox[t] = CASE state[t] = "ABSENT" -> <<>>
                                   [] state[t] = "PENDING" -> <<"created">>
                                   [] OTHER -> <<"created", state[t]>>)'
  BY DEF OutboxTellsStory
<1>1. CASE Kept(t)
  BY <1>1 DEF Kept, OutboxTellsStory
<1>2. CASE Opened(t)
  BY <1>2, Appending DEF Opened, OutboxTellsStory
<1>3. CASE Settled(t)
  <2>1. outbox[t] = <<"created">>
    BY <1>3 DEF Settled, OutboxTellsStory
  <2>2. outbox'[t] = <<"created", state'[t]>>
    BY <1>3, <2>1, Appending DEF Settled
  <2>3. QED
    BY <1>3, <2>2 DEF Settled, Outcome, Verdict
<1>4. QED
  BY <1>1, <1>2, <1>3, TicketFlow

(* Whatever races, retries, cancels or crashes, no outcome is staged twice *)
(* and none is missing: the outbox row commits with the ticket's state.    *)
THEOREM OutboxComplete == Spec => []OutboxTellsStory
<1>1. Init => OutboxTellsStory
  BY DEF Init, OutboxTellsStory
<1>2. QED
  BY <1>1, OutboxStep, BaseInvariant, PTL DEF Spec

-----------------------------------------------------------------------------
(* A decision row is only ever added, by the commit that settles its ticket. *)
Row(c) == [ticket |-> c.ticket, approver |-> c.principal,
           decision |-> c.decision, signature |-> c.signature]

Recorded(s) == /\ call[s] \in Call /\ call[s].decision \in Verdict
               /\ pc[s] = "swap"
               /\ state[call[s].ticket] = "PENDING"
               /\ state' = [state EXCEPT ![call[s].ticket] = call[s].decision]
               /\ decisions' = decisions \cup {Row(call[s])}
Unrecorded == /\ decisions' = decisions
              /\ \A t \in Ticket : state'[t] \in Verdict => state[t] = state'[t]

LEMMA DecisionFlow ==
  ASSUME TypeOK, Vetted, [Next]_vars
  PROVE  Unrecorded \/ \E s \in Submission : Recorded(s)
<1> USE DEF Unrecorded
<1>1. ASSUME NEW s \in Submission, CommitDecision(s)
      PROVE  Unrecorded \/ Recorded(s)
  <2>1. call[s] \in Call /\ call[s].decision \in Verdict
    BY <1>1 DEF CommitDecision, TypeOK, Vetted, Deciding, MayDecide
  <2>2. QED
    BY <1>1, <2>1 DEF CommitDecision, StillPending, Recorded, Row
<1>2. ASSUME decisions' = decisions, state' = state PROVE Unrecorded
  BY <1>2
<1>3. ASSUME NEW s \in Submission, Decide(s) PROVE Unrecorded \/ Recorded(s)
  BY <1>1, <1>2, <1>3
  DEF Decide, Submit, CheckDelegation, ReadPending, PublishDecision, tickets
<1>4. ASSUME NEW t \in Ticket, NEW p \in Principal \cup {NoPrincipal},
             CreateRequest(t, p)
      PROVE Unrecorded
  BY <1>4 DEF CreateRequest, TypeOK, Verdict
<1>5. ASSUME NEW w \in Sweeper, NEW t \in Ticket, Expire(w, t) PROVE Unrecorded
  BY <1>5 DEF Expire, TypeOK, Verdict
<1>6. ASSUME NEW w \in Sweeper, SweepStep(w) PROVE Unrecorded
  BY <1>2, <1>5, <1>6 DEF SweepStep, StartSweep, PublishExpiry, EndSweep, tickets
<1>7. ASSUME Create PROVE Unrecorded
  BY <1>2, <1>4, <1>7 DEF Create, DeadlinePasses, Delegate, DelegationEnds, tickets
<1>8. ASSUME Fail \/ UNCHANGED vars PROVE Unrecorded
  BY <1>2, <1>8 DEF Fail, SubmissionFails, SweepFails, Crash, vars, tickets
<1>9. QED
  BY <1>3, <1>6, <1>7, <1>8 DEF Next

LEMMA DecisionStep ==
  TypeOK /\ Vetted /\ DecisionMatchesTicket /\ [Next]_vars => DecisionMatchesTicket'
<1> SUFFICES ASSUME TypeOK, Vetted, DecisionMatchesTicket, [Next]_vars
             PROVE  DecisionMatchesTicket'
  OBVIOUS
<1>1. \A d \in decisions : d.ticket \in Ticket /\ d.decision \in Verdict
  BY DEF TypeOK, Decision
<1>2. ASSUME NEW t \in Ticket, state[t] \in Verdict PROVE state'[t] = state[t]
  BY <1>2, TicketFlow DEF Kept, Opened, Settled, Verdict
<1>3. \A d \in decisions : state'[d.ticket] = d.decision
  BY <1>1, <1>2 DEF DecisionMatchesTicket
<1>4. CASE Unrecorded
  BY <1>3, <1>4 DEF Unrecorded, DecisionMatchesTicket
<1>5. ASSUME NEW s \in Submission, Recorded(s) PROVE DecisionMatchesTicket'
  <2> DEFINE new == Row(call[s])
             t0 == call[s].ticket
  <2>1. t0 \in Ticket /\ new.ticket = t0 /\ new.decision = call[s].decision
    BY <1>5 DEF Recorded, Row, Call
  <2>2. \A d \in decisions : d.ticket # t0
    BY <1>1, <1>5 DEF Recorded, DecisionMatchesTicket, Verdict
  <2>3. decisions' = decisions \cup {new} /\ state'[t0] = new.decision
    BY <1>5, <2>1 DEF Recorded, TypeOK
  <2>4. \A d, e \in decisions' : d.ticket = e.ticket => d = e
    BY <2>1, <2>2, <2>3 DEF DecisionMatchesTicket
  <2>5. \A d \in decisions' : state'[d.ticket] = d.decision
    BY <1>3, <2>1, <2>3
  <2>6. \A t \in Ticket : t # t0 => state'[t] = state[t]
    BY <1>5 DEF Recorded, TypeOK
  <2>7. \A t \in Ticket : state'[t] \in Verdict => \E d \in decisions' : d.ticket = t
    BY <2>1, <2>3, <2>6 DEF DecisionMatchesTicket
  <2>8. QED
    BY <2>4, <2>5, <2>7 DEF DecisionMatchesTicket
<1>6. QED
  BY <1>4, <1>5, DecisionFlow

(* The verdict on a ticket and its decision row exist together, one each.  *)
THEOREM OneDecision == Spec => []DecisionMatchesTicket
<1>1. Init => DecisionMatchesTicket
  BY DEF Init, DecisionMatchesTicket, Verdict
<1>2. QED
  BY <1>1, DecisionStep, BaseInvariant, PTL DEF Spec

(* Ticket, decision row and outbox tell the same of every ticket.          *)
THEOREM RecordsAgreeAlways == Spec => []RecordsAgree
BY OneDecision, OutboxComplete, PTL DEF RecordsAgree

(* The approver of every decision row was entitled to decide.              *)
LEMMA AuthorityStep ==
  TypeOK /\ Vetted /\ RightfulDelegations /\ DecisionMatchesTicket
    /\ AuthorityTraced /\ [Next]_vars => AuthorityTraced'
<1> SUFFICES ASSUME TypeOK, Vetted, RightfulDelegations, DecisionMatchesTicket,
                    AuthorityTraced, [Next]_vars, NEW d \in decisions'
             PROVE (/\ d.approver # requester[d.ticket]
                    /\ d.ticket \in Restricted /\ d.approver \notin Holders =>
                         \E g \in delegations : g.to = d.approver
                                               /\ g.by \in Holders \cup Admins
                    /\ d.signature \in IF d.ticket \in Signed THEN {"valid"}
                                       ELSE {"none", "valid"})'
  BY DEF AuthorityTraced
<1>1. delegations \subseteq delegations'
  BY DelegationFlow
<1>2. ASSUME NEW t \in Ticket, state[t] # "ABSENT"
      PROVE requester'[t] = requester[t]
  BY <1>2, TicketFlow DEF Kept, Opened, Settled
<1>3. CASE d \in decisions
  <2>1. d.ticket \in Ticket /\ state[d.ticket] # "ABSENT"
    BY <1>3 DEF TypeOK, Decision, DecisionMatchesTicket, Verdict
  <2>2. QED
    BY <1>1, <1>2, <1>3, <2>1 DEF AuthorityTraced
<1>4. ASSUME NEW s \in Submission, Recorded(s), d = Row(call[s])
      PROVE (/\ d.approver # requester[d.ticket]
             /\ d.ticket \in Restricted /\ d.approver \notin Holders =>
                  \E g \in delegations : g.to = d.approver
                                        /\ g.by \in Holders \cup Admins
             /\ d.signature \in IF d.ticket \in Signed THEN {"valid"}
                                ELSE {"none", "valid"})'
  <2>1. /\ call[s] \in Call /\ state[call[s].ticket] = "PENDING"
        /\ MayDecide(call[s]) /\ SignatureAccepted(call[s]) /\ Entitled(call[s])
    BY <1>4 DEF Recorded, Vetted, Deciding
  <2>2. /\ d.ticket = call[s].ticket /\ d.approver = call[s].principal
        /\ d.signature = call[s].signature
    BY <1>4 DEF Row
  <2>3. d.approver # requester'[d.ticket]
    BY <1>2, <2>1, <2>2 DEF MayDecide, Call
  <2>4. d.ticket \in Restricted /\ d.approver \notin Holders =>
          \E g \in delegations' : g.to = d.approver /\ g.by \in Holders \cup Admins
    BY <1>1, <2>1, <2>2 DEF Entitled, RightfulDelegations
  <2>5. d.signature \in IF d.ticket \in Signed THEN {"valid"} ELSE {"none", "valid"}
    BY <2>1, <2>2 DEF SignatureAccepted, Call, Signature
  <2>6. QED
    BY <2>3, <2>4, <2>5
<1>5. QED
  BY <1>3, <1>4, DecisionFlow DEF Unrecorded, Recorded

(* No decision is ever recorded that its approver was not entitled to take *)
(* when it was vetted, and none by the ticket's own requester.             *)
THEOREM Authority == Spec => []AuthorityTraced
<1>1. Init => AuthorityTraced
  BY DEF Init, AuthorityTraced
<1>2. QED
  BY <1>1, AuthorityStep, OneDecision, BaseInvariant, PTL DEF Spec

-----------------------------------------------------------------------------
(* Whoever is about to announce a ticket is about to say what it is.       *)
Truthful ==
  /\ \A s \in Submission : pc[s] = "committed" =>
       state[call[s].ticket] = call[s].decision
  /\ \A w \in Sweeper : sweep[w].at = "announcing" =>
       sweep[w].ticket \in Ticket /\ state[sweep[w].ticket] = "EXPIRED"

(* What a step does to the announcers of a ticket: it may remove some; it  *)
(* may add the one that settles the ticket; or one announces and is gone.  *)
Fewer(t) == Announcers(t)' \subseteq Announcers(t) /\ heard'[t] = heard[t]
Elected(t) == /\ state[t] = "PENDING" /\ heard'[t] = heard[t]
              /\ \E x : Announcers(t)' \subseteq Announcers(t) \cup {x}
Told(t) == \E a \in Announcers(t) :
             /\ Announcers(t)' \subseteq Announcers(t) \ {a}
             /\ heard'[t] = Append(heard[t], state[t])

LEMMA SettledStays ==
  ASSUME TypeOK, [Next]_vars, NEW t \in Ticket, state[t] \in Outcome
  PROVE  state'[t] = state[t]
BY TicketFlow DEF Kept, Opened, Settled, Outcome, Verdict

LEMMA TruthfulStep == TypeOK /\ Vetted /\ Truthful /\ [Next]_vars => Truthful'
<1> SUFFICES ASSUME TypeOK, Vetted, Truthful, [Next]_vars PROVE Truthful'
  OBVIOUS
<1>1. ASSUME NEW s \in Submission, pc'[s] = "committed"
      PROVE state'[call'[s].ticket] = call'[s].decision
  <2>1. CASE pc[s] = "committed" /\ call'[s] = call[s]
    <3>1. /\ call[s].ticket \in Ticket /\ state[call[s].ticket] = call[s].decision
          /\ call[s].decision \in Outcome
      BY <2>1 DEF TypeOK, Call, Truthful
    <3>2. QED
      BY <2>1, <3>1, SettledStays
  <2>2. CASE CommitDecision(s)
    <3>1. call[s] \in Call
      BY <2>2 DEF CommitDecision, TypeOK
    <3>2. \A label \in Control : Goto(s, label) => pc'[s] = label
      BY GotoFacts
    <3>3. call' = call /\ state' = [state EXCEPT ![call[s].ticket] = call[s].decision]
      BY <1>1, <2>2, <3>2, Labels DEF CommitDecision
    <3>4. QED
      BY <3>1, <3>3 DEF TypeOK, Call
  <2>3. ASSUME Decide(s) PROVE CommitDecision(s)
    BY <1>1, <2>3, GotoFacts, Labels
    DEF Decide, Submit, CheckDelegation, ReadPending, PublishDecision, Deciding
  <2>4. ASSUME NEW r \in Submission, r # s, Decide(r)
        PROVE pc'[s] = pc[s] /\ call'[s] = call[s]
    BY <2>4 DEF Decide, Submit, CheckDelegation, ReadPending, CommitDecision,
                PublishDecision, Goto, TypeOK
  <2>5. ASSUME Create \/ Fail \/ UNCHANGED vars \/ \E w \in Sweeper : SweepStep(w)
        PROVE pc[s] = "committed" /\ call'[s] = call[s]
    <3>1. CASE Fail
      BY <1>1, <3>1 DEF Fail, SubmissionFails, SweepFails, Crash, Goto, TypeOK, Deciding
    <3>2. QED
      BY <1>1, <2>5, <3>1
      DEF Create, CreateRequest, DeadlinePasses, Delegate, DelegationEnds, vars,
          SweepStep, StartSweep, Expire, PublishExpiry, EndSweep
  <2>6. QED
    BY <1>1, <2>1, <2>2, <2>3, <2>4, <2>5 DEF Next
<1>2. ASSUME NEW w \in Sweeper, sweep'[w].at = "announcing"
      PROVE sweep'[w].ticket \in Ticket /\ state'[sweep'[w].ticket] = "EXPIRED"
  <2>1. CASE sweep'[w] = sweep[w]
    BY <1>2, <2>1, SettledStays DEF Truthful, Outcome
  <2>2. ASSUME NEW t \in Ticket, Expire(w, t)
        PROVE sweep'[w].ticket = t /\ state'[t] = "EXPIRED"
    <3>1. CASE state[t] = "PENDING"
      BY <2>2, <3>1 DEF Expire, TypeOK
    <3>2. CASE state[t] # "PENDING"
      <4>1. sweep'[w] = [sweep[w] EXCEPT !.todo = @ \ {t}]
        BY <2>2, <3>2 DEF Expire, TypeOK
      <4>2. sweep'[w].at = sweep[w].at
        BY <4>1 DEF TypeOK, Sweep
      <4>3. QED
        BY <1>2, <2>2, <4>2 DEF Expire
    <3>3. QED
      BY <3>1, <3>2
  <2>3. ASSUME SweepStep(w) PROVE \E t \in Ticket : Expire(w, t)
    <3>1. ~StartSweep(w)
      BY <1>2 DEF StartSweep, TypeOK
    <3>2. ~PublishExpiry(w)
      BY <1>2 DEF PublishExpiry, TypeOK, Sweep
    <3>3. ~EndSweep(w)
      BY <1>2 DEF EndSweep, TypeOK, Asleep
    <3>4. QED
      BY <2>3, <3>1, <3>2, <3>3 DEF SweepStep
  <2>4. ASSUME NEW v \in Sweeper, v # w, SweepStep(v) PROVE sweep'[w] = sweep[w]
    BY <2>4 DEF SweepStep, StartSweep, Expire, PublishExpiry, EndSweep, TypeOK
  <2>5. ASSUME Fail PROVE sweep'[w] = sweep[w]
    BY <1>2, <2>5 DEF Fail, SubmissionFails, SweepFails, Crash, Asleep, TypeOK
  <2>6. ASSUME Create \/ UNCHANGED vars \/ \E s \in Submission : Decide(s)
        PROVE sweep'[w] = sweep[w]
    BY <2>6 DEF Create, CreateRequest, DeadlinePasses, Delegate, DelegationEnds,
         vars, Decide, Submit, CheckDelegation, ReadPending, CommitDecision,
         PublishDecision
  <2>7. QED
    BY <2>1, <2>2, <2>3, <2>4, <2>5, <2>6 DEF Next
<1>3. QED
  BY <1>1, <1>2 DEF Truthful

LEMMA AnnouncerFlow ==
  ASSUME TypeOK, Vetted, Truthful, [Next]_vars, NEW t \in Ticket
  PROVE  Fewer(t) \/ Elected(t) \/ Told(t)
<1> DEFINE Sub(s) == pc[s] = "committed" /\ call[s].ticket = t
           Swp(w) == sweep[w].at = "announcing" /\ sweep[w].ticket = t
<1> USE ApprovalAssumption
<1>1. ASSUME heard' = heard,
             \A s \in Submission : Sub(s)' => Sub(s),
             \A w \in Sweeper : Swp(w)' => Swp(w)
      PROVE Fewer(t)
  BY <1>1 DEF Fewer, Announcers
<1>2. ASSUME NEW s \in Submission, Decide(s) PROVE Fewer(t) \/ Elected(t) \/ Told(t)
  <2>1. sweep' = sweep /\ \A r \in Submission : r # s => pc'[r] = pc[r] /\ call'[r] = call[r]
    BY <1>2 DEF Decide, Submit, CheckDelegation, ReadPending, CommitDecision,
                PublishDecision, Goto, TypeOK
  <2>2. \A label \in Control : Goto(s, label) => pc'[s] = label
    BY GotoFacts
  <2>3. CASE PublishDecision(s)
    <3>1. call[s] \in Call /\ state[call[s].ticket] = call[s].decision
          /\ pc'[s] = "returned" /\ call' = call
      BY <2>2, <2>3, Labels DEF PublishDecision, TypeOK, Truthful
    <3>2. CASE call[s].ticket = t
      <4>1. s \in Announcers(t) /\ Announcers(t)' \subseteq Announcers(t) \ {s}
        BY <2>1, <2>3, <3>1, <3>2 DEF Announcers, PublishDecision
      <4>2. heard'[t] = Append(heard[t], state[t])
        BY <2>3, <3>1, <3>2 DEF PublishDecision, Publish, TypeOK
      <4>3. QED
        BY <4>1, <4>2 DEF Told
    <3>3. CASE call[s].ticket # t
      <4>1. heard'[t] = heard[t]
        BY <2>3, <3>3 DEF PublishDecision, Publish, TypeOK
      <4>2. QED
        BY <2>1, <3>1, <3>3, <4>1 DEF Fewer, Announcers
    <3>4. QED
      BY <3>2, <3>3
  <2>4. CASE CommitDecision(s)
    <3>1. heard' = heard /\ call' = call
      BY <2>4 DEF CommitDecision
    <3>2. CASE state[call[s].ticket] = "PENDING" /\ call[s].ticket = t
      <4>1. Announcers(t)' \subseteq Announcers(t) \cup {s}
        BY <2>1, <3>1 DEF Announcers
      <4>2. QED
        BY <3>1, <3>2, <4>1 DEF Elected
    <3>3. CASE ~(state[call[s].ticket] = "PENDING" /\ call[s].ticket = t)
      <4>1. ~Sub(s)'
        BY <2>2, <2>4, <3>1, <3>3, Labels DEF CommitDecision, StillPending
      <4>2. QED
        BY <1>1, <2>1, <3>1, <4>1
    <3>4. QED
      BY <3>2, <3>3
  <2>5. ASSUME ~PublishDecision(s), ~CommitDecision(s) PROVE Fewer(t)
    <3>1. pc'[s] # "committed" /\ heard' = heard
      BY <1>2, <2>2, <2>5, Labels
      DEF Decide, Submit, CheckDelegation, ReadPending, Deciding
    <3>2. QED
      BY <1>1, <2>1, <3>1
  <2>6. QED
    BY <2>3, <2>4, <2>5
<1>3. ASSUME NEW w \in Sweeper, SweepStep(w) PROVE Fewer(t) \/ Elected(t) \/ Told(t)
  <2>1. pc' = pc /\ call' = call /\ \A v \in Sweeper : v # w => sweep'[v] = sweep[v]
    BY <1>3 DEF SweepStep, StartSweep, Expire, PublishExpiry, EndSweep, TypeOK
  <2>2. CASE PublishExpiry(w)
    <3>1. state[sweep[w].ticket] = "EXPIRED" /\ sweep'[w].at = "expiring"
      BY <2>2 DEF PublishExpiry, Truthful, TypeOK, Sweep
    <3>2. CASE sweep[w].ticket = t
      <4>1. w \in Announcers(t) /\ Announcers(t)' \subseteq Announcers(t) \ {w}
        BY <2>1, <2>2, <3>1, <3>2 DEF Announcers, PublishExpiry
      <4>2. heard'[t] = Append(heard[t], state[t])
        BY <2>2, <3>1, <3>2 DEF PublishExpiry, Publish, TypeOK
      <4>3. QED
        BY <4>1, <4>2 DEF Told
    <3>3. CASE sweep[w].ticket # t
      <4>1. heard'[t] = heard[t]
        BY <2>2, <3>3 DEF PublishExpiry, Publish, TypeOK
      <4>2. QED
        BY <2>1, <3>1, <3>3, <4>1 DEF Fewer, Announcers
    <3>4. QED
      BY <3>2, <3>3
  <2>3. ASSUME NEW u \in Ticket, Expire(w, u) PROVE Fewer(t) \/ Elected(t)
    <3>1. heard' = heard
      BY <2>3 DEF Expire
    <3>2. CASE state[u] = "PENDING"
      <4>1. sweep'[w].ticket = u
        BY <2>3, <3>2 DEF Expire, TypeOK
      <4>2. CASE u = t
        BY <2>1, <3>1, <3>2, <4>2 DEF Elected, Announcers
      <4>3. CASE u # t
        BY <1>1, <2>1, <3>1, <4>1, <4>3
      <4>4. QED
        BY <4>2, <4>3
    <3>3. CASE state[u] # "PENDING"
      <4>1. sweep'[w] = [sweep[w] EXCEPT !.todo = @ \ {u}]
        BY <2>3, <3>3 DEF Expire, TypeOK
      <4>2. sweep'[w].at = sweep[w].at
        BY <4>1 DEF TypeOK, Sweep
      <4>3. sweep'[w].at # "announcing"
        BY <2>3, <4>2 DEF Expire
      <4>4. QED
        BY <1>1, <2>1, <3>1, <4>3
    <3>4. QED
      BY <3>2, <3>3
  <2>4. ASSUME StartSweep(w) \/ EndSweep(w) PROVE Fewer(t)
    <3>1. heard' = heard
      BY <2>4 DEF StartSweep, EndSweep
    <3>2. sweep'[w].at # "announcing"
      BY <2>4 DEF StartSweep, EndSweep, Asleep, TypeOK
    <3>3. QED
      BY <1>1, <2>1, <3>1, <3>2
  <2>5. QED
    BY <1>3, <2>2, <2>3, <2>4 DEF SweepStep
<1>4. ASSUME Fail PROVE Fewer(t)
  <2>1. heard' = heard /\ call' = call
    BY <1>4 DEF Fail, SubmissionFails, SweepFails, Crash
  <2>2. \A s \in Submission : pc'[s] = pc[s] \/ pc'[s] = "raised"
    BY <1>4 DEF Fail, SubmissionFails, SweepFails, Crash, Goto, TypeOK
  <2>3. \A w \in Sweeper : sweep'[w] = sweep[w] \/ sweep'[w].at = "asleep"
    BY <1>4 DEF Fail, SubmissionFails, SweepFails, Crash, Asleep, TypeOK
  <2>4. QED
    BY <1>1, <2>1, <2>2, <2>3
<1>5. ASSUME Create \/ UNCHANGED vars PROVE Fewer(t)
  BY <1>1, <1>5
  DEF Create, CreateRequest, DeadlinePasses, Delegate, DelegationEnds, vars
<1>6. QED
  BY <1>2, <1>3, <1>4, <1>5 DEF Next

LEMMA AnnounceStep ==
  TypeOK /\ Vetted /\ Truthful /\ AnnouncedOnce /\ [Next]_vars => AnnouncedOnce'
<1> SUFFICES ASSUME TypeOK, Vetted, Truthful, AnnouncedOnce, [Next]_vars,
                    NEW t \in Ticket
             PROVE (/\ \A a, b \in Announcers(t) : a = b
                    /\ heard[t] # <<>> => Announcers(t) = {}
                    /\ heard[t] \in {<<>>, <<state[t]>>})'
  BY DEF AnnouncedOnce
<1>1. Announcers(t) # {} => state[t] \in Outcome
  BY DEF Announcers, Truthful, TypeOK, Outcome, Vetted, MayDecide
<1>2. heard[t] # <<>> => state[t] \in Outcome
  <2>1. heard[t] \in Seq(Outcome)
    BY DEF TypeOK
  <2>2. heard[t] = <<state[t]>> => heard[t][1] \in Outcome
    BY <2>1, Appending, ElementOfSeq
  <2>3. QED
    BY <2>2, Appending DEF AnnouncedOnce
<1>3. CASE Fewer(t)
  <2>1. heard[t] # <<>> => state'[t] = state[t]
    BY <1>2, SettledStays
  <2>2. QED
    BY <1>3, <2>1 DEF Fewer, AnnouncedOnce
<1>4. CASE Elected(t)
  BY <1>1, <1>2, <1>4 DEF Elected, AnnouncedOnce, Outcome, Verdict
<1>5. CASE Told(t)
  <2>1. PICK a \in Announcers(t) :
          /\ Announcers(t)' \subseteq Announcers(t) \ {a}
          /\ heard'[t] = Append(heard[t], state[t])
    BY <1>5 DEF Told
  <2>2. Announcers(t)' = {} /\ heard[t] = <<>>
    BY <2>1 DEF AnnouncedOnce
  <2>3. heard'[t] = <<state'[t]>>
    BY <1>1, <2>1, <2>2, SettledStays, Appending
  <2>4. QED
    BY <2>2, <2>3
<1>6. QED
  BY <1>3, <1>4, <1>5, AnnouncerFlow

LEMMA AnnounceInvariant ==
  Spec => [](TypeOK /\ Vetted /\ Truthful /\ AnnouncedOnce)
<1>1. Init => Truthful /\ AnnouncedOnce
  BY DEF Init, Truthful, AnnouncedOnce, Announcers, Asleep
<1>2. QED
  BY <1>1, TruthfulStep, AnnounceStep, BaseInvariant, PTL DEF Spec

(* One of all the submissions and sweepers that raced for a ticket         *)
(* announces it, at most once, and with the outcome the ticket has.        *)
THEOREM OneAnnouncement == Spec => []AnnouncedOnce
BY AnnounceInvariant, PTL

-----------------------------------------------------------------------------
(* The refinement of TicketOutcome.                                        *)
AbstractOutcome == [t \in Ticket |->
  IF state[t] = "ABSENT" THEN "PENDING" ELSE state[t]]
AbstractTold == [t \in Ticket |->
  IF heard[t] = <<>> THEN "PENDING" ELSE heard[t][Len(heard[t])]]

(* One step changes the state of one ticket or announces one ticket.       *)
Writes(t) == heard' = heard /\ \A u \in Ticket : u # t => state'[u] = state[u]
Announces(t) == /\ state' = state /\ heard'[t] # heard[t]
                /\ \A u \in Ticket : u # t => heard'[u] = heard[u]

LEMMA OneTicket ==
  ASSUME TypeOK, Vetted, Truthful, [Next]_vars
  PROVE  \/ state' = state /\ heard' = heard
         \/ \E t \in Ticket : Writes(t) \/ Announces(t)
<1> DEFINE Goal == \/ state' = state /\ heard' = heard
                   \/ \E t \in Ticket : Writes(t) \/ Announces(t)
<1>1. ASSUME NEW t \in Ticket, NEW o \in Outcome, Publish(t, o), state' = state
      PROVE Announces(t)
  <2>1. heard[t] \in Seq(Outcome) /\ heard'[t] = Append(heard[t], o)
    BY <1>1 DEF TypeOK, Publish
  <2>2. Len(heard'[t]) = Len(heard[t]) + 1 /\ Len(heard[t]) \in Nat
    BY <2>1, AppendProperties, LenProperties
  <2>3. QED
    BY <1>1, <2>2 DEF Announces, Publish, TypeOK
<1>2. ASSUME NEW s \in Submission, Decide(s) PROVE Goal
  <2>1. CASE PublishDecision(s)
    <3>1. call[s].ticket \in Ticket /\ call[s].decision \in Outcome
      BY <2>1 DEF PublishDecision, TypeOK, Call
    <3>2. QED
      BY <1>1, <2>1, <3>1 DEF PublishDecision, tickets
  <2>2. CASE CommitDecision(s)
    <3>1. call[s].ticket \in Ticket
      BY <2>2 DEF CommitDecision, TypeOK, Call
    <3>2. QED
      BY <2>2, <3>1 DEF CommitDecision, Writes, TypeOK
  <2>3. QED
    BY <1>2, <2>1, <2>2
    DEF Decide, Submit, CheckDelegation, ReadPending, tickets
<1>3. ASSUME NEW w \in Sweeper, SweepStep(w) PROVE Goal
  <2>1. CASE PublishExpiry(w)
    BY <1>1, <2>1 DEF PublishExpiry, Truthful, tickets, Outcome
  <2>2. ASSUME NEW t \in Ticket, Expire(w, t) PROVE Goal
    BY <2>2 DEF Expire, Writes, TypeOK
  <2>3. QED
    BY <1>3, <2>1, <2>2 DEF SweepStep, StartSweep, EndSweep, tickets
<1>4. ASSUME NEW t \in Ticket, NEW p \in Principal \cup {NoPrincipal},
             CreateRequest(t, p)
      PROVE Goal
  BY <1>4 DEF CreateRequest, Writes, TypeOK
<1>5. CASE Create
  BY <1>4, <1>5 DEF Create, DeadlinePasses, Delegate, DelegationEnds, tickets
<1>6. CASE Fail \/ UNCHANGED vars
  BY <1>6 DEF Fail, SubmissionFails, SweepFails, Crash, vars, tickets
<1>7. QED
  BY <1>2, <1>3, <1>5, <1>6 DEF Next

LEMMA StepRefines ==
  TypeOK /\ Vetted /\ Truthful /\ AnnouncedOnce /\ [Next]_vars
    => [Promise!ANext]_<<AbstractOutcome, AbstractTold>>
<1> SUFFICES ASSUME TypeOK, Vetted, Truthful, AnnouncedOnce, [Next]_vars
             PROVE  \/ UNCHANGED <<AbstractOutcome, AbstractTold>>
                    \/ \E t \in Ticket : Promise!Settle(t) \/ Promise!Announce(t)
  BY DEF Promise!ANext
<1>1. CASE state' = state /\ heard' = heard
  BY <1>1 DEF AbstractOutcome, AbstractTold
<1>2. ASSUME NEW t \in Ticket, Writes(t)
      PROVE UNCHANGED <<AbstractOutcome, AbstractTold>> \/ Promise!Settle(t)
  <2>1. AbstractTold' = AbstractTold
    BY <1>2 DEF Writes, AbstractTold
  <2>2. CASE Kept(t) \/ Opened(t)
    BY <1>2, <2>1, <2>2 DEF Writes, Kept, Opened, AbstractOutcome
  <2>3. CASE Settled(t)
    <3>1. AbstractOutcome' = [AbstractOutcome EXCEPT ![t] = state'[t]]
      BY <1>2, <2>3 DEF Writes, Settled, AbstractOutcome, Outcome, Verdict
    <3>2. AbstractOutcome[t] = "PENDING" /\ state'[t] \in Outcome
      BY <2>3 DEF Settled, AbstractOutcome
    <3>3. QED
      BY <2>1, <3>1, <3>2 DEF Promise!Settle, AbstractOutcome, AbstractTold
  <2>4. QED
    BY <2>2, <2>3, TicketFlow
<1>3. ASSUME NEW t \in Ticket, Announces(t) PROVE Promise!Announce(t)
  <2>1. PICK a \in Announcers(t) : heard'[t] = Append(heard[t], state[t])
    BY <1>3, AnnouncerFlow DEF Announces, Fewer, Elected, Told
  <2>2. heard[t] = <<>> /\ state[t] \in Outcome
    BY <2>1, SMTT(30) DEF AnnouncedOnce, Announcers, Truthful, TypeOK, Call, Outcome
  <2>3. heard'[t] = <<state[t]>>
    BY <2>1, <2>2, Appending
  <2>4. AbstractTold[t] = "PENDING" /\ AbstractOutcome[t] = state[t]
        /\ AbstractOutcome' = AbstractOutcome
    BY <1>3, <2>2 DEF Announces, AbstractTold, AbstractOutcome, Outcome, Verdict
  <2>5. AbstractTold'[t] = state[t]
    BY <2>3, Appending DEF AbstractTold
  <2>6. AbstractTold' = [AbstractTold EXCEPT ![t] = state[t]]
    BY <1>3, <2>5 DEF Announces, AbstractTold
  <2>7. QED
    BY <2>2, <2>4, <2>6
    DEF Promise!Announce, AbstractOutcome, AbstractTold, Outcome, Verdict
<1>4. QED
  BY <1>1, <1>2, <1>3, OneTicket

(* The approval manager implements TicketOutcome.                          *)
THEOREM ImplementsOutcome == Spec => PromiseKept
<1>1. Init => Promise!AInit
  BY DEF Init, Promise!AInit
<1>2. TypeOK /\ Vetted /\ Truthful /\ AnnouncedOnce /\ [Next]_vars
        => [Promise!ANext]_<<AbstractOutcome, AbstractTold>>
  BY StepRefines
<1>3. QED
  BY <1>1, <1>2, AnnounceInvariant, PTL
  DEF Spec, PromiseKept, Promise!ASpec, AbstractOutcome, AbstractTold
=============================================================================
