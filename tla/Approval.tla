------------------------------ MODULE Approval ------------------------------
(***************************************************************************)
(* Durable approval tickets of one tenant: DurableApprovalManager          *)
(* (workflow/approval.py) over ApprovalStore (workflow/persistence.py),    *)
(* and the announcement of a decision by WorkflowEngine                    *)
(* .decide_approval_request (workflow/engine.py).                          *)
(*                                                                         *)
(* A submission is one call of the decide capability, a sweeper one caller *)
(* of the expiry sweep; both are coroutines and every await of theirs is a *)
(* place where the others run. A transaction's read and its conditional    *)
(* UPDATE are two steps, as under PostgreSQL's READ COMMITTED.             *)
(***************************************************************************)
EXTENDS Naturals, Sequences, FiniteSets

CONSTANTS Ticket, Principal, Submission, Sweeper,
          NoPrincipal,  \* a ticket created without a principal
          NoTicket,     \* a sweeper or a submission at no ticket
          Holders,      \* principals whose token carries the required role
          Admins,       \* principals with the role admin or SECURITY_ADMIN
          Restricted,   \* tickets with a non-empty required_role
          Signed,       \* tickets created with signature_required
          Timed,        \* tickets created with a timeout
          BatchLimit,   \* rows one sweep query returns
          Faults        \* "timeout", "storage", "crash"

ASSUME ApprovalAssumption ==
  /\ NoPrincipal \notin Principal /\ NoTicket \notin Ticket
  /\ Submission \cap Sweeper = {}
  /\ Holders \subseteq Principal /\ Admins \subseteq Principal
  /\ Restricted \subseteq Ticket /\ Signed \subseteq Ticket
  /\ Timed \subseteq Ticket
  /\ BatchLimit \in Nat \ {0}
  /\ Faults \subseteq {"timeout", "storage", "crash"}

VARIABLES
  state,       \* approval_requests.state of each ticket
  requester,   \* approval_requests.requester_principal_id
  overdue,     \* the tickets whose timeout_at has passed
  decisions,   \* the approval_decisions rows
  delegations, \* the approval_delegations rows: who made it, who may act
  lapsed,      \* those whose valid_until has passed
  outbox,      \* the outbox rows staged for each ticket, oldest first
  heard,       \* workflow.approval.decided events published for each ticket
  pc,          \* where each submission is suspended
  call,        \* what each submission submits
  sweep        \* each sweeper: where it is, what it has left, its ticket

tickets == <<state, requester, overdue, decisions, outbox>>
authority == <<delegations, lapsed>>
vars == <<tickets, authority, heard, pc, call, sweep>>

Verdict == {"APPROVED", "REJECTED"}
Outcome == Verdict \cup {"EXPIRED"}
TicketState == {"ABSENT", "PENDING"} \cup Outcome
Signature == {"none", "valid", "invalid"}

Call == [ticket: Ticket, principal: Principal, decision: Outcome,
         signature: Signature]
NoCall == [ticket |-> NoTicket, principal |-> NoPrincipal,
           decision |-> "EXPIRED", signature |-> "none"]
Decision == [ticket: Ticket, approver: Principal, decision: Verdict,
             signature: Signature]
Delegation == [by: Principal, to: Principal]
Sweep == [at: {"asleep", "expiring", "announcing"}, todo: SUBSET Ticket,
          ticket: Ticket \cup {NoTicket}]
Asleep == [at |-> "asleep", todo |-> {}, ticket |-> NoTicket]

\* A submission suspended before, and after, its decision is committed.
Deciding == {"delegation", "commit", "swap"}
Control == {"idle", "committed", "returned", "conflict", "denied", "raised"}
           \cup Deciding

TypeOK == /\ state \in [Ticket -> TicketState]
          /\ requester \in [Ticket -> Principal \cup {NoPrincipal}]
          /\ overdue \subseteq Timed
          /\ decisions \subseteq Decision
          /\ delegations \subseteq Delegation
          /\ lapsed \subseteq delegations
          /\ outbox \in [Ticket -> Seq({"created"} \cup Outcome)]
          /\ heard \in [Ticket -> Seq(Outcome)]
          /\ pc \in [Submission -> Control]
          /\ call \in [Submission -> Call \cup {NoCall}]
          /\ \A s \in Submission : pc[s] # "idle" => call[s] \in Call
          /\ sweep \in [Sweeper -> Sweep]

Init == /\ state = [t \in Ticket |-> "ABSENT"]
        /\ requester = [t \in Ticket |-> NoPrincipal]
        /\ overdue = {}
        /\ decisions = {}
        /\ delegations = {} /\ lapsed = {}
        /\ outbox = [t \in Ticket |-> <<>>]
        /\ heard = [t \in Ticket |-> <<>>]
        /\ pc = [s \in Submission |-> "idle"]
        /\ call = [s \in Submission |-> NoCall]
        /\ sweep = [w \in Sweeper |-> Asleep]

Goto(s, label) == pc' = [pc EXCEPT ![s] = label]
Stage(t, event) == outbox' = [outbox EXCEPT ![t] = Append(@, event)]
Publish(t, o) == heard' = [heard EXCEPT ![t] = Append(@, o)]

-----------------------------------------------------------------------------
(* Tickets and delegations are created.                                    *)

\* create_request: the ticket and its outbox row, in one transaction.
CreateRequest(t, p) ==
  /\ state[t] = "ABSENT"
  /\ state' = [state EXCEPT ![t] = "PENDING"]
  /\ requester' = [requester EXCEPT ![t] = p]
  /\ Stage(t, "created")
  /\ UNCHANGED <<overdue, decisions, authority, heard, pc, call, sweep>>

\* timeout_at passes.
DeadlinePasses(t) ==
  /\ t \in Timed \ overdue /\ state[t] = "PENDING"
  /\ overdue' = overdue \cup {t}
  /\ UNCHANGED <<state, requester, decisions, outbox, authority, heard, pc,
                 call, sweep>>

\* Mutation: any principal may delegate the role.
DelegateUnheld(p, q) ==
  /\ delegations' = delegations \cup {[by |-> p, to |-> q]}
  /\ lapsed' = lapsed \ {[by |-> p, to |-> q]}
  /\ UNCHANGED <<tickets, heard, pc, call, sweep>>

\* create_delegation by p, who holds the role or is an administrator. (Whose
\* name p gives as delegator is not read again; a later valid_from is a
\* delegation made later; a delegation repeated is one in force again.)
Delegate(p, q) ==
  /\ p \in Holders \cup Admins
  /\ delegations' = delegations \cup {[by |-> p, to |-> q]}
  /\ lapsed' = lapsed \ {[by |-> p, to |-> q]}
  /\ UNCHANGED <<tickets, heard, pc, call, sweep>>

\* valid_until passes.
DelegationEnds(d) ==
  /\ d \in delegations \ lapsed
  /\ lapsed' = lapsed \cup {d}
  /\ UNCHANGED <<tickets, delegations, heard, pc, call, sweep>>

-----------------------------------------------------------------------------
(* A decision: decide_approval_request and submit_decision.                *)

\* Mutation: the requester is not compared with the approver.
MayDecideOwn(c) == c.decision \in Verdict

\* The checks on the ticket as first read, other than its state.
MayDecide(c) == c.decision \in Verdict /\ requester[c.ticket] # c.principal

\* The signature check: mandatory where the ticket says so, and a signature
\* that is present must verify over ticket, decision, approver and time.
SignatureAccepted(c) ==
  /\ c.ticket \in Signed => c.signature # "none"
  /\ c.signature # "invalid"

\* The call arrives and reads the ticket: refused, sent on to the delegation
\* query, or (its own role suffices, its signature holds) to the commit.
Submit(s, c) ==
  /\ pc[s] = "idle"
  /\ call' = [call EXCEPT ![s] = c]
  /\ \/ state[c.ticket] = "ABSENT" /\ Goto(s, "raised")
     \/ state[c.ticket] \in Outcome /\ Goto(s, "conflict")
     \/ /\ state[c.ticket] = "PENDING"
        /\ \/ ~MayDecide(c) /\ Goto(s, "denied")
           \/ /\ MayDecide(c)
              /\ c.ticket \in Restricted /\ c.principal \notin Holders
              /\ Goto(s, "delegation")
           \/ /\ MayDecide(c)
              /\ c.ticket \notin Restricted \/ c.principal \in Holders
              /\ Goto(s, IF SignatureAccepted(c) THEN "commit" ELSE "denied")
  /\ UNCHANGED <<tickets, authority, heard, sweep>>

\* get_active_delegation, then the signature check.
CheckDelegation(s) ==
  /\ pc[s] = "delegation"
  /\ LET allowed == \E d \in delegations \ lapsed : d.to = call[s].principal
     IN Goto(s, IF allowed /\ SignatureAccepted(call[s])
                THEN "commit" ELSE "denied")
  /\ UNCHANGED <<tickets, authority, heard, call, sweep>>

\* atomic_submit_decision's SELECT.
ReadPending(s) ==
  /\ pc[s] = "commit"
  /\ Goto(s, IF state[call[s].ticket] = "PENDING" THEN "swap" ELSE "conflict")
  /\ UNCHANGED <<tickets, authority, heard, call, sweep>>

\* Mutation: the UPDATE is by primary key, as it was before M6.4-1.
StillPendingUnchecked(t) == state[t] # "ABSENT"

\* UPDATE ... WHERE state = 'PENDING'.
StillPending(t) == state[t] = "PENDING"

\* atomic_submit_decision's conditional UPDATE, decision row (one per ticket,
\* by constraint) and outbox row, all in one commit.
CommitDecision(s) ==
  /\ pc[s] = "swap"
  /\ LET c == call[s]
         free == \A d \in decisions : d.ticket # c.ticket
     IN IF StillPending(c.ticket) /\ free
        THEN /\ state' = [state EXCEPT ![c.ticket] = c.decision]
             /\ decisions' = decisions \cup
                  {[ticket |-> c.ticket, approver |-> c.principal,
                    decision |-> c.decision, signature |-> c.signature]}
             /\ Stage(c.ticket, c.decision)
             /\ Goto(s, "committed")
        ELSE Goto(s, "conflict") /\ UNCHANGED <<state, decisions, outbox>>
  /\ UNCHANGED <<requester, overdue, authority, heard, call, sweep>>

\* Audit, workflow advance and token minting done: publish and return.
PublishDecision(s) ==
  /\ pc[s] = "committed"
  /\ Publish(call[s].ticket, call[s].decision)
  /\ Goto(s, "returned")
  /\ UNCHANGED <<tickets, authority, call, sweep>>

\* The client's timeout cancels the call, or a transaction of it raises (after
\* the commit: the workflow advance's); nothing after that point runs.
SubmissionFails(s) ==
  /\ Faults \cap {"timeout", "storage"} # {}
  /\ pc[s] \in Deciding \cup {"committed"}
  /\ Goto(s, "raised")
  /\ UNCHANGED <<tickets, authority, heard, call, sweep>>

-----------------------------------------------------------------------------
(* The expiry sweep: sweep_expired_requests.                               *)

\* get_expired_pending_requests: PENDING, timeout_at passed, at most a batch.
Expired == {t \in overdue : state[t] = "PENDING"}

StartSweep(w) ==
  /\ sweep[w].at = "asleep" /\ Expired # {}
  /\ \E batch \in SUBSET Expired :
       /\ Cardinality(batch) <= BatchLimit
       /\ batch = Expired \/ Cardinality(batch) = BatchLimit
       /\ sweep' = [sweep EXCEPT ![w] = [at |-> "expiring", todo |-> batch,
                                        ticket |-> NoTicket]]
  /\ UNCHANGED <<tickets, authority, heard, pc, call>>

\* Mutation: the batch is expired as it was listed, without a second check.
ExpireListed(w, t) ==
  /\ sweep[w].at = "expiring" /\ t \in sweep[w].todo
  /\ state' = [state EXCEPT ![t] = "EXPIRED"]
  /\ Stage(t, "EXPIRED")
  /\ sweep' = [sweep EXCEPT ![w] = [at |-> "announcing", ticket |-> t,
                                   todo |-> @.todo \ {t}]]
  /\ UNCHANGED <<requester, overdue, decisions, authority, heard, pc, call>>

\* atomic_expire_request on one ticket of the batch.
Expire(w, t) ==
  /\ sweep[w].at = "expiring" /\ t \in sweep[w].todo
  /\ IF state[t] = "PENDING"
     THEN /\ state' = [state EXCEPT ![t] = "EXPIRED"]
          /\ Stage(t, "EXPIRED")
          /\ sweep' = [sweep EXCEPT ![w] = [at |-> "announcing", ticket |-> t,
                                           todo |-> @.todo \ {t}]]
     ELSE /\ sweep' = [sweep EXCEPT ![w].todo = @ \ {t}]
          /\ UNCHANGED <<state, outbox>>
  /\ UNCHANGED <<requester, overdue, decisions, authority, heard, pc, call>>

\* The audit entry and the event of a ticket this sweep expired.
PublishExpiry(w) ==
  /\ sweep[w].at = "announcing"
  /\ Publish(sweep[w].ticket, "EXPIRED")
  /\ sweep' = [sweep EXCEPT ![w].at = "expiring", ![w].ticket = NoTicket]
  /\ UNCHANGED <<tickets, authority, pc, call>>

\* The batch is done.
EndSweep(w) ==
  /\ sweep[w].at = "expiring" /\ sweep[w].todo = {}
  /\ sweep' = [sweep EXCEPT ![w] = Asleep]
  /\ UNCHANGED <<tickets, authority, heard, pc, call>>

\* Mutation: the exception ends the loop.
SweepDies(w) ==
  /\ "storage" \in Faults
  /\ sweep[w].at # "asleep"
  /\ sweep' = [sweep EXCEPT ![w].at = "dead"]
  /\ UNCHANGED <<tickets, authority, heard, pc, call>>

\* A transaction of the sweep raises, or shutdown cancels it: the rest of the
\* batch is abandoned until the loop runs again.
SweepFails(w) ==
  /\ "storage" \in Faults
  /\ sweep[w].at # "asleep"
  /\ sweep' = [sweep EXCEPT ![w] = Asleep]
  /\ UNCHANGED <<tickets, authority, heard, pc, call>>

\* The process dies and restarts: every coroutine is gone, the rows stay.
Crash ==
  /\ "crash" \in Faults
  /\ pc' = [s \in Submission |->
              IF pc[s] \in Deciding \cup {"committed"} THEN "raised" ELSE pc[s]]
  /\ sweep' = [w \in Sweeper |-> Asleep]
  /\ <<pc, sweep>>' # <<pc, sweep>>
  /\ UNCHANGED <<tickets, authority, heard, call>>

-----------------------------------------------------------------------------
Create == \/ \E t \in Ticket, p \in Principal \cup {NoPrincipal} :
               CreateRequest(t, p)
          \/ \E t \in Ticket : DeadlinePasses(t)
          \/ \E p, q \in Principal : Delegate(p, q)
          \/ \E d \in Delegation : DelegationEnds(d)
Decide(s) == \/ \E c \in Call : Submit(s, c)
             \/ CheckDelegation(s) \/ ReadPending(s) \/ CommitDecision(s)
             \/ PublishDecision(s)
SweepStep(w) == \/ StartSweep(w) \/ \E t \in Ticket : Expire(w, t)
                \/ PublishExpiry(w) \/ EndSweep(w)
Fail == \/ \E s \in Submission : SubmissionFails(s)
        \/ \E w \in Sweeper : SweepFails(w)
        \/ Crash

Next == \/ Create \/ Fail
        \/ \E s \in Submission : Decide(s)
        \/ \E w \in Sweeper : SweepStep(w)

Spec == Init /\ [][Next]_vars

\* The event loop runs every coroutine that can run; the sweep loop is one.
Fairness == /\ \A s \in Submission :
                 WF_vars(CheckDelegation(s) \/ ReadPending(s)
                         \/ CommitDecision(s) \/ PublishDecision(s))
            /\ \A w \in Sweeper : WF_vars(SweepStep(w))
FairSpec == Spec /\ Fairness

-----------------------------------------------------------------------------
(* Properties.                                                             *)

\* A ticket is APPROVED or REJECTED exactly when one decision row says so, an
\* EXPIRED or PENDING one has none: a decision that raced another decision or
\* the sweep leaves no trace.
DecisionMatchesTicket ==
  /\ \A d, e \in decisions : d.ticket = e.ticket => d = e
  /\ \A d \in decisions : state[d.ticket] = d.decision
  /\ \A t \in Ticket :
       state[t] \in Verdict => \E d \in decisions : d.ticket = t

\* The outbox tells each ticket's story once: created, then its one outcome,
\* in the same commit as the ticket itself.
OutboxTellsStory ==
  \A t \in Ticket :
    outbox[t] = CASE state[t] = "ABSENT" -> <<>>
                  [] state[t] = "PENDING" -> <<"created">>
                  [] OTHER -> <<"created", state[t]>>

\* Ticket, decision row and outbox tell the same of every ticket, whoever
\* settled it and whatever raised or died in between.
RecordsAgree == DecisionMatchesTicket /\ OutboxTellsStory

\* Whoever decided had the role itself or by a delegation from someone who
\* could give it, was not the requester, and signed where that is required.
AuthorityTraced ==
  \A d \in decisions :
    /\ d.approver # requester[d.ticket]
    /\ d.ticket \in Restricted /\ d.approver \notin Holders =>
         \E g \in delegations : g.to = d.approver /\ g.by \in Holders \cup Admins
    /\ d.signature \in IF d.ticket \in Signed THEN {"valid"}
                       ELSE {"none", "valid"}

\* One actor settles a ticket: of all submissions and sweepers, the one that
\* was told it won is alone, and only it announces the outcome, once.
Announcers(t) ==
  {s \in Submission : pc[s] = "committed" /\ call[s].ticket = t}
  \cup {w \in Sweeper : sweep[w].at = "announcing" /\ sweep[w].ticket = t}
AnnouncedOnce ==
  \A t \in Ticket :
    /\ \A a, b \in Announcers(t) : a = b
    /\ heard[t] # <<>> => Announcers(t) = {}
    /\ heard[t] \in {<<>>, <<state[t]>>}

\* The approval manager implements TicketOutcome: a settled ticket keeps its
\* outcome and what is announced is that outcome, whoever raced for it.
Promise == INSTANCE TicketOutcome
  WITH Open <- "PENDING",
       outcome <- [t \in Ticket |->
         IF state[t] = "ABSENT" THEN "PENDING" ELSE state[t]],
       told <- [t \in Ticket |->
         IF heard[t] = <<>> THEN "PENDING" ELSE heard[t][Len(heard[t])]]
PromiseKept == Promise!ASpec

\* Once transactions stop failing and the process stops dying, an overdue
\* ticket is settled: whatever batch a sweep was cut in, a later one takes it.
FaultsEnd == <>[][~Fail]_vars
OverdueSettled ==
  FaultsEnd => \A t \in Ticket :
    t \in overdue /\ state[t] = "PENDING" ~> state[t] \in Outcome
=============================================================================
