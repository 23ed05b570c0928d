----------------------- MODULE AgentEnrollment_proofs -----------------------
(***************************************************************************)
(* Theorems about AgentEnrollment for any machines, tokens and calls, with *)
(* row locks or one lock for the database, and every fault.                *)
(*                                                                         *)
(* The argument: a call that is inside a transaction found its token open, *)
(* and nobody else can have closed it (Reserved), so a completed row stays *)
(* as it is; every certificate that was answered is the one of a completed *)
(* row (Answered); and a machine that awaits an answer still has the id it *)
(* asked with, or none (Awaited).                                          *)
(***************************************************************************)
EXTENDS AgentEnrollment, TLAPS

Asked == [machine : Machine, token : Token, id : Nat]
At == {"idle", "loading", "ready", "issuing", "again", "answered"}
CallRecord(n) == [at : At, key : 0..n, cert : Cert \cup {None}]
TokenRow == [key : 0..MaxKeys, id : Nat, principal : Nat]

\* A call that is under way has a request.
Active == \A c \in Call : call[c].at # "idle" => call[c].key # 0

\* Two transactions at a time have different tokens, and each found its own
\* open, which it still is.
Reserved ==
  \A c \in Call : Inside(c) =>
    /\ Row(c) = Open
    /\ \A d \in Call : Inside(d) /\ d # c => Request(d).token # Request(c).token

\* A token that is not open tells of a principal with the same id.
Completed ==
  \A t \in Token : token[t] # Open =>
    /\ token[t].principal \in 1..Len(principals)
    /\ principals[token[t].principal] = token[t].id

\* A certificate that was answered is the one that its token's row tells of.
Tells(x) ==
  /\ x.key \in 1..Len(asked) /\ x.cert.key = x.key
  /\ x.cert.principal # 0
  /\ token[asked[x.key].token] =
       [key |-> x.key, id |-> asked[x.key].id, principal |-> x.cert.principal]
Answered == \A x \in handed : Tells(x)

\* What a call is about to deliver was answered.
Delivered ==
  \A c \in Call : call[c].cert # None => [key |-> call[c].key, cert |-> call[c].cert] \in handed

\* A machine that awaits an answer has the id that it asked with, or lost it.
Awaited ==
  \A m \in Machine : agent[m] # 0 =>
    /\ asked[agent[m]].machine = m
    /\ registry[m] \in {0, asked[agent[m]].id}

\* A certificate in a store names a principal.
Imported == \A m \in Machine : \A x \in certs[m] : x.principal \in 1..Len(principals)

Typed == TypeOK /\ Active
EnrollInv ==
  Typed /\ Reserved /\ Completed /\ Answered /\ Delivered /\ Awaited /\ Imported
    /\ Whole /\ Recognised

-----------------------------------------------------------------------------
(* What the actions do to sequences and to calls.                          *)

LEMMA Posted ==
  ASSUME TypeOK, NEW m \in Machine, NEW t \in Token, NEW c \in Call, Post(m, t, c)
  PROVE  /\ asked' \in Seq(Asked) /\ Len(asked') = Len(asked) + 1
         /\ \A k \in 1..Len(asked) : asked'[k] = asked[k]
         /\ asked'[Len(asked) + 1] = [machine |-> m, token |-> t, id |-> registry[m]]
         /\ Len(asked) \in Nat /\ Len(asked') <= MaxKeys
<1>1. /\ asked \in Seq(Asked)
      /\ [machine |-> m, token |-> t, id |-> registry[m]] \in Asked
  BY DEF TypeOK, Asked
<1>2. asked' = Append(asked, [machine |-> m, token |-> t, id |-> registry[m]])
      /\ Len(asked) < MaxKeys
  BY DEF Post
<1>3. QED
  BY <1>1, <1>2, EnrollmentAssumption

LEMMA Asking ==
  ASSUME Typed, NEW c \in Call, call[c].at # "idle"
  PROVE  /\ call[c].key \in 1..Len(asked) /\ Request(c) \in Asked
         /\ call[c].key \in 1..MaxKeys /\ Len(asked) \in Nat
         /\ Row(c) \in TokenRow /\ Request(c).token \in Token
<1>1. asked \in Seq(Asked) /\ Len(asked) \in Nat /\ Len(asked) <= MaxKeys
  BY DEF Typed, TypeOK, Asked
<1>2. call[c].key \in 1..Len(asked)
  BY <1>1 DEF Typed, TypeOK, Active
<1>3. asked[call[c].key] \in Asked
  BY <1>1, <1>2
<1>4. asked[call[c].key].token \in Token
  BY <1>3 DEF Asked
<1>5. call[c].key \in 1..MaxKeys
  BY <1>1, <1>2, EnrollmentAssumption
<1>6. token \in [Token -> TokenRow]
  BY DEF Typed, TypeOK, TokenRow
<1>7. QED
  BY <1>1, <1>2, <1>3, <1>4, <1>5, <1>6 DEF Request, Row

\* A step of a call that keeps its request and hands out no certificate.
Step(c) ==
  /\ call' \in [Call -> CallRecord(Len(asked))]
  /\ call[c].at # "idle"
  /\ call'[c].key = call[c].key /\ call'[c].at # "idle"
  /\ call'[c].cert \in {None, call[c].cert}
  /\ \A d \in Call : d # c => call'[d] = call[d]

LEMMA Moved ==
  ASSUME Typed, NEW c \in Call, call[c].at # "idle", NEW a \in At \ {"idle"}, Move(c, a)
  PROVE  Step(c) /\ call'[c].at = a
<1>1. call \in [Call -> CallRecord(Len(asked))]
  BY DEF Typed, TypeOK, CallRecord, At
<1>2. QED
  BY <1>1 DEF Move, Step, CallRecord

LEMMA Refused ==
  ASSUME Typed, NEW c \in Call, call[c].at # "idle", Refuse(c)
  PROVE  Step(c) /\ call'[c].at = "answered" /\ call'[c].cert = None /\ handed' = handed
<1>1. call \in [Call -> CallRecord(Len(asked))]
  BY DEF Typed, TypeOK, CallRecord, At
<1>2. QED
  BY <1>1 DEF Refuse, Answer, Step, CallRecord, At

LEMMA Handed ==
  ASSUME Typed, NEW c \in Call, call[c].at # "idle", NEW x \in Cert, Hand(c, x)
  PROVE  /\ call' \in [Call -> CallRecord(Len(asked))]
         /\ call'[c] = [at |-> "answered", key |-> call[c].key, cert |-> x]
         /\ ~Inside(c)' /\ \A d \in Call : d # c => call'[d] = call[d]
         /\ handed' = handed \cup {[key |-> call[c].key, cert |-> x]}
<1>1. call \in [Call -> CallRecord(Len(asked))]
  BY DEF Typed, TypeOK, CallRecord, At
<1>2. QED
  BY <1>1 DEF Hand, Answer, CallRecord, At, Inside

(* A request that is replayed gets the certificate of its token's row.     *)
LEMMA Replayed ==
  ASSUME EnrollInv, NEW c \in Call, call[c].at # "idle", Row(c) # Open, ReplayOrRefuse(c)
  PROVE  \/ Refuse(c)
         \/ \E x \in Cert : /\ Hand(c, x) /\ x.key = call[c].key
                            /\ x.principal \in 1..Len(principals)
                            /\ Row(c) = [key |-> call[c].key, id |-> Request(c).id,
                                         principal |-> x.principal]
<1> SUFFICES ASSUME Same(c)
             PROVE  \E x \in Cert : /\ Hand(c, x) /\ x.key = call[c].key
                            /\ x.principal \in 1..Len(principals)
                            /\ Row(c) = [key |-> call[c].key, id |-> Request(c).id,
                                         principal |-> x.principal]
  BY DEF ReplayOrRefuse
<1>1. Row(c) \in TokenRow /\ call[c].key \in 1..MaxKeys /\ Request(c).token \in Token
  BY Asking DEF EnrollInv
<1>2. Row(c).principal \in 1..Len(principals)
  BY <1>1 DEF EnrollInv, Completed, Row
<1>3. Row(c) = [key |-> call[c].key, id |-> Request(c).id, principal |-> Row(c).principal]
  BY <1>1 DEF Same, TokenRow
<1>4. Hand(c, [key |-> call[c].key, principal |-> Row(c).principal])
  BY DEF ReplayOrRefuse, Same
<1>5. [key |-> call[c].key, principal |-> Row(c).principal] \in Cert
  <2>1. Len(principals) \in Nat
    BY DEF EnrollInv, Typed, TypeOK
  <2>2. Row(c).principal \in Nat \ {0}
    BY <1>2, <2>1
  <2>3. QED
    BY <1>1, <2>2 DEF Cert
<1>6. QED
  BY <1>2, <1>3, <1>4, <1>5

\* A step of a call that changes nothing that is stored, and begins a
\* transaction only on a token that is open and free.
Quiet(c) ==
  /\ Step(c) /\ handed' = handed
  /\ UNCHANGED <<machines, serial, database, expired, lapsed, faults>>
  /\ Inside(c)' => ~Inside(c) /\ MayLock(c) /\ Row(c) = Open

\* A call is answered with the certificate of its token's row.
Again(c, x) ==
  /\ call[c].at # "idle" /\ Hand(c, x) /\ x.key = call[c].key
  /\ x.principal \in 1..Len(principals)
  /\ Row(c) = [key |-> call[c].key, id |-> Request(c).id, principal |-> x.principal]
  /\ UNCHANGED <<machines, serial, database, expired, lapsed, faults>>

LEMMA Served ==
  ASSUME EnrollInv, NEW c \in Call,
         Load(c) \/ Enroll(c) \/ Violate(c) \/ Replay(c) \/ Fail(c)
  PROVE  Quiet(c) \/ \E x \in Cert : Again(c, x)
<1>0. Typed
  BY DEF EnrollInv
<1>1. CASE Load(c)
  <2>1. call[c].at # "idle" /\ Move(c, "ready")
    BY <1>1 DEF Load
  <2>2. Step(c) /\ call'[c].at = "ready"
    BY <1>0, <2>1, Moved DEF At
  <2>3. QED
    BY <1>1, <2>2 DEF Load, Quiet, Inside
<1>2. CASE Violate(c)
  <2>1. call[c].at # "idle" /\ Move(c, "again")
    BY <1>2 DEF Violate
  <2>2. Step(c) /\ call'[c].at = "again"
    BY <1>0, <2>1, Moved DEF At
  <2>3. QED
    BY <1>2, <2>2 DEF Violate, Quiet, Inside
<1>3. ASSUME call[c].at # "idle", Refuse(c),
             UNCHANGED <<machines, serial, database, expired, lapsed, faults>>
      PROVE  Quiet(c)
  BY <1>0, <1>3, Refused DEF Quiet, Inside
<1>4. ASSUME call[c].at # "idle", Row(c) # Open, ReplayOrRefuse(c),
             UNCHANGED <<machines, serial, database, expired, lapsed, faults>>
      PROVE  Quiet(c) \/ \E x \in Cert : Again(c, x)
  BY <1>3, <1>4, Replayed DEF Again
<1>5. CASE Fail(c)
  BY <1>3, <1>5 DEF Fail
<1>6. CASE Replay(c)
  BY <1>3, <1>4, <1>6 DEF Replay
<1>7. CASE Enroll(c)
  <2>1. /\ call[c].at = "ready" /\ MayLock(c)
        /\ UNCHANGED <<machines, serial, database, expired, lapsed, faults>>
    BY <1>7 DEF Enroll
  <2>2. CASE Row(c) # Open /\ ReplayOrRefuse(c)
    BY <2>1, <2>2, <1>4
  <2>3. CASE Refuse(c)
    BY <2>1, <2>3, <1>3
  <2>4. CASE Row(c) = Open /\ Move(c, "issuing") /\ UNCHANGED handed
    <3>1. Step(c)
      BY <1>0, <2>1, <2>4, Moved DEF At
    <3>2. QED
      BY <2>1, <2>4, <3>1 DEF Quiet, Inside
  <2>5. QED
    BY <1>7, <2>2, <2>3, <2>4 DEF Enroll
<1>8. QED
  BY <1>1, <1>2, <1>5, <1>6, <1>7

\* The steps that leave the calls alone, or end them all.
Apart ==
  \/ \E m \in Machine : Identify(m) \/ GiveUp(m) \/ LoseId(m) \/ LoseCertificates(m)
  \/ Crash \/ (\E t \in Token : Expire(t)) \/ (\E p \in 1..Len(principals) : Lapse(p))
  \/ UNCHANGED vars

LEMMA Steps ==
  ASSUME EnrollInv, [Next]_vars
  PROVE  \/ Apart
         \/ \E m \in Machine, t \in Token, c \in Call : Post(m, t, c)
         \/ \E m \in Machine, c \in Call : Resend(m, c)
         \/ \E c \in Call : \/ Reply(c) \/ Commit(c) \/ Quiet(c)
                            \/ \E x \in Cert : Again(c, x)
BY Served DEF Next, AgentStep, Serve, Apart

LEMMA ApartFlow ==
  ASSUME EnrollInv, Apart
  PROVE  /\ UNCHANGED <<asked, serial, token, principals, handed>>
         /\ call' = call \/ call' = [c \in Call |-> Idle]
         /\ \A m \in Machine :
              /\ agent'[m] \in {0, agent[m]} /\ certs'[m] \subseteq certs[m]
              /\ \/ registry'[m] \in {0, registry[m]}
                 \/ agent[m] = 0 /\ certs[m] = {}
<1>1. /\ agent \in [Machine -> 0..Len(asked)] /\ certs \in [Machine -> SUBSET Cert]
      /\ registry \in [Machine -> Nat]
  BY DEF EnrollInv, Typed, TypeOK
<1>2. ASSUME NEW m \in Machine, Identify(m)
      PROVE  \A n \in Machine : n = m \/ registry'[n] = registry[n]
  BY <1>1, <1>2 DEF Identify
<1>3. QED
  BY <1>1, <1>2 DEF Apart, Identify, GiveUp, LoseId, LoseCertificates, Crash, Expire, Lapse,
     vars, machines, database, NeverEnrolled

LEMMA Committed ==
  ASSUME EnrollInv, NEW c \in Call, Commit(c)
  PROVE  LET n == Len(principals) + 1
             t == Request(c).token
             x == [key |-> call[c].key, principal |-> n] IN
         /\ n \in Nat \ {0} /\ x \in Cert /\ t \in Token
         /\ principals' \in Seq(Nat) /\ Len(principals') = n
         /\ \A p \in 1..Len(principals) : principals'[p] = principals[p]
         /\ principals'[n] = Request(c).id
         /\ Row(c) = Open /\ call[c].key \in 1..Len(asked)
         /\ token' \in [Token -> TokenRow]
         /\ token'[t] = [key |-> call[c].key, id |-> Request(c).id, principal |-> n]
         /\ \A u \in Token : u # t => token'[u] = token[u]
         /\ Hand(c, x)
         /\ UNCHANGED <<machines, serial, expired, lapsed, faults>>
<1> DEFINE n == Len(principals) + 1
           t == Request(c).token
           x == [key |-> call[c].key, principal |-> n]
<1>1. call[c].at = "issuing"
  BY DEF Commit
<1>2. /\ call[c].key \in 1..Len(asked) /\ Request(c) \in Asked
      /\ call[c].key \in 1..MaxKeys /\ Len(asked) \in Nat
      /\ Row(c) \in TokenRow /\ Request(c).token \in Token
  BY <1>1, Asking DEF EnrollInv
<1>3. principals \in Seq(Nat) /\ token \in [Token -> TokenRow] /\ MaxKeys \in Nat
  BY EnrollmentAssumption DEF EnrollInv, Typed, TypeOK, TokenRow
<1>4. Request(c).id \in Nat
  BY <1>2 DEF Asked
<1>5. n \in Nat \ {0} /\ x \in Cert
  BY <1>2, <1>3 DEF Cert
<1>6. principals' = Append(principals, Request(c).id)
  BY DEF Commit
<1>7. /\ principals' \in Seq(Nat) /\ Len(principals') = n
      /\ \A p \in 1..Len(principals) : principals'[p] = principals[p]
      /\ principals'[n] = Request(c).id
  BY <1>3, <1>4, <1>6
<1>8. token' = [token EXCEPT ![t] =
                 [key |-> call[c].key, id |-> Request(c).id, principal |-> n]]
  BY DEF Commit
<1>9. [key |-> call[c].key, id |-> Request(c).id, principal |-> n] \in TokenRow
  BY <1>2, <1>3, <1>4, <1>5, SMTT(30) DEF TokenRow
<1>10. Row(c) = Open
  BY <1>1 DEF EnrollInv, Reserved, Inside
<1>11. Hand(c, x) /\ UNCHANGED <<machines, serial, expired, lapsed, faults>>
  BY DEF Commit
<1>12. QED
  BY <1>2, <1>3, <1>5, <1>7, <1>8, <1>9, <1>10, <1>11

-----------------------------------------------------------------------------
(* Every part of the invariant is kept.                                    *)

LEMMA AskFlow ==
  ASSUME EnrollInv, NEW c \in Call, NEW k \in Nat, Send(c, k)
  PROVE  /\ call[c] = Idle /\ call'[c] = [at |-> "loading", key |-> k, cert |-> None]
         /\ ~Inside(c)' /\ \A d \in Call : d # c => call'[d] = call[d]
         /\ \A n \in Nat : k \in 0..n /\ Len(asked) <= n
              => call' \in [Call -> CallRecord(n)]
<1>1. call \in [Call -> CallRecord(Len(asked))] /\ Len(asked) \in Nat
  BY DEF EnrollInv, Typed, TypeOK, CallRecord, At
<1>2. call' = [call EXCEPT ![c] = [at |-> "loading", key |-> k, cert |-> None]]
  BY DEF Send
<1>3. ASSUME NEW n \in Nat, k \in 0..n, Len(asked) <= n
      PROVE  call' \in [Call -> CallRecord(n)]
  <2>1. call \in [Call -> CallRecord(n)]
    BY <1>1, <1>3 DEF CallRecord
  <2>2. QED
    BY <1>2, <1>3, <2>1 DEF CallRecord, At
<1>4. QED
  BY <1>1, <1>2, <1>3 DEF Send, Inside

(* The types in four parts, which few steps change at a time.              *)
MachinesTyped ==
  /\ registry \in [Machine -> Nat] /\ ids \in Nat /\ certs \in [Machine -> SUBSET Cert]
  /\ asked \in Seq(Asked) /\ Len(asked) <= MaxKeys
  /\ agent \in [Machine -> 0..Len(asked)] /\ resent \in 0..MaxResent
CallsTyped == call \in [Call -> CallRecord(Len(asked))]
RowsTyped == token \in [Token -> TokenRow] /\ principals \in Seq(Nat)
RestTyped ==
  /\ serial \in BOOLEAN /\ expired \subseteq Token /\ lapsed \subseteq Nat
  /\ handed \subseteq [key : 1..MaxKeys, cert : Cert] /\ faults \in 0..MaxFaults

LEMMA Parts ==
  /\ TypeOK <=> MachinesTyped /\ CallsTyped /\ RowsTyped /\ RestTyped
  /\ TypeOK' <=> MachinesTyped' /\ CallsTyped' /\ RowsTyped' /\ RestTyped'
BY DEF TypeOK, MachinesTyped, CallsTyped, RowsTyped, RestTyped, CallRecord, At, TokenRow, Asked

LEMMA TypeStep == EnrollInv /\ [Next]_vars => Typed'
<1> SUFFICES ASSUME EnrollInv, [Next]_vars
             PROVE  MachinesTyped' /\ CallsTyped' /\ RowsTyped' /\ RestTyped' /\ Active'
  BY Parts DEF Typed
<1>0. MachinesTyped /\ CallsTyped /\ RowsTyped /\ RestTyped /\ Active /\ Typed /\ TypeOK
      /\ Len(asked) \in Nat
  BY Parts DEF EnrollInv, Typed, MachinesTyped
<1>k. /\ UNCHANGED machines => MachinesTyped'
      /\ UNCHANGED <<call, asked>> => CallsTyped' /\ Active'
      /\ UNCHANGED database => RowsTyped'
      /\ UNCHANGED <<serial, expired, lapsed, handed, faults>> => RestTyped'
  <2>1. UNCHANGED machines => MachinesTyped'
    BY <1>0 DEF MachinesTyped, machines
  <2>2. UNCHANGED <<call, asked>> => CallsTyped' /\ Active'
    BY <1>0 DEF CallsTyped, Active, CallRecord
  <2>3. UNCHANGED database => RowsTyped'
    BY <1>0 DEF RowsTyped, database
  <2>4. UNCHANGED <<serial, expired, lapsed, handed, faults>> => RestTyped'
    BY <1>0 DEF RestTyped
  <2>5. QED
    BY <2>1, <2>2, <2>3, <2>4
<1>f. ASSUME NEW kind, Fault(kind) PROVE faults' \in 0..MaxFaults
  BY <1>0, <1>f, EnrollmentAssumption DEF Fault, RestTyped
<1>1. CASE Apart
  <2>1. ASSUME NEW m \in Machine, Identify(m) \/ GiveUp(m)
        PROVE  MachinesTyped' /\ CallsTyped' /\ RowsTyped' /\ RestTyped' /\ Active'
    <3>1. MachinesTyped'
      <4>1. CASE Identify(m)
        BY <1>0, <4>1 DEF MachinesTyped, Identify
      <4>2. CASE GiveUp(m)
        BY <1>0, <4>2 DEF MachinesTyped, GiveUp
      <4>3. QED
        BY <2>1, <4>1, <4>2
    <3>2. QED
      BY <2>1, <3>1, <1>k DEF Identify, GiveUp
  <2>2. ASSUME NEW m \in Machine, LoseId(m) \/ LoseCertificates(m)
        PROVE  MachinesTyped' /\ CallsTyped' /\ RowsTyped' /\ RestTyped' /\ Active'
    <3>1. MachinesTyped'
      <4>1. CASE LoseId(m)
        BY <1>0, <4>1 DEF MachinesTyped, LoseId
      <4>2. CASE LoseCertificates(m)
        BY <1>0, <4>2 DEF MachinesTyped, LoseCertificates
      <4>3. QED
        BY <2>2, <4>1, <4>2
    <3>2. faults' \in 0..MaxFaults
      BY <2>2, <1>f DEF LoseId, LoseCertificates
    <3>3. QED
      BY <1>0, <2>2, <3>1, <3>2, <1>k DEF LoseId, LoseCertificates, RestTyped
  <2>3. CASE Crash
    <3>1. CallsTyped' /\ Active'
      <4>1. call' = [c \in Call |-> Idle] /\ asked' = asked /\ Len(asked) \in Nat
        BY <1>0, <2>3 DEF Crash, machines, MachinesTyped
      <4>2. QED
        BY <4>1 DEF CallsTyped, Active, CallRecord, Idle, At
    <3>2. faults' \in 0..MaxFaults
      BY <2>3, <1>f DEF Crash
    <3>3. QED
      BY <1>0, <2>3, <3>1, <3>2, <1>k DEF Crash, RestTyped
  <2>4. ASSUME NEW t \in Token, Expire(t)
        PROVE  MachinesTyped' /\ CallsTyped' /\ RowsTyped' /\ RestTyped' /\ Active'
    <3>1. faults' \in 0..MaxFaults
      BY <2>4, <1>f DEF Expire
    <3>2. QED
      BY <1>0, <2>4, <3>1, <1>k DEF Expire, RestTyped, machines
  <2>5. ASSUME NEW p \in 1..Len(principals), Lapse(p)
        PROVE  MachinesTyped' /\ CallsTyped' /\ RowsTyped' /\ RestTyped' /\ Active'
    <3>1. p \in Nat
      BY <1>0 DEF RowsTyped
    <3>2. QED
      BY <1>0, <2>5, <3>1, <1>k DEF Lapse, RestTyped, machines
  <2>6. CASE UNCHANGED vars
    BY <1>k, <2>6 DEF vars, machines
  <2>7. QED
    BY <1>1, <2>1, <2>2, <2>3, <2>4, <2>5, <2>6 DEF Apart
<1>2. ASSUME NEW m \in Machine, NEW t \in Token, NEW c \in Call, Post(m, t, c)
      PROVE  MachinesTyped' /\ CallsTyped' /\ RowsTyped' /\ RestTyped' /\ Active'
  <2>1. /\ asked' \in Seq(Asked) /\ Len(asked') = Len(asked) + 1
        /\ Len(asked) \in Nat /\ Len(asked') <= MaxKeys
    BY <1>0, <1>2, Posted
  <2>2. Send(c, Len(asked) + 1)
    BY <1>2 DEF Post
  <2>3. /\ CallsTyped'
        /\ call'[c] = [at |-> "loading", key |-> Len(asked) + 1, cert |-> None]
        /\ \A d \in Call : d # c => call'[d] = call[d]
    BY <2>1, <2>2, AskFlow DEF CallsTyped, CallRecord
  <2>4. agent' \in [Machine -> 0..Len(asked')]
    BY <1>0, <1>2, <2>1 DEF Post, MachinesTyped
  <2>5. Active'
    BY <1>0, <2>1, <2>3 DEF Active
  <2>6. MachinesTyped'
    BY <1>0, <1>2, <2>1, <2>4 DEF MachinesTyped, Post
  <2>7. QED
    BY <1>2, <1>k, <2>3, <2>5, <2>6 DEF Post
<1>3. ASSUME NEW m \in Machine, NEW c \in Call, Resend(m, c)
      PROVE  MachinesTyped' /\ CallsTyped' /\ RowsTyped' /\ RestTyped' /\ Active'
  <2>1. Send(c, agent[m]) /\ agent[m] # 0 /\ agent[m] \in 0..Len(asked) /\ Len(asked) \in Nat
    BY <1>0, <1>3 DEF Resend, MachinesTyped
  <2>2. /\ call' \in [Call -> CallRecord(Len(asked))] /\ asked' = asked
        /\ call'[c] = [at |-> "loading", key |-> agent[m], cert |-> None]
        /\ \A d \in Call : d # c => call'[d] = call[d]
    BY <1>3, <2>1, AskFlow DEF Resend
  <2>3. CallsTyped' /\ Active'
    BY <1>0, <2>1, <2>2 DEF Active, CallsTyped, CallRecord
  <2>4. resent' \in 0..MaxResent
    BY <1>0, <1>3, EnrollmentAssumption DEF MachinesTyped, Resend
  <2>5. MachinesTyped'
    BY <1>0, <1>3, <2>4 DEF MachinesTyped, Resend
  <2>6. QED
    BY <1>3, <1>k, <2>3, <2>5 DEF Resend
<1>4. ASSUME NEW c \in Call, Reply(c)
      PROVE  MachinesTyped' /\ CallsTyped' /\ RowsTyped' /\ RestTyped' /\ Active'
  <2>1. call' = [call EXCEPT ![c] = Idle] /\ asked' = asked /\ Len(asked) \in Nat
    BY <1>0, <1>4 DEF Reply, MachinesTyped
  <2>2. CallsTyped' /\ Active'
    BY <1>0, <2>1 DEF CallsTyped, CallRecord, Active, Idle, At
  <2>3. {call[c].cert} \ {None} \subseteq Cert
    BY <1>0 DEF CallsTyped, CallRecord
  <2>4. certs' \in [Machine -> SUBSET Cert] /\ agent' \in [Machine -> 0..Len(asked)]
    <3> DEFINE n == asked[call[c].key].machine
               S == certs[n] \cup ({call[c].cert} \ {None})
    <3>1. call[c].key \in 1..Len(asked) /\ n \in Machine
      BY <1>0, <1>4, Asking DEF Reply, Asked, Request
    <3>2. S \in SUBSET Cert
      BY <1>0, <2>3, <3>1 DEF MachinesTyped
    <3>3. \/ agent' = [agent EXCEPT ![n] = 0] /\ certs' = [certs EXCEPT ![n] = S]
          \/ UNCHANGED <<agent, certs>>
      BY <1>4 DEF Reply
    <3> HIDE DEF n, S
    <3>4. certs \in [Machine -> SUBSET Cert] /\ agent \in [Machine -> 0..Len(asked)]
      BY <1>0 DEF MachinesTyped
    <3>5. certs' \in [Machine -> SUBSET Cert]
      BY <3>1, <3>2, <3>3, <3>4
    <3>6. agent' \in [Machine -> 0..Len(asked)]
      BY <2>1, <3>1, <3>3, <3>4
    <3>7. QED
      BY <3>5, <3>6
  <2>5. MachinesTyped'
    BY <1>0, <1>4, <2>4 DEF MachinesTyped, Reply
  <2>6. QED
    BY <1>4, <1>k, <2>2, <2>5 DEF Reply
<1>5. ASSUME NEW c \in Call, Quiet(c)
      PROVE  MachinesTyped' /\ CallsTyped' /\ RowsTyped' /\ RestTyped' /\ Active'
  <2>1. asked' = asked
    BY <1>5 DEF Quiet, machines
  <2>2. Active'
    BY <1>0, <1>5 DEF Quiet, Step, Active
  <2>3. CallsTyped'
    BY <1>5, <2>1 DEF Quiet, Step, CallsTyped, CallRecord
  <2>4. QED
    BY <1>5, <1>k, <2>2, <2>3 DEF Quiet
<1>6. ASSUME NEW c \in Call, NEW x \in Cert, call[c].at # "idle", Hand(c, x), UNCHANGED machines,
             UNCHANGED <<serial, expired, lapsed, faults>>
      PROVE  MachinesTyped' /\ CallsTyped' /\ Active' /\ RestTyped'
  <2>1. /\ call' \in [Call -> CallRecord(Len(asked))]
        /\ call'[c] = [at |-> "answered", key |-> call[c].key, cert |-> x]
        /\ \A d \in Call : d # c => call'[d] = call[d]
        /\ handed' = handed \cup {[key |-> call[c].key, cert |-> x]}
    BY <1>0, <1>6, Handed
  <2>2. call[c].key \in 1..MaxKeys
    BY <1>0, <1>6, Asking
  <2>3. [key |-> call[c].key, cert |-> x] \in [key : 1..MaxKeys, cert : Cert]
    BY <2>2
  <2>4. RestTyped'
    BY <1>0, <1>6, <2>1, <2>3 DEF RestTyped
  <2>5. Active'
    BY <1>0, <1>6, <2>1 DEF Active
  <2>6. CallsTyped'
    BY <1>6, <2>1 DEF CallsTyped, machines, CallRecord
  <2>7. QED
    BY <1>6, <1>k, <2>4, <2>5, <2>6
<1>7. ASSUME NEW c \in Call, NEW x \in Cert, Again(c, x)
      PROVE  MachinesTyped' /\ CallsTyped' /\ RowsTyped' /\ RestTyped' /\ Active'
  BY <1>k, <1>6, <1>7 DEF Again
<1>8. ASSUME NEW c \in Call, Commit(c)
      PROVE  MachinesTyped' /\ CallsTyped' /\ RowsTyped' /\ RestTyped' /\ Active'
  <2> DEFINE x == [key |-> call[c].key, principal |-> Len(principals) + 1]
  <2>1. /\ x \in Cert /\ principals' \in Seq(Nat) /\ token' \in [Token -> TokenRow]
        /\ Hand(c, x) /\ UNCHANGED <<machines, serial, expired, lapsed, faults>>
    BY <1>8, Committed
  <2>2. call[c].at # "idle"
    BY <1>8 DEF Commit
  <2> HIDE DEF x
  <2>3. MachinesTyped' /\ CallsTyped' /\ Active' /\ RestTyped'
    BY <1>6, <2>1, <2>2
  <2>4. QED
    BY <2>1, <2>3 DEF RowsTyped, TokenRow
<1>9. QED
  BY <1>1, <1>2, <1>3, <1>4, <1>5, <1>7, <1>8, Steps

(* What a call asked for, and found in its row, as steps go by.            *)
LEMMA SameRequest ==
  ASSUME Typed, NEW d \in Call, call[d].at # "idle", call'[d].key = call[d].key,
         asked' = asked \/ \A k \in 1..Len(asked) : asked'[k] = asked[k]
  PROVE  /\ Request(d)' = Request(d)
         /\ token'[Request(d).token] = token[Request(d).token] => Row(d)' = Row(d)
<1>1. call[d].key \in 1..Len(asked)
  BY Asking
<1>2. Request(d)' = Request(d)
  BY <1>1 DEF Request
<1>3. QED
  BY <1>2 DEF Row

LEMMA ReservedStep == EnrollInv /\ [Next]_vars => Reserved'
<1> SUFFICES ASSUME EnrollInv, [Next]_vars PROVE Reserved'
  OBVIOUS
<1>0. Typed /\ Reserved /\ asked \in Seq(Asked)
  BY DEF EnrollInv, Typed, TypeOK, Asked
<1>a. ASSUME \A d \in Call : Inside(d)' => Inside(d) /\ Request(d)' = Request(d) /\ Row(d)' = Row(d)
      PROVE  Reserved'
  BY <1>0, <1>a DEF Reserved
<1>1. CASE Apart
  <2>1. /\ asked' = asked /\ token' = token
        /\ call' = call \/ call' = [c \in Call |-> Idle]
    BY <1>1, ApartFlow
  <2>2. \A d \in Call : Inside(d)' => call' = call
    BY <2>1 DEF Inside, Idle
  <2>3. QED
    BY <1>a, <2>1, <2>2 DEF Inside, Request, Row
<1>2. ASSUME NEW c \in Call, ~Inside(c)', token' = token,
             \A d \in Call : d # c => call'[d] = call[d],
             asked' = asked \/ \A k \in 1..Len(asked) : asked'[k] = asked[k]
      PROVE  Reserved'
  <2>1. ASSUME NEW d \in Call, Inside(d)'
        PROVE  Inside(d) /\ Request(d)' = Request(d) /\ Row(d)' = Row(d)
    <3>1. d # c /\ call'[d] = call[d] /\ call[d].at = "issuing"
      BY <1>2, <2>1 DEF Inside
    <3>2. QED
      BY <1>0, <1>2, <3>1, SameRequest DEF Inside
  <2>2. QED
    BY <1>a, <2>1
<1>3. ASSUME NEW m \in Machine, NEW t \in Token, NEW c \in Call, Post(m, t, c)
      PROVE  Reserved'
  <2>1. /\ \A k \in 1..Len(asked) : asked'[k] = asked[k]
        /\ Len(asked) \in Nat
    BY <1>0, <1>3, Posted DEF Typed
  <2>2. Send(c, Len(asked) + 1) /\ token' = token
    BY <1>3 DEF Post, database
  <2>3. Len(asked) + 1 \in Nat
    BY <2>1
  <2>4. ~Inside(c)' /\ \A d \in Call : d # c => call'[d] = call[d]
    BY <2>2, <2>3, AskFlow
  <2>5. QED
    BY <1>2, <2>1, <2>2, <2>4
<1>4. ASSUME NEW m \in Machine, NEW c \in Call, Resend(m, c)
      PROVE  Reserved'
  <2>1. Send(c, agent[m]) /\ token' = token /\ asked' = asked
    BY <1>4 DEF Resend, database
  <2>2. agent[m] \in Nat
    BY <1>0 DEF Typed, TypeOK
  <2>3. ~Inside(c)' /\ \A d \in Call : d # c => call'[d] = call[d]
    BY <2>1, <2>2, AskFlow
  <2>4. QED
    BY <1>2, <2>1, <2>3
<1>5. ASSUME NEW c \in Call, Reply(c) PROVE Reserved'
  <2>1. call' = [call EXCEPT ![c] = Idle] /\ token' = token /\ asked' = asked
    BY <1>5 DEF Reply, database
  <2>2. ~Inside(c)' /\ \A d \in Call : d # c => call'[d] = call[d]
    BY <1>0, <2>1, Parts DEF Typed, CallsTyped, Idle, Inside
  <2>3. QED
    BY <1>2, <2>1, <2>2
<1>6. ASSUME NEW c \in Call, NEW x \in Cert, Again(c, x) PROVE Reserved'
  <2>1. token' = token /\ asked' = asked /\ call[c].at # "idle" /\ Hand(c, x)
    BY <1>6 DEF Again, machines, database
  <2>2. ~Inside(c)' /\ \A d \in Call : d # c => call'[d] = call[d]
    BY <1>0, <2>1, Handed
  <2>3. QED
    BY <1>2, <2>1, <2>2
<1>7. ASSUME NEW c \in Call, Quiet(c) PROVE Reserved'
  <2>1. token' = token /\ asked' = asked /\ Step(c)
    BY <1>7 DEF Quiet, machines, database
  <2>2. ASSUME NEW d \in Call, d # c, Inside(d)'
        PROVE  Inside(d) /\ Request(d)' = Request(d) /\ Row(d)' = Row(d)
    BY <2>1, <2>2 DEF Step, Inside, Request, Row
  <2>3. CASE ~Inside(c)'
    <3>1. ~Inside(c)' /\ \A d \in Call : d # c => call'[d] = call[d]
      BY <2>1, <2>3 DEF Step, Inside
    <3>2. QED
      BY <1>2, <2>1, <3>1
  <2>4. CASE Inside(c)'
    <3>1. /\ Row(c) = Open /\ Row(c)' = Row(c) /\ Request(c)' = Request(c)
          /\ \A d \in Call : Inside(d) => Request(d).token # Request(c).token
      BY <1>7, <2>1, <2>4 DEF Quiet, MayLock, Step, Request, Row
    <3>2. ASSUME NEW d \in Call, Inside(d)' PROVE Row(d)' = Open
      BY <1>0, <2>2, <3>1, <3>2 DEF Reserved, Open
    <3>3. ASSUME NEW d \in Call, NEW e \in Call, Inside(d)', Inside(e)', e # d
          PROVE  Request(e)'.token # Request(d)'.token
      BY <1>0, <2>2, <3>1, <3>3 DEF Reserved
    <3>4. QED
      BY <3>2, <3>3 DEF Reserved, Open
  <2>5. QED
    BY <2>3, <2>4
<1>8. ASSUME NEW c \in Call, Commit(c) PROVE Reserved'
  <2>1. /\ \A u \in Token : u # Request(c).token => token'[u] = token[u]
        /\ Hand(c, [key |-> call[c].key, principal |-> Len(principals) + 1])
        /\ [key |-> call[c].key, principal |-> Len(principals) + 1] \in Cert
        /\ asked' = asked /\ call[c].at = "issuing"
    BY <1>8, Committed DEF machines, Commit
  <2>2. ~Inside(c)' /\ \A d \in Call : d # c => call'[d] = call[d]
    BY <1>0, <2>1, Handed
  <2>3. ASSUME NEW d \in Call, Inside(d)'
        PROVE  Inside(d) /\ Request(d)' = Request(d) /\ Row(d)' = Row(d)
    <3>1. d # c /\ call'[d] = call[d] /\ call[d].at = "issuing"
      BY <2>2, <2>3 DEF Inside
    <3>2. Request(d).token # Request(c).token /\ Request(d).token \in Token
      BY <1>0, <2>1, <3>1, Asking DEF Reserved, Inside
    <3>3. QED
      BY <1>0, <2>1, <3>1, <3>2, SameRequest DEF Inside
  <2>4. QED
    BY <1>a, <2>3
<1>9. QED
  BY <1>1, <1>3, <1>4, <1>5, <1>6, <1>7, <1>8, Steps

(* Only a commit writes tokens and principals.                             *)
LEMMA OneWriter ==
  ASSUME EnrollInv, [Next]_vars
  PROVE  UNCHANGED <<token, principals>> \/ \E c \in Call : Commit(c)
<1>1. Apart => UNCHANGED <<token, principals>>
  BY ApartFlow
<1>2. QED
  BY <1>1, Steps DEF Post, Resend, Reply, Quiet, Again, database

LEMMA WholeStep == EnrollInv /\ [Next]_vars => Completed' /\ Whole'
<1> SUFFICES ASSUME EnrollInv, [Next]_vars PROVE Completed' /\ Whole'
  OBVIOUS
<1>0. Completed /\ Whole
  BY DEF EnrollInv
<1>1. CASE UNCHANGED <<token, principals>>
  BY <1>0, <1>1 DEF Completed, Whole
<1>2. ASSUME NEW c \in Call, Commit(c) PROVE Completed' /\ Whole'
  <2> DEFINE n == Len(principals) + 1
             t == Request(c).token
  <2>1. /\ t \in Token /\ Len(principals) \in Nat /\ Len(principals') = n
        /\ \A p \in 1..Len(principals) : principals'[p] = principals[p]
        /\ principals'[n] = Request(c).id /\ token[t] = Open
        /\ token'[t] = [key |-> call[c].key, id |-> Request(c).id, principal |-> n]
        /\ \A u \in Token : u # t => token'[u] = token[u]
    <3>1. Len(principals) \in Nat
      BY DEF EnrollInv, Typed, TypeOK
    <3>2. QED
      BY <1>2, <3>1, Committed DEF Row
  <2>2. \A p \in 1..Len(principals) : principals[p] # Request(c).id
    BY <1>2 DEF Commit, Insertable, Unknown
  <2>3. token'[t].principal = n /\ token'[t].id = Request(c).id /\ token[t].principal = 0
    BY <2>1 DEF Open
  <2> HIDE DEF t
  <2>4. Completed'
    <3> SUFFICES ASSUME NEW u \in Token, token'[u] # Open
                 PROVE  /\ token'[u].principal \in 1..Len(principals')
                        /\ principals'[token'[u].principal] = token'[u].id
      BY DEF Completed, Open
    <3>1. CASE u = t
      BY <2>1, <2>3, <3>1
    <3>2. CASE u # t
      <4>1. token'[u] = token[u] /\ token[u].principal \in 1..Len(principals)
            /\ principals[token[u].principal] = token[u].id
        BY <1>0, <2>1, <3>2 DEF Completed
      <4>2. QED
        BY <2>1, <4>1
    <3>3. QED
      BY <3>1, <3>2
  <2>5. \A p, q \in 1..Len(principals') : principals'[p] = principals'[q] => p = q
    <3>1. \A p \in 1..n : p \in 1..Len(principals) \/ p = n
      BY <2>1
    <3>2. QED
      BY <1>0, <2>1, <2>2, <3>1 DEF Whole
  <2>6. ASSUME NEW p \in 1..Len(principals')
        PROVE  \E u \in Token : token'[u].principal = p /\ token'[u].id = principals'[p]
    <3>1. CASE p = n
      BY <2>1, <2>3, <3>1
    <3>2. CASE p \in 1..Len(principals)
      <4>1. PICK u \in Token : token[u].principal = p /\ token[u].id = principals[p]
        BY <1>0, <3>2 DEF Whole
      <4>2. u # t
        BY <2>3, <3>2, <4>1
      <4>3. QED
        BY <2>1, <3>2, <4>1, <4>2
    <3>3. QED
      BY <2>1, <3>1, <3>2
  <2>7. ASSUME NEW u \in Token, NEW v \in Token, token'[u] # Open,
               token'[u].principal = token'[v].principal
        PROVE  u = v
    <3>1. ASSUME NEW w \in Token, w # t PROVE token'[w].principal # n
      <4>1. CASE token[w] = Open
        BY <2>1, <3>1, <4>1 DEF Open
      <4>2. CASE token[w] # Open
        BY <1>0, <2>1, <3>1, <4>2 DEF Completed
      <4>3. QED
        BY <4>1, <4>2
    <3>2. QED
      BY <1>0, <2>1, <2>3, <2>7, <3>1 DEF Whole
  <2>8. QED
    BY <2>4, <2>5, <2>6, <2>7 DEF Whole, Open
<1>3. QED
  BY <1>1, <1>2, OneWriter

(* What was asked stays as it is.                                          *)
LEMMA AskedKept ==
  ASSUME EnrollInv, [Next]_vars
  PROVE  /\ Len(asked) \in Nat /\ Len(asked) <= Len(asked')
         /\ \A k \in 1..Len(asked) : asked'[k] = asked[k]
<1>1. Len(asked) \in Nat
  BY DEF EnrollInv, Typed, TypeOK
<1>2. ASSUME NEW m \in Machine, NEW t \in Token, NEW c \in Call, Post(m, t, c)
      PROVE  /\ Len(asked) <= Len(asked')
             /\ \A k \in 1..Len(asked) : asked'[k] = asked[k]
  <2>1. TypeOK
    BY DEF EnrollInv, Typed
  <2>2. Len(asked') = Len(asked) + 1 /\ \A k \in 1..Len(asked) : asked'[k] = asked[k]
    BY <1>2, <2>1, Posted
  <2>3. QED
    BY <1>1, <2>2
<1>3. Apart => asked' = asked
  BY ApartFlow
<1>4. ASSUME NEW c \in Call, Commit(c) PROVE asked' = asked
  BY <1>4 DEF Commit, machines
<1>5. QED
  BY <1>1, <1>2, <1>3, <1>4, Steps DEF Resend, Reply, Quiet, Again, machines

LEMMA AnsweredStep == EnrollInv /\ [Next]_vars => Answered' /\ Delivered'
<1> SUFFICES ASSUME EnrollInv, [Next]_vars PROVE Answered' /\ Delivered'
  OBVIOUS
<1>0. /\ Typed /\ Answered /\ Delivered /\ token \in [Token -> TokenRow]
      /\ asked \in Seq(Asked)
  BY DEF EnrollInv, Typed, TypeOK, TokenRow, Asked
<1>1. ASSUME UNCHANGED <<token, handed>> PROVE Answered'
  <2>1. ASSUME NEW x \in handed PROVE Tells(x)'
    <3>1. Tells(x) /\ x.key \in 1..Len(asked)
      BY <1>0 DEF Answered, Tells
    <3>2. asked'[x.key] = asked[x.key] /\ x.key \in 1..Len(asked')
      BY <3>1, AskedKept
    <3>3. QED
      BY <1>1, <3>1, <3>2 DEF Tells
  <2>2. QED
    BY <1>1, <2>1 DEF Answered
<1>2. ASSUME UNCHANGED handed, NEW c \in Call, call'[c].cert = None,
             \A d \in Call : d # c => call'[d] = call[d]
      PROVE  Delivered'
  BY <1>0, <1>2 DEF Delivered, None
<1>3. CASE Apart
  <2>1. UNCHANGED <<token, handed>> /\ (call' = call \/ call' = [c \in Call |-> Idle])
    BY <1>3, ApartFlow
  <2>2. Delivered'
    BY <1>0, <2>1 DEF Delivered, Idle, None
  <2>3. QED
    BY <1>1, <2>1, <2>2
<1>4. ASSUME NEW c \in Call, NEW k \in Nat, Send(c, k), UNCHANGED <<token, handed>>
      PROVE  Answered' /\ Delivered'
  <2>1. /\ call'[c] = [at |-> "loading", key |-> k, cert |-> None]
        /\ \A d \in Call : d # c => call'[d] = call[d]
    BY <1>4, AskFlow
  <2>2. call'[c].cert = None
    BY <2>1
  <2>3. QED
    BY <1>1, <1>2, <1>4, <2>1, <2>2
<1>5. ASSUME NEW m \in Machine, NEW t \in Token, NEW c \in Call, Post(m, t, c)
      PROVE  Answered' /\ Delivered'
  <2>1. Len(asked) + 1 \in Nat
    BY <1>0
  <2>2. QED
    BY <1>4, <1>5, <2>1 DEF Post, database
<1>6. ASSUME NEW m \in Machine, NEW c \in Call, Resend(m, c)
      PROVE  Answered' /\ Delivered'
  <2>1. agent[m] \in Nat
    BY <1>0 DEF Typed, TypeOK
  <2>2. QED
    BY <1>4, <1>6, <2>1 DEF Resend, database
<1>7. ASSUME NEW c \in Call, Reply(c) PROVE Answered' /\ Delivered'
  <2>1. call' = [call EXCEPT ![c] = Idle] /\ UNCHANGED <<token, handed>>
    BY <1>7 DEF Reply, database
  <2>2. call'[c].cert = None /\ \A d \in Call : d # c => call'[d] = call[d]
    BY <1>0, <2>1, Parts DEF Typed, CallsTyped, Idle
  <2>3. QED
    BY <1>1, <1>2, <2>1, <2>2
<1>8. ASSUME NEW c \in Call, Quiet(c) PROVE Answered' /\ Delivered'
  <2>1. UNCHANGED <<token, handed>> /\ Step(c)
    BY <1>8 DEF Quiet, database
  <2>2. Delivered'
    BY <1>0, <2>1 DEF Step, Delivered, None
  <2>3. QED
    BY <1>1, <2>1, <2>2
<1>9. ASSUME NEW c \in Call, NEW x \in Cert, call[c].at # "idle", Hand(c, x),
             asked' = asked, x.key = call[c].key, x.principal # 0,
             token'[Request(c).token] = [key |-> call[c].key, id |-> Request(c).id,
                                         principal |-> x.principal],
             \A h \in handed : Tells(h)'
      PROVE  Answered' /\ Delivered'
  <2> DEFINE h == [key |-> call[c].key, cert |-> x]
  <2>1. /\ call'[c] = [at |-> "answered", key |-> call[c].key, cert |-> x]
        /\ \A d \in Call : d # c => call'[d] = call[d]
        /\ handed' = handed \cup {h}
    BY <1>0, <1>9, Handed
  <2>2. call[c].key \in 1..Len(asked)
    BY <1>0, <1>9, Asking
  <2>3. h.key = call[c].key /\ h.cert = x
    OBVIOUS
  <2> HIDE DEF h
  <2>4. ASSUME NEW g, g = h PROVE Tells(g)'
    BY <1>9, <2>2, <2>3, <2>4 DEF Tells, Request
  <2>5. Answered'
    BY <1>9, <2>1, <2>4 DEF Answered
  <2>6. Delivered'
    BY <1>0, <2>1 DEF Delivered, None, h
  <2>7. QED
    BY <2>5, <2>6
<1>10. ASSUME NEW c \in Call, NEW x \in Cert, Again(c, x) PROVE Answered' /\ Delivered'
  <2>1. /\ token' = token /\ asked' = asked /\ call[c].at # "idle" /\ Hand(c, x)
        /\ x.key = call[c].key /\ x.principal # 0
        /\ token[Request(c).token] = [key |-> call[c].key, id |-> Request(c).id,
                                      principal |-> x.principal]
    BY <1>10 DEF Again, machines, database, Row, Cert
  <2>2. \A h \in handed : Tells(h)'
    BY <1>0, <2>1 DEF Answered, Tells
  <2>3. QED
    BY <1>9, <2>1, <2>2
<1>11. ASSUME NEW c \in Call, Commit(c) PROVE Answered' /\ Delivered'
  <2> DEFINE n == Len(principals) + 1
             t == Request(c).token
             x == [key |-> call[c].key, principal |-> n]
  <2>1. /\ n \in Nat \ {0} /\ x \in Cert /\ t \in Token /\ token[t] = Open
        /\ token'[t] = [key |-> call[c].key, id |-> Request(c).id, principal |-> n]
        /\ \A u \in Token : u # t => token'[u] = token[u]
        /\ Hand(c, x) /\ asked' = asked
    BY <1>11, Committed DEF Row, machines
  <2>2. ASSUME NEW h \in handed PROVE Tells(h)'
    <3>1. /\ h.key \in 1..Len(asked) /\ h.key # 0
          /\ token[asked[h.key].token].key = h.key
      <4>1. Tells(h)
        BY <1>0 DEF Answered
      <4>2. h.key \in 1..Len(asked)
        BY <4>1 DEF Tells
      <4>3. token[asked[h.key].token].key = h.key
        BY <4>1 DEF Tells
      <4>4. QED
        BY <1>0, <4>2, <4>3
    <3>2. asked[h.key] \in Asked
      BY <1>0, <3>1
    <3>3. asked[h.key].token # t /\ asked[h.key].token \in Token
      BY <2>1, <3>1, <3>2 DEF Open, Asked
    <3>4. QED
      BY <1>0, <2>1, <3>3 DEF Answered, Tells
  <2>3. call[c].at # "idle" /\ x.key = call[c].key /\ x.principal = n /\ n # 0
    BY <1>11, <2>1 DEF Commit
  <2>4. token'[t] = [key |-> call[c].key, id |-> Request(c).id, principal |-> x.principal]
    BY <2>1, <2>3
  <2> HIDE DEF x, n
  <2>5. QED
    BY <1>9, <2>1, <2>2, <2>3, <2>4
<1>12. QED
  BY <1>3, <1>5, <1>6, <1>7, <1>8, <1>10, <1>11, Steps

LEMMA IdentityStep == EnrollInv /\ [Next]_vars => Awaited' /\ Imported' /\ Recognised'
<1> SUFFICES ASSUME EnrollInv, [Next]_vars PROVE Awaited' /\ Imported' /\ Recognised'
  OBVIOUS
<1>0. /\ Typed /\ Awaited /\ Imported /\ Recognised /\ Len(principals) \in Nat
      /\ agent \in [Machine -> 0..Len(asked)] /\ certs \in [Machine -> SUBSET Cert]
      /\ registry \in [Machine -> Nat] /\ Len(asked) \in Nat
  BY DEF EnrollInv, Typed, TypeOK
<1>1. CASE Apart
  <2>1. /\ asked' = asked /\ principals' = principals
        /\ \A m \in Machine :
             /\ agent'[m] \in {0, agent[m]} /\ certs'[m] \subseteq certs[m]
             /\ \/ registry'[m] \in {0, registry[m]}
                \/ agent[m] = 0 /\ certs[m] = {}
    BY <1>1, ApartFlow
  <2>2. Awaited'
    BY <1>0, <2>1 DEF Awaited
  <2>3. Imported'
    BY <1>0, <2>1 DEF Imported
  <2>4. Recognised'
    BY <1>0, <2>1 DEF Recognised
  <2>5. QED
    BY <2>2, <2>3, <2>4
<1>2. ASSUME UNCHANGED <<registry, certs, principals>> PROVE Imported' /\ Recognised'
  BY <1>0, <1>2 DEF Imported, Recognised
<1>3. ASSUME UNCHANGED <<registry, agent, asked>> PROVE Awaited'
  BY <1>0, <1>3 DEF Awaited
<1>4. ASSUME NEW m \in Machine, NEW t \in Token, NEW c \in Call, Post(m, t, c)
      PROVE  Awaited' /\ Imported' /\ Recognised'
  <2>1. /\ \A k \in 1..Len(asked) : asked'[k] = asked[k]
        /\ asked'[Len(asked) + 1] = [machine |-> m, token |-> t, id |-> registry[m]]
    BY <1>0, <1>4, Posted DEF Typed
  <2>2. /\ agent' = [agent EXCEPT ![m] = Len(asked) + 1]
        /\ UNCHANGED <<registry, certs, principals>>
    BY <1>4 DEF Post, database
  <2>3. ASSUME NEW n \in Machine, agent'[n] # 0
        PROVE  asked'[agent'[n]].machine = n /\ registry'[n] \in {0, asked'[agent'[n]].id}
    <3>1. CASE n = m
      BY <1>0, <2>1, <2>2, <3>1
    <3>2. CASE n # m
      <4>1. agent'[n] = agent[n] /\ agent[n] \in 1..Len(asked)
        BY <1>0, <2>2, <2>3, <3>2
      <4>2. QED
        BY <1>0, <2>1, <2>2, <2>3, <4>1, SMTT(30) DEF Awaited
    <3>3. QED
      BY <3>1, <3>2
  <2>4. QED
    BY <1>2, <2>2, <2>3 DEF Awaited
<1>5. ASSUME NEW c \in Call, Reply(c) PROVE Awaited' /\ Imported' /\ Recognised'
  <2> DEFINE k == call[c].key
             m == asked[k].machine
             x == call[c].cert
  <2>1. /\ call[c].at # "idle" /\ UNCHANGED <<registry, asked, principals>>
        /\ \/ UNCHANGED <<agent, certs>>
           \/ /\ agent[m] = k /\ agent' = [agent EXCEPT ![m] = 0]
              /\ certs' = [certs EXCEPT ![m] = certs[m] \cup ({x} \ {None})]
    BY <1>5 DEF Reply, database
  <2>2. CASE UNCHANGED <<agent, certs>>
    BY <1>2, <1>3, <2>1, <2>2
  <2>3. CASE /\ agent[m] = k /\ agent' = [agent EXCEPT ![m] = 0]
             /\ certs' = [certs EXCEPT ![m] = certs[m] \cup ({x} \ {None})]
    <3>1. k \in 1..Len(asked) /\ m \in Machine /\ k # 0
      BY <1>0, <2>1, Asking, SMTT(30) DEF Asked, Request
    <3>2. registry[m] \in {0, asked[k].id}
      BY <1>0, <2>3, <3>1 DEF Awaited
    <3>3. ASSUME x # None
          PROVE  x.principal \in 1..Len(principals) /\ principals[x.principal] = asked[k].id
      <4>1. [key |-> k, cert |-> x] \in handed
        BY <3>3 DEF EnrollInv, Delivered
      <4>2. Tells([key |-> k, cert |-> x])
        BY <4>1 DEF EnrollInv, Answered
      <4>3. token[asked[k].token] = [key |-> k, id |-> asked[k].id, principal |-> x.principal]
        BY <4>2 DEF Tells
      <4>4. asked[k].token \in Token /\ token[asked[k].token] # Open
        BY <1>0, <2>1, <3>1, <4>3, Asking, SMTT(30) DEF Request, Open
      <4>5. token[asked[k].token].principal = x.principal /\ token[asked[k].token].id = asked[k].id
        BY <4>3
      <4>6. QED
        BY <4>4, <4>5, SMTT(30) DEF EnrollInv, Completed
    <3> HIDE DEF k, m, x
    <3>4. /\ \A n \in Machine : n # m => certs'[n] = certs[n] /\ agent'[n] = agent[n]
          /\ agent'[m] = 0 /\ \A y \in certs'[m] : y \in certs[m] \/ (y = x /\ x # None)
      BY <1>0, <2>3, <3>1
    <3>5. Awaited'
      BY <1>0, <2>1, <3>4 DEF Awaited
    <3>6. Imported'
      BY <1>0, <2>1, <3>3, <3>4 DEF Imported
    <3>7. Recognised'
      BY <1>0, <2>1, <3>2, <3>3, <3>4 DEF Recognised
    <3>8. QED
      BY <3>5, <3>6, <3>7
  <2>4. QED
    BY <2>1, <2>2, <2>3
<1>6. ASSUME NEW c \in Call, Commit(c) PROVE Awaited' /\ Imported' /\ Recognised'
  <2>1. /\ \A p \in 1..Len(principals) : principals'[p] = principals[p]
        /\ Len(principals') = Len(principals) + 1
        /\ UNCHANGED <<registry, certs, agent, asked>>
    BY <1>6, Committed DEF machines
  <2>2. Imported' /\ Recognised'
    BY <1>0, <2>1 DEF Imported, Recognised
  <2>3. QED
    BY <1>3, <2>1, <2>2
<1>7. ASSUME NEW m \in Machine, NEW c \in Call, Resend(m, c)
      PROVE  Awaited' /\ Imported' /\ Recognised'
  BY <1>2, <1>3, <1>7 DEF Resend, database
<1>8. ASSUME NEW c \in Call, Quiet(c) \/ \E x \in Cert : Again(c, x)
      PROVE  Awaited' /\ Imported' /\ Recognised'
  BY <1>2, <1>3, <1>8 DEF Quiet, Again, machines, database
<1>9. QED
  BY <1>1, <1>4, <1>5, <1>6, <1>7, <1>8, Steps

-----------------------------------------------------------------------------
(* The theorems.                                                           *)

LEMMA EnrollInvariant == Spec => []EnrollInv
<1>1. Init => EnrollInv
  <2> SUFFICES ASSUME Init PROVE EnrollInv
    OBVIOUS
  <2>1. <<>> \in Seq(Asked) /\ <<>> \in Seq(Nat) /\ Len(<<>>) = 0
    OBVIOUS
  <2>2. Typed
    BY <2>1, EnrollmentAssumption
    DEF Init, Typed, TypeOK, Active, Asked, Idle, Open
  <2>3. Reserved /\ Completed /\ Answered /\ Delivered /\ Awaited /\ Imported
    BY DEF Init, Reserved, Completed, Answered, Delivered, Awaited, Imported, Inside, Idle
  <2>4. Whole /\ Recognised
    BY <2>1 DEF Init, Whole, Recognised
  <2>5. QED
    BY <2>2, <2>3, <2>4 DEF EnrollInv
<1>2. EnrollInv /\ [Next]_vars => EnrollInv'
  BY TypeStep, ReservedStep, WholeStep, AnsweredStep, IdentityStep DEF EnrollInv
<1>3. QED
  BY <1>1, <1>2, PTL DEF Spec

(* Every variable keeps its type.                                          *)
THEOREM EnrollmentTypeCorrect == Spec => []TypeOK
<1>1. EnrollInv => TypeOK
  BY DEF EnrollInv, Typed
<1>2. QED
  BY <1>1, EnrollInvariant, PTL

(* Enrollments are whole, and a token's answers are one certificate.       *)
THEOREM EnrolledOnceAlways == Spec => []EnrolledOnce
<1>1. EnrollInv => OneCertificate
  <2> SUFFICES ASSUME EnrollInv PROVE OneCertificate
    OBVIOUS
  <2>1. token \in [Token -> TokenRow] /\ asked \in Seq(Asked)
        /\ handed \subseteq [key : 1..MaxKeys, cert : Cert]
    BY DEF EnrollInv, Typed, TypeOK, TokenRow, Asked
  <2>2. ASSUME NEW x \in handed
        PROVE  /\ x.cert.key = x.key /\ x.cert.principal \in 1..Len(principals)
               /\ principals[x.cert.principal] = asked[x.key].id
               /\ x.cert = [key |-> token[asked[x.key].token].key,
                            principal |-> token[asked[x.key].token].principal]
    <3>1. Tells(x) /\ x.key \in 1..Len(asked) /\ x.key # 0
      BY DEF EnrollInv, Answered, Tells
    <3>2. asked[x.key] \in Asked
      BY <2>1, <3>1
    <3>3. asked[x.key].token \in Token
      BY <3>2 DEF Asked
    <3>4. /\ token[asked[x.key].token].key = x.key
          /\ token[asked[x.key].token].id = asked[x.key].id
          /\ token[asked[x.key].token].principal = x.cert.principal
          /\ x.cert.key = x.key
      BY <3>1 DEF Tells
    <3>5. token[asked[x.key].token] # Open
      BY <3>1, <3>4 DEF Open
    <3>6. x.cert \in Cert
      BY <2>1
    <3>7. QED
      BY <3>3, <3>4, <3>5, <3>6 DEF EnrollInv, Completed, Cert
  <2>3. QED
    BY <2>2 DEF OneCertificate
<1>2. EnrollInv => EnrolledOnce
  BY <1>1 DEF EnrollInv, EnrolledOnce
<1>3. QED
  BY <1>2, EnrollInvariant, PTL

(* A machine keeps the identity that its certificate names.                *)
THEOREM RecognisedAlways == Spec => []Recognised
<1>1. EnrollInv => Recognised
  BY DEF EnrollInv
<1>2. QED
  BY <1>1, EnrollInvariant, PTL
=============================================================================
