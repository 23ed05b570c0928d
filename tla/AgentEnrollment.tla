-------------------------- MODULE AgentEnrollment --------------------------
(***************************************************************************)
(* How a desktop agent gets its identity: AgentEnrollmentService           *)
(* (security/agent_enrollment.py) behind POST /api/v1/agent/enroll, and    *)
(* the start of the agent (apps/desktop-agent/Program.cs) that asks it.    *)
(*                                                                         *)
(* A start of the agent makes a new key and posts one request for it, so   *)
(* the key (a number) names the request; `asked` tells what it said. On    *)
(* SQLite one transaction runs at a time; with row locks one per token.    *)
(* An installation id, too, is a number, and a principal is its place in   *)
(* `principals`. Whether a 403, a 409 or a 500 refuses makes no difference *)
(* to the agent, and none is made here.                                    *)
(***************************************************************************)
EXTENDS Naturals, Sequences, FiniteSets

CONSTANTS Machine,   \* computers with the agent installed
          Token,     \* enrollment tokens an administrator has issued
          Call,      \* requests the backend handles at a time
          MaxKeys,   \* bound on the starts of agents that make a key
          MaxResent, \* bound on requests sent again
          MaxFaults, \* bound on crashes, losses and expiries
          Faults     \* those that happen: "storage" is not bounded

ASSUME EnrollmentAssumption ==
  /\ MaxKeys \in Nat /\ MaxResent \in Nat /\ MaxFaults \in Nat
  /\ Faults \subseteq {"storage", "crash", "age", "registry", "certificate"}

VARIABLES
  registry,   \* MachineInstallationId of each machine, 0 if there is none
  certs,      \* the certificates in each machine's store
  agent,      \* the key for which a machine's agent awaits an answer, or 0
  asked,      \* machine, token and id that each key's request carries
  ids,        \* how many ids were generated
  resent,     \* how many requests were sent again
  serial,     \* the database is SQLite
  call,       \* the calls of enroll()
  token,      \* the rows of the tokens
  expired,    \* tokens past expires_at
  principals, \* machine_installation_id of each AGENT principal
  lapsed,     \* principals whose certificate is past its end
  handed,     \* history: the certificates answered
  faults      \* how many faults there were

machines == <<registry, certs, agent, asked, ids, resent>>
database == <<token, principals>>
vars == <<machines, serial, call, database, expired, lapsed, handed, faults>>

Cert == [key : 1..MaxKeys, principal : Nat \ {0}]
None == [key |-> 0, principal |-> 0]
Idle == [at |-> "idle", key |-> 0, cert |-> None]
Open == [key |-> 0, id |-> 0, principal |-> 0]

TypeOK ==
  /\ registry \in [Machine -> Nat] /\ ids \in Nat
  /\ certs \in [Machine -> SUBSET Cert]
  /\ asked \in Seq([machine : Machine, token : Token, id : Nat])
  /\ Len(asked) <= MaxKeys
  /\ agent \in [Machine -> 0..Len(asked)]
  /\ resent \in 0..MaxResent /\ serial \in BOOLEAN
  /\ call \in [Call -> [at : {"idle", "loading", "ready", "issuing", "again",
                              "answered"},
                        key : 0..Len(asked), cert : Cert \cup {None}]]
  /\ token \in [Token -> [key : 0..MaxKeys, id : Nat, principal : Nat]]
  /\ expired \subseteq Token /\ principals \in Seq(Nat) /\ lapsed \subseteq Nat
  /\ handed \subseteq [key : 1..MaxKeys, cert : Cert]
  /\ faults \in 0..MaxFaults

Init ==
  /\ registry = [m \in Machine |-> 0] /\ ids = 0
  /\ certs = [m \in Machine |-> {}] /\ agent = [m \in Machine |-> 0]
  /\ asked = <<>> /\ resent = 0 /\ serial \in BOOLEAN
  /\ call = [c \in Call |-> Idle]
  /\ token = [t \in Token |-> Open] /\ expired = {}
  /\ principals = <<>> /\ lapsed = {} /\ handed = {} /\ faults = 0

-----------------------------------------------------------------------------
(* The agent (Program.cs)                                                  *)

Valid(m) == {x \in certs[m] : x.principal \notin lapsed}

\* Mutation: only a certificate that is still valid tells of an enrollment.
NoneValid(m) == Valid(m) = {}
\* AnyKortexCertificateExists is false: the machine was never enrolled.
NeverEnrolled(m) == certs[m] = {}

\* ResolveOrCreate writes a new id, unless a certificate says that there was
\* one. The start may end here.
Identify(m) ==
  /\ agent[m] = 0 /\ registry[m] = 0 /\ NeverEnrolled(m)
  /\ ids' = ids + 1
  /\ registry' = [registry EXCEPT ![m] = ids + 1]
  /\ UNCHANGED <<certs, agent, asked, resent, serial, call, database, expired,
                 lapsed, handed, faults>>

Send(c, k) == call[c] = Idle /\ call' = [call EXCEPT ![c] =
                [at |-> "loading", key |-> k, cert |-> None]]

\* EnrollAsync: no valid certificate, an id, and a token on the command line.
Post(m, t, c) ==
  /\ agent[m] = 0 /\ registry[m] # 0 /\ Valid(m) = {} /\ Len(asked) < MaxKeys
  /\ asked' = Append(asked, [machine |-> m, token |-> t, id |-> registry[m]])
  /\ agent' = [agent EXCEPT ![m] = Len(asked) + 1]
  /\ Send(c, Len(asked) + 1)
  /\ UNCHANGED <<registry, certs, ids, resent, serial, database, expired,
                 lapsed, handed, faults>>

\* A client that keeps its key asks again (this agent never does).
Resend(m, c) ==
  /\ agent[m] # 0 /\ resent < MaxResent
  /\ resent' = resent + 1 /\ Send(c, agent[m])
  /\ UNCHANGED <<registry, certs, agent, asked, ids, serial, database, expired,
                 lapsed, handed, faults>>

\* Thirty seconds have passed, the connection broke, the import failed or the
\* service was stopped: the agent exits, and the key goes with it.
GiveUp(m) ==
  /\ agent[m] # 0 /\ agent' = [agent EXCEPT ![m] = 0]
  /\ UNCHANGED <<registry, certs, asked, ids, resent, serial, call, database,
                 expired, lapsed, handed, faults>>

\* The response arrives: a certificate is imported, anything else is fatal.
Reply(c) ==
  LET k == call[c].key
      m == asked[k].machine IN
  /\ call[c].at = "answered" /\ call' = [call EXCEPT ![c] = Idle]
  /\ IF agent[m] = k
     THEN /\ agent' = [agent EXCEPT ![m] = 0]
          /\ certs' = [certs EXCEPT ![m] = @ \cup ({call[c].cert} \ {None})]
     ELSE UNCHANGED <<agent, certs>>
  /\ UNCHANGED <<registry, asked, ids, resent, serial, database, expired,
                 lapsed, handed, faults>>

-----------------------------------------------------------------------------
(* AgentEnrollmentService.enroll                                           *)

Request(c) == asked[call[c].key]
Row(c) == token[Request(c).token]

\* Mutation: the transaction is opened before the CA is loaded.
OpensEarly(c) == call[c].at \in {"loading", "issuing"}
\* The calls that are inside a transaction.
Inside(c) == call[c].at = "issuing"
\* A transaction of call c on its token's row may begin.
MayLock(c) == \A d \in Call : Inside(d) =>
                ~serial /\ Request(d).token # Request(c).token

Move(c, at) == call' = [call EXCEPT ![c].at = at]
Answer(c, x) == call' = [call EXCEPT ![c].at = "answered", ![c].cert = x]
Refuse(c) == Answer(c, None) /\ UNCHANGED handed
Hand(c, x) == Answer(c, x) /\ handed' = handed \cup {[key |-> call[c].key, cert |-> x]}

\* load_ca_material: a transaction of its own.
Load(c) ==
  /\ call[c].at = "loading" /\ (serial => \A d \in Call : ~Inside(d))
  /\ Move(c, "ready")
  /\ UNCHANGED <<machines, serial, database, expired, lapsed, handed, faults>>

\* Mutation: the CSR is not compared.
SameMachine(c) == Row(c).id = Request(c).id
\* The request is the one that completed the enrollment.
Same(c) == Row(c).key = call[c].key /\ Row(c).id = Request(c).id

\* _replay_or_refuse, whatever the token's age.
ReplayOrRefuse(c) ==
  IF Same(c) THEN Hand(c, [key |-> Row(c).key, principal |-> Row(c).principal])
  ELSE Refuse(c)

\* No agent has this id, as far as committed rows tell.
Unknown(id) == \A p \in 1..Len(principals) : principals[p] # id

\* _enroll_in_transaction up to the signature: the token's row is locked, and
\* the request replayed, refused, or taken on.
Enroll(c) ==
  /\ call[c].at = "ready" /\ MayLock(c)
  /\ \/ Row(c) # Open /\ ReplayOrRefuse(c)
     \/ /\ Row(c) = Open
        /\ Request(c).token \in expired \/ ~Unknown(Request(c).id)
        /\ Refuse(c)
     \/ /\ Row(c) = Open
        /\ Request(c).token \notin expired /\ Unknown(Request(c).id)
        /\ Move(c, "issuing") /\ UNCHANGED handed
  /\ UNCHANGED <<machines, serial, database, expired, lapsed, faults>>

\* Mutation: nothing but the look before.
Unchecked(c) == TRUE
\* uq_security_principals_machine_id lets the row in.
Insertable(c) == Unknown(Request(c).id)

\* The principal, the certificate and the token's row are committed at once, ...
Commit(c) ==
  /\ call[c].at = "issuing" /\ Insertable(c)
  /\ principals' = Append(principals, Request(c).id)
  /\ token' = [token EXCEPT ![Request(c).token] =
                 [key |-> call[c].key, id |-> Request(c).id,
                  principal |-> Len(principals) + 1]]
  /\ Hand(c, [key |-> call[c].key, principal |-> Len(principals) + 1])
  /\ UNCHANGED <<machines, serial, expired, lapsed, faults>>

\* ... or nothing is, and the request is looked at again.
Violate(c) ==
  /\ call[c].at = "issuing" /\ ~Insertable(c)
  /\ Move(c, "again")
  /\ UNCHANGED <<machines, serial, database, expired, lapsed, handed, faults>>

\* _replay_completed_enrollment.
Replay(c) ==
  /\ call[c].at = "again" /\ MayLock(c)
  /\ IF Row(c) # Open THEN ReplayOrRefuse(c) ELSE Refuse(c)
  /\ UNCHANGED <<machines, serial, database, expired, lapsed, faults>>

\* The CA, the CSR or the database fails the call; nothing is committed.
Fail(c) ==
  /\ "storage" \in Faults /\ call[c].at \in {"loading", "ready", "issuing", "again"}
  /\ Refuse(c)
  /\ UNCHANGED <<machines, serial, database, expired, lapsed, faults>>

-----------------------------------------------------------------------------
Fault(kind) == kind \in Faults /\ faults < MaxFaults /\ faults' = faults + 1

\* The backend dies; its calls end without an answer.
Crash ==
  /\ Fault("crash") /\ call' = [c \in Call |-> Idle]
  /\ UNCHANGED <<machines, serial, database, expired, lapsed, handed>>

\* A token, or the certificate of an agent, reaches its end.
Expire(t) ==
  /\ Fault("age") /\ t \notin expired /\ expired' = expired \cup {t}
  /\ UNCHANGED <<machines, serial, call, database, lapsed, handed>>
Lapse(p) ==
  /\ p \notin lapsed /\ lapsed' = lapsed \cup {p}
  /\ UNCHANGED <<machines, serial, call, database, expired, handed, faults>>

\* Somebody removes the id from the registry, or the certificates.
LoseId(m) ==
  /\ Fault("registry") /\ registry[m] # 0
  /\ registry' = [registry EXCEPT ![m] = 0]
  /\ UNCHANGED <<certs, agent, asked, ids, resent, serial, call, database,
                 expired, lapsed, handed>>
LoseCertificates(m) ==
  /\ Fault("certificate") /\ certs[m] # {}
  /\ certs' = [certs EXCEPT ![m] = {}]
  /\ UNCHANGED <<registry, agent, asked, ids, resent, serial, call, database,
                 expired, lapsed, handed>>

Serve(c) ==
  Load(c) \/ Enroll(c) \/ Commit(c) \/ Violate(c) \/ Replay(c) \/ Reply(c)

AgentStep(m) ==
  \/ Identify(m) \/ GiveUp(m) \/ LoseId(m) \/ LoseCertificates(m)
  \/ \E c \in Call : Resend(m, c) \/ \E t \in Token : Post(m, t, c)

Next ==
  \/ \E m \in Machine : AgentStep(m)
  \/ \E c \in Call : Serve(c) \/ Fail(c)
  \/ Crash \/ \E t \in Token : Expire(t)
  \/ \E p \in 1..Len(principals) : Lapse(p)

Spec == Init /\ [][Next]_vars

\* The backend goes on with its calls: asyncio's lock and the row locks are
\* granted in the order in which they were asked for.
FairSpec == Spec /\ \A c \in Call : WF_vars(Serve(c))

-----------------------------------------------------------------------------
\* Committed enrollments are whole: there is one principal for an installation
\* id, and one completed token for a principal, which agree on the id, whoever
\* else enrolls with the same token or the same id at the same time.
Whole ==
  /\ \A p, q \in 1..Len(principals) : principals[p] = principals[q] => p = q
  /\ \A p \in 1..Len(principals) :
       \E t \in Token : token[t].principal = p /\ token[t].id = principals[p]
  /\ \A t, u \in Token :
       token[t] # Open /\ token[t].principal = token[u].principal => t = u

\* Whoever is answered with a certificate can use it, and all answers to one
\* token are the same: the key is the asker's, the principal the one with the
\* asker's id, and a token never yields two.
OneCertificate ==
  /\ \A x \in handed :
       /\ x.cert.key = x.key
       /\ x.cert.principal \in 1..Len(principals)
       /\ principals[x.cert.principal] = asked[x.key].id
  /\ \A x, y \in handed : asked[x.key].token = asked[y.key].token => x.cert = y.cert

\* What is committed and what is answered are one enrollment for each token.
EnrolledOnce == Whole /\ OneCertificate

\* A machine keeps its identity: as long as it has a certificate, be it past
\* its end, it reports the installation id of the principal that the
\* certificate names, or has lost the id, and starts no more. The gateway,
\* which compares the two, lets it in, and it never enrolls as another agent.
\* Ids and certificates may get lost at any time, an answer may be late.
Recognised ==
  \A m \in Machine : \A x \in certs[m] :
    registry[m] # 0 => principals[x.principal] = registry[m]

\* Every request is answered, or its backend dies: neither the locks nor the
\* second look at the database make a call wait for ever.
AnswerComes == \A c \in Call : call[c].at # "idle" ~> call[c].at = "idle"
=============================================================================
