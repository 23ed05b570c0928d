--------------------------- MODULE DesktopGateway ---------------------------
(***************************************************************************)
(* Commands to desktop agents: AgentGatewayEngine and its servicer         *)
(* (agent_gateway/engine.py) under the kortex.desktop.* handlers, and the  *)
(* agent at the other end of the stream (apps/desktop-agent).              *)
(*                                                                         *)
(* A session is one stream of one agent. Its loop reads what the agent     *)
(* sends, pushes what handlers queue and ends when the monitor revoked it. *)
(* The rows of principals are read in transactions, so authorisation and   *)
(* the monitor's sweep act on answers that may be stale. The agent has one *)
(* worker thread which outlives its sessions.                              *)
(***************************************************************************)
EXTENDS Naturals, Sequences, FiniteSets, SequencesExt

CONSTANTS Agent,       \* agents with a valid certificate
          Tenant, TenantOf, \* the tenant of each principal
          Anyone,      \* a call that names no agent_id
          Command,     \* the calls of send_desktop_command
          MaxSessions, \* bound on the connections that agents make
          MaxToggles,  \* bound on administrators' changes of `enabled`
          Faults       \* "storage": a read fails, "network": a stream breaks

ASSUME GatewayAssumption ==
  /\ Anyone \notin Agent /\ "status" \notin Command /\ Tenant # {}
  /\ TenantOf \in [Agent -> Tenant]
  /\ MaxSessions \in Nat \ {0} /\ MaxToggles \in Nat
  /\ Faults \subseteq {"storage", "network"}

VARIABLES
  enabled, \* PrincipalRecord.enabled, and how often it was changed
  toggles,
  session, \* every stream there has been
  monitor, \* the lifecycle monitor: where it is, whom it asked about, the answer
  up,      \* is the gateway serving?
  call,    \* the calls of send_desktop_command
  link,    \* the stream an agent believes it is on, 0 for none
  alive,   \* is the agent's service running?
  work,    \* the queue of the agent's worker thread
  sent,    \* history: the accepted calls, in order
  did,     \* history: the commands the agents ran, in order
  late     \* history: calls accepted by a session revoked before

gateway == <<session, monitor, up>>
desktop == <<link, alive, work>>
history == <<sent, did, late>>
vars == <<enabled, toggles, gateway, call, desktop, history>>

Session == 1..MaxSessions
Unused == [of |-> Anyone, at |-> "unused", code |-> "none", confirmed |-> FALSE,
           revoked |-> FALSE, inbound |-> <<>>, outbound |-> <<>>]
Awaited(k) == call[k].at = "waiting"

Open == {s \in Session : session[s].at = "open"}  \* _sessions
Agents(S) == {session[s].of : s \in S}

TypeOK ==
  /\ enabled \in [Agent -> BOOLEAN] /\ toggles \in 0..MaxToggles
  /\ session \in [Session -> [of : Agent \cup {Anyone},
       at : {"unused", "asked", "granted", "open", "closed"},
       code : {"none", "unauthenticated", "other"}, confirmed : BOOLEAN,
       revoked : BOOLEAN, inbound : Seq(Command \cup {"status"}), outbound : Seq(Command)]]
  /\ monitor \in [at : {"sleep", "asking", "told"}, asked : SUBSET Agent,
                  still : SUBSET Agent]
  /\ up \in BOOLEAN
  /\ call \in [Command -> [at : {"idle", "waiting", "done"}, tenant : Tenant,
       to : Agent \cup {Anyone}, on : Session \cup {0},
       future : {"pending", "result", "gone"},
       outcome : {"none", "result", "gone", "timeout", "unavailable", "ambiguous"}]]
  /\ link \in [Agent -> Session \cup {0}] /\ alive \in [Agent -> BOOLEAN]
  /\ work \in [Agent -> Seq(Command \X Session)]
  /\ sent \in Seq(Command) /\ did \in Seq(Command)
  /\ late \subseteq Command

-----------------------------------------------------------------------------
\* The agent connects and writes its status at once.
Connect(a) ==
  /\ up /\ alive[a] /\ link[a] = 0
  /\ \E s \in Session :
       /\ session[s].at = "unused" /\ \A r \in 1..(s - 1) : session[r].at # "unused"
       /\ session' = [session EXCEPT ![s] =
            [Unused EXCEPT !.of = a, !.at = "asked", !.inbound = <<"status">>]]
       /\ link' = [link EXCEPT ![a] = s]
  /\ UNCHANGED <<enabled, toggles, monitor, up, call, alive, work, history>>

\* The session ends: Connect's finally takes it out of _sessions and fails
\* every command that still waits for it.
EndSession(s, code) == [session EXCEPT ![s].at = "closed", ![s].code = code]
\* Mutation: no caller is told.
FailNone(s) == call
FailPending(s) ==
  [k \in Command |-> IF Awaited(k) /\ call[k].on = s /\ call[k].future = "pending"
                  THEN [call[k] EXCEPT !.future = "gone"] ELSE call[k]]

Close(s, code) ==
  /\ session' = EndSession(s, code)
  /\ call' = FailPending(s)

\* AgentSessionAuthorizer.authorize reads the principal: it may go on, is
\* refused, or the read fails and the agent is told to come again.
Authorize(s) ==
  /\ session[s].at = "asked"
  /\ \/ /\ enabled[session[s].of]
        /\ session' = [session EXCEPT ![s].at = "granted"]
     \/ /\ ~enabled[session[s].of]
        /\ session' = EndSession(s, "unauthenticated")
     \/ /\ "storage" \in Faults
        /\ session' = EndSession(s, "other")
  /\ UNCHANGED <<enabled, toggles, monitor, up, call, desktop, history>>

\* Connect resumes with the answer and enters the session in _sessions.
Establish(s) ==
  /\ session[s].at = "granted"
  /\ session' = [session EXCEPT ![s].at = "open"]
  /\ UNCHANGED <<enabled, toggles, monitor, up, call, desktop, history>>

\* What waits for the loop of session s: all its sources are looked at, and a
\* revocation goes before the rest.
\* Mutation: revocation waits its turn.
Served(s) == s \in Open
Serving(s) == s \in Open /\ ~session[s].revoked

\* The loop pushes a queued command. The agent hands it to its worker when
\* it reads it, if it still is on this stream.
Push(s) ==
  /\ Serving(s) /\ session[s].outbound # <<>>
  /\ LET a == session[s].of
         k == Head(session[s].outbound) IN
     work' = IF link[a] = s THEN [work EXCEPT ![a] = Append(@, <<k, s>>)] ELSE work
  /\ session' = [session EXCEPT ![s].outbound = Tail(@)]
  /\ UNCHANGED <<enabled, toggles, monitor, up, call, link, alive, history>>

\* The loop reads a status: it must come from the machine that was enrolled.
ReceiveStatus(s) ==
  /\ Serving(s)
  /\ session[s].inbound # <<>> /\ Head(session[s].inbound) = "status"
  /\ \/ /\ session' = [session EXCEPT ![s].confirmed = TRUE, ![s].inbound = Tail(@)]
        /\ UNCHANGED call
     \/ Close(s, "unauthenticated")
  /\ UNCHANGED <<enabled, toggles, monitor, up, desktop, history>>

\* The loop reads a result and gives it to the call that waits for this
\* very command; a result nobody waits for is dropped.
\* Mutation: a wildcard match.
ResolvedAny(s, k) ==
  [j \in Command |-> IF Awaited(j) /\ call[j].on = s /\ call[j].future = "pending"
                  THEN [call[j] EXCEPT !.future = "result"] ELSE call[j]]
Resolved(s, k) ==
  IF Awaited(k) /\ call[k].on = s /\ call[k].future = "pending"
  THEN [call EXCEPT ![k].future = "result"] ELSE call

ReceiveResult(s) ==
  /\ Serving(s)
  /\ session[s].inbound # <<>> /\ Head(session[s].inbound) \in Command
  /\ IF session[s].confirmed
     THEN /\ session' = [session EXCEPT ![s].inbound = Tail(@)]
          /\ call' = Resolved(s, Head(session[s].inbound))
     ELSE Close(s, "unauthenticated")
  /\ UNCHANGED <<enabled, toggles, monitor, up, desktop, history>>

\* The loop sees its revocation before anything else.
Sever(s) ==
  /\ s \in Open /\ session[s].revoked
  /\ Close(s, "unauthenticated")
  /\ UNCHANGED <<enabled, toggles, monitor, up, desktop, history>>

\* The stream is gone or cancelled: the agent left, the network failed, or
\* the server stops.
Hangup(s) ==
  /\ session[s].at \in {"asked", "granted", "open"}
  /\ link[session[s].of] # s \/ ~up \/ "network" \in Faults
  /\ Close(s, "other")
  /\ UNCHANGED <<enabled, toggles, monitor, up, desktop, history>>

-----------------------------------------------------------------------------
\* revoke_disabled_sessions: whom to ask about,
SweepStart ==
  /\ up /\ monitor.at = "sleep" /\ Open # {}
  /\ monitor' = [at |-> "asking", asked |-> Agents(Open), still |-> {}]
  /\ UNCHANGED <<enabled, toggles, session, up, call, desktop, history>>

\* the transaction,
SweepRead ==
  /\ monitor.at = "asking"
  /\ monitor' = [monitor EXCEPT !.at = "told", !.still = {a \in monitor.asked : enabled[a]}]
  /\ UNCHANGED <<enabled, toggles, session, up, call, desktop, history>>

\* which may fail: the monitor logs that and sleeps,
Asleep == [at |-> "sleep", asked |-> {}, still |-> {}]
SweepFails ==
  /\ monitor.at = "asking" /\ "storage" \in Faults
  /\ monitor' = Asleep
  /\ UNCHANGED <<enabled, toggles, session, up, call, desktop, history>>

\* and the sessions there are by then: those not in the answer are revoked.
SweepApply ==
  /\ monitor.at = "told"
  /\ session' = [s \in Session |->
       IF s \in Open /\ session[s].of \notin monitor.still
       THEN [session[s] EXCEPT !.revoked = TRUE] ELSE session[s]]
  /\ monitor' = Asleep
  /\ UNCHANGED <<enabled, toggles, up, call, desktop, history>>

\* An administrator disables, deletes or restores a principal.
Toggle(a) ==
  /\ toggles < MaxToggles
  /\ toggles' = toggles + 1
  /\ enabled' = [enabled EXCEPT ![a] = ~@]
  /\ UNCHANGED <<gateway, call, desktop, history>>

\* stop() cancels the monitor and makes the server drop every stream.
Stop ==
  /\ up /\ up' = FALSE
  /\ monitor' = Asleep
  /\ UNCHANGED <<enabled, toggles, session, call, desktop, history>>

-----------------------------------------------------------------------------
\* send_desktop_command: exactly one session must fit. Queueing the command
\* and its future takes no await.
Fits(s, t, to) ==
  /\ session[s].confirmed
  /\ TenantOf[session[s].of] = t
  /\ to = Anyone \/ session[s].of = to
Candidates(t, to) == {s \in Open : Fits(s, t, to)}

Refused(k, t, to, why) ==
  /\ call' = [call EXCEPT ![k] = [@ EXCEPT !.at = "done", !.tenant = t, !.to = to, !.outcome = why]]
  /\ UNCHANGED <<enabled, toggles, gateway, desktop, history>>

\* Mutation: commands are queued in front.
EnqueueFirst(q, k) == <<k>> \o q
Enqueue(q, k) == Append(q, k)

Accepted(k, t, to, s) ==
  /\ call' = [call EXCEPT ![k] = [@ EXCEPT !.at = "waiting", !.tenant = t, !.to = to, !.on = s]]
  /\ session' = [session EXCEPT ![s].outbound = Enqueue(@, k)]
  /\ sent' = Append(sent, k)
  /\ late' = IF session[s].revoked THEN late \cup {k} ELSE late
  /\ UNCHANGED <<enabled, toggles, monitor, up, desktop, did>>

Send(k) ==
  /\ call[k].at = "idle"
  /\ \E t \in Tenant, to \in Agent \cup {Anyone} :
       LET C == Candidates(t, to) IN
       \/ C = {} /\ Refused(k, t, to, "unavailable")
       \/ Cardinality(C) > 1 /\ Refused(k, t, to, "ambiguous")
       \/ Cardinality(C) = 1 /\ \E s \in C : Accepted(k, t, to, s)

Finish(k, outcome) ==
  /\ call' = [call EXCEPT ![k].at = "done", ![k].outcome = outcome]
  /\ UNCHANGED <<enabled, toggles, gateway, desktop, history>>

\* The future has an answer and its caller takes it,
Return(k) == Awaited(k) /\ call[k].future # "pending" /\ Finish(k, call[k].future)

\* or the timeout of the call, or of the API around it, comes first.
TimeOut(k) == Awaited(k) /\ Finish(k, "timeout")

-----------------------------------------------------------------------------
\* The agent's worker runs the next command, and the answer goes to the
\* stream the command came on, if that still is the agent's stream.
Execute(a) ==
  /\ alive[a] /\ work[a] # <<>>
  /\ LET k == Head(work[a])[1]
         s == Head(work[a])[2] IN
     /\ did' = Append(did, k)
     /\ session' = IF link[a] = s /\ session[s].at # "closed"
                   THEN [session EXCEPT ![s].inbound = Append(@, k)] ELSE session
  /\ work' = [work EXCEPT ![a] = Tail(@)]
  /\ UNCHANGED <<enabled, toggles, monitor, up, call, link, alive, sent, late>>

\* The agent learns that its stream has ended. Unauthenticated is fatal: the
\* service exits, and its worker's queue with it.
Learn(a) ==
  /\ link[a] # 0 /\ session[link[a]].at = "closed"
  /\ link' = [link EXCEPT ![a] = 0]
  /\ LET fatal == session[link[a]].code = "unauthenticated" IN
     /\ alive' = [alive EXCEPT ![a] = @ /\ ~fatal]
     /\ work' = IF fatal THEN [work EXCEPT ![a] = <<>>] ELSE work
  /\ UNCHANGED <<enabled, toggles, gateway, call, history>>

\* The agent loses a stream that the gateway still holds.
Drop(a) ==
  /\ "network" \in Faults /\ link[a] # 0 /\ session[link[a]].at # "closed"
  /\ link' = [link EXCEPT ![a] = 0]
  /\ UNCHANGED <<enabled, toggles, gateway, call, alive, work, history>>

-----------------------------------------------------------------------------
\* DesktopAutomationEngine.start leaves the gateway down without its keys.
Init ==
  /\ enabled = [a \in Agent |-> TRUE] /\ toggles = 0
  /\ session = [s \in Session |-> Unused]
  /\ monitor = Asleep /\ up \in BOOLEAN
  /\ call = [k \in Command |-> [at |-> "idle", tenant |-> CHOOSE t \in Tenant : TRUE, to |-> Anyone,
                            on |-> 0, future |-> "pending", outcome |-> "none"]]
  /\ link = [a \in Agent |-> 0] /\ alive = [a \in Agent |-> TRUE]
  /\ work = [a \in Agent |-> <<>>]
  /\ sent = <<>> /\ did = <<>> /\ late = {}

Monitor == SweepStart \/ SweepRead \/ SweepFails \/ SweepApply
Serve(s) == \/ Authorize(s) \/ Establish(s) \/ Push(s) \/ ReceiveStatus(s)
            \/ ReceiveResult(s) \/ Sever(s) \/ Hangup(s)
Caller(k) == Send(k) \/ Return(k) \/ TimeOut(k)
Desktop(a) == Connect(a) \/ Execute(a) \/ Learn(a) \/ Drop(a) \/ Toggle(a)

Next == \/ Monitor \/ Stop
        \/ \E s \in Session : Serve(s)
        \/ \E k \in Command : Caller(k)
        \/ \E a \in Agent : Desktop(a)

Spec == Init /\ [][Next]_vars

-----------------------------------------------------------------------------
\* A caller whose session has ended is told so: nobody waits, for the rest
\* of a timeout, on a session that is gone (Connect's finally).
GoneIsTold ==
  \A k \in Command : Awaited(k) /\ call[k].future = "pending" => call[k].on \in Open

\* A call that is answered with a result was executed, and a call refused
\* before it was queued never is: a late or stray result answers no other
\* call (_resolve_pending_command).
ToldIsDone ==
  \A k \in Command :
    /\ call[k].outcome = "result" => Contains(did, k)
    /\ call[k].outcome \in {"unavailable", "ambiguous"} => ~Contains(did, k)

\* An agent runs its commands in the order they were accepted and none
\* twice, over all its sessions: what an old session left in the worker's
\* queue runs before anything of the next one. A session stays a target until
\* its stream has really ended, but what it accepts once it is revoked never
\* reaches the agent.
Before(s, j, k) == \E i \in DOMAIN s, n \in DOMAIN s : i < n /\ s[i] = j /\ s[n] = k
SameAgent(j, k) == session[call[j].on].of = session[call[k].on].of
RunsAsSent ==
  /\ IsInjective(did)
  /\ \A j, k \in Command : Before(did, j, k) /\ SameAgent(j, k) => Before(sent, j, k)
  /\ \A k \in late : ~Contains(did, k)
=============================================================================
