----------------------- MODULE IntegrationCredential -----------------------
(***************************************************************************)
(* The OAuth credential of one (tenant, profile): IntegrationOAuthManager  *)
(* (security/integration_oauth_manager.py) over SecretStore and the tables *)
(* of credentials and nonces, beside the provider that rotates its tokens. *)
(*                                                                         *)
(* One process. Every transaction and provider request is one await; the   *)
(* refresh lock is held over several. A refresh token, its access token    *)
(* and its fingerprint are one number, since they come and go together.    *)
(***************************************************************************)
EXTENDS Naturals, FiniteSets

CONSTANTS Caller,     \* the calls of resolve_access_token
          Link,       \* the authorization attempts, each with its state
          Delivery,   \* the deliveries of callbacks (a deep link may come twice)
          LinkOf,     \* the attempt that a delivery is for
          Disconnect, \* the calls of disconnect_credential
          MaxTokens,  \* bound on the tokens that the provider issues
          Faults      \* "cut": a call ends at an await by a timeout or error,
                      \* "revoke": the provider drops a token, "age": one expires

ASSUME CredentialAssumption ==
  /\ LinkOf \in [Delivery -> Link] /\ MaxTokens \in Nat
  /\ "nobody" \notin Caller \cup Delivery
  /\ Faults \subseteq {"cut", "revoke", "age"}

VARIABLES
  row,      \* the OAuthIntegrationCredentialRecord
  secret,   \* the secret at each handle, 0 for none; a delivery has its own handle
  nonce,    \* the OAuthStateNonceRecord of each attempt
  valid,    \* the refresh tokens that the provider honours
  issued,   \* how many it has issued
  holder,   \* the call that holds the refresh lock, "nobody" if free
  resolve,  \* the calls of resolve_access_token
  deliver,  \* the calls of complete_authorization
  remove,   \* the calls of disconnect_credential
  shown,    \* history: how often each token was presented to the provider
  removed,  \* history: the handles whose removal was confirmed
  late,     \* history: calls that began after the confirmed disconnect of the record
  torn      \* history: was a call cut between a provider's answer, or its
            \* first write, and its last?

provider == <<valid, issued>>
calls == <<resolve, deliver, remove>>
history == <<shown, removed, late, torn>>
vars == <<row, secret, nonce, provider, holder, calls, history>>

Token == 1..MaxTokens
Nobody == "nobody"
NoRow == [status |-> "NONE", handle |-> Nobody, token |-> 0, fresh |-> FALSE, old |-> FALSE]

TypeOK ==
  /\ row \in [status : {"NONE", "CONNECTED", "REAUTHORIZATION_REQUIRED", "REVOKED"},
              handle : Delivery \cup {Nobody}, token : Token \cup {0},
              fresh : BOOLEAN, old : BOOLEAN]
  /\ secret \in [Delivery -> Token \cup {0}]
  /\ nonce \in [Link -> {"none", "open", "consumed"}]
  /\ valid \subseteq Token /\ issued \in 0..MaxTokens
  /\ holder \in Caller \cup {Nobody}
  /\ resolve \in [Caller -> [at : {"idle", "bind", "wait", "check", "current", "load",
                                   "ask", "swap", "put", "mark", "lost", "newer", "done"},
       handle : Delivery \cup {Nobody}, token : Token \cup {0},
       new : Token \cup {0}, told : Token \cup {0}]]
  /\ deliver \in [Delivery -> [at : {"idle", "exchange", "put", "upsert", "done", "failed"},
                               token : Token \cup {0}]]
  /\ remove \in [Disconnect -> [at : {"idle", "delete", "mark", "done", "failed"},
                                handle : Delivery \cup {Nobody}]]
  /\ shown \in [Token -> Nat] /\ torn \in BOOLEAN
  /\ removed \subseteq Delivery /\ late \subseteq Caller

-----------------------------------------------------------------------------
\* begin_authorization stores the nonce of the state it hands out.
Begin(l) ==
  /\ nonce[l] = "none"
  /\ nonce' = [nonce EXCEPT ![l] = "open"]
  /\ UNCHANGED <<row, secret, provider, holder, calls, history>>

\* complete_authorization consumes the nonce in one UPDATE; whoever changes
\* no row is refused.
Consume(d) ==
  /\ deliver[d].at = "idle" /\ nonce[LinkOf[d]] # "none"
  /\ nonce' = [nonce EXCEPT ![LinkOf[d]] = "consumed"]
  /\ deliver' = [deliver EXCEPT ![d].at = IF nonce[LinkOf[d]] = "open" THEN "exchange" ELSE "failed"]
  /\ UNCHANGED <<row, secret, provider, holder, resolve, remove, history>>

\* The provider takes the code and issues a token.
Exchange(d) ==
  /\ deliver[d].at = "exchange" /\ issued < MaxTokens
  /\ issued' = issued + 1 /\ valid' = valid \cup {issued'}
  /\ deliver' = [deliver EXCEPT ![d].at = "put", ![d].token = issued']
  /\ UNCHANGED <<row, secret, nonce, holder, resolve, remove, history>>

\* The secret is stored under a handle of its own,
PutNew(d) ==
  /\ deliver[d].at = "put"
  /\ secret' = [secret EXCEPT ![d] = deliver[d].token]
  /\ deliver' = [deliver EXCEPT ![d].at = "upsert"]
  /\ UNCHANGED <<row, nonce, provider, holder, resolve, remove, history>>

\* and the record points to it, whatever it was before.
Upsert(d) ==
  /\ deliver[d].at = "upsert"
  /\ row' = [status |-> "CONNECTED", handle |-> d, token |-> deliver[d].token,
             fresh |-> TRUE, old |-> FALSE]
  /\ deliver' = [deliver EXCEPT ![d].at = "done"]
  /\ late' = {}
  /\ UNCHANGED <<secret, nonce, provider, holder, resolve, remove, shown, removed, torn>>

-----------------------------------------------------------------------------
Connected == row.status = "CONNECTED"
At(c, at) == resolve' = [resolve EXCEPT ![c].at = at]
Answer(c, n) == resolve' = [resolve EXCEPT ![c].at = "done", ![c].told = n]
Release == holder' = Nobody
Quiet == UNCHANGED <<nonce, provider, deliver, remove, history>>

\* resolve_access_token reads the secret of the handle it is given; a missing
\* one is an error.
Resolve(c) ==
  /\ resolve[c].at = "idle"
  /\ \E d \in Delivery :
       /\ deliver[d].at = "done"
       /\ resolve' = IF secret[d] = 0 THEN [resolve EXCEPT ![c].at = "done"]
                     ELSE [resolve EXCEPT ![c].at = "bind", ![c].handle = d, ![c].token = secret[d]]
  /\ late' = IF row.handle \in removed THEN late \cup {c} ELSE late
  /\ UNCHANGED <<row, secret, nonce, provider, holder, deliver, remove, shown, removed, torn>>

\* The handle must be that of the connected record. An access token that has
\* not expired is the answer.
Bind(c) ==
  /\ resolve[c].at = "bind"
  /\ \/ (~Connected \/ row.handle # resolve[c].handle) /\ Answer(c, 0)
     \/ Connected /\ row.handle = resolve[c].handle /\ row.fresh /\ Answer(c, resolve[c].token)
     \/ Connected /\ row.handle = resolve[c].handle /\ ~row.fresh /\ At(c, "wait")
  /\ UNCHANGED <<row, secret, holder>> /\ Quiet

\* Mutation: every call has a lock of its own.
LockOwn(c) ==
  /\ resolve[c].at = "wait"
  /\ holder' = c /\ At(c, "check")
  /\ UNCHANGED <<row, secret>> /\ Quiet
Lock(c) ==
  /\ resolve[c].at = "wait" /\ holder = Nobody
  /\ holder' = c /\ At(c, "check")
  /\ UNCHANGED <<row, secret>> /\ Quiet

\* Under the lock the record is read again: another call may have refreshed.
LoadsAgain == IF row.fresh THEN "current" ELSE IF row.old THEN "mark" ELSE "load"
LoadAgain(c) ==
  /\ resolve[c].at = "check"
  /\ IF Connected
     THEN /\ resolve' = [resolve EXCEPT ![c].at = LoadsAgain, ![c].handle = row.handle]
          /\ UNCHANGED holder
     ELSE Answer(c, 0) /\ Release
  /\ UNCHANGED <<row, secret>> /\ Quiet

\* Another call has refreshed: its token is the answer, if it is there.
Current(c) ==
  /\ resolve[c].at \in {"current", "newer"}
  /\ Answer(c, IF resolve[c].handle = Nobody THEN 0 ELSE secret[resolve[c].handle]) /\ Release
  /\ UNCHANGED <<row, secret>> /\ Quiet

\* The refresh token to present; a missing secret is an error.
Load(c) ==
  /\ resolve[c].at = "load"
  /\ LET n == secret[resolve[c].handle] IN
     IF n = 0 THEN Answer(c, 0) /\ Release
     ELSE resolve' = [resolve EXCEPT ![c].at = "ask", ![c].token = n] /\ UNCHANGED holder
  /\ UNCHANGED <<row, secret>> /\ Quiet

\* The provider rotates a valid token and refuses any other.
Ask(c) ==
  /\ resolve[c].at = "ask"
  /\ LET n == resolve[c].token IN
     /\ shown' = [shown EXCEPT ![n] = @ + 1]
     /\ \/ /\ n \in valid /\ issued < MaxTokens
           /\ issued' = issued + 1 /\ valid' = (valid \ {n}) \cup {issued'}
           /\ resolve' = [resolve EXCEPT ![c].at = "swap", ![c].new = issued']
        \/ n \notin valid /\ At(c, "mark") /\ UNCHANGED provider
  /\ UNCHANGED <<row, secret, nonce, holder, deliver, remove, removed, late, torn>>

\* _mark_reauthorization_required, on whatever record there is by then.
Mark(c) ==
  /\ resolve[c].at = "mark"
  /\ row' = [row EXCEPT !.status = "REAUTHORIZATION_REQUIRED"]
  /\ Answer(c, 0) /\ Release
  /\ UNCHANGED secret /\ Quiet

\* The record changes only if it still has the token that was presented.
\* Mutation: a rotation makes the record connected.
RotatedConnected(c) ==
  [row EXCEPT !.token = resolve[c].new, !.fresh = TRUE, !.old = FALSE, !.status = "CONNECTED"]
Rotated(c) == [row EXCEPT !.token = resolve[c].new, !.fresh = TRUE, !.old = FALSE]
\* Mutation: the record is written without comparing.
SwapsAlways(c) == resolve[c].at = "swap"
Swaps(c) == row.token = resolve[c].token
Swap(c) ==
  /\ resolve[c].at = "swap"
  /\ row' = IF Swaps(c) THEN Rotated(c) ELSE row
  /\ At(c, IF Swaps(c) THEN "put" ELSE "lost")
  /\ UNCHANGED <<secret, holder>> /\ Quiet

PutRotated(c) ==
  /\ resolve[c].at = "put"
  /\ secret' = [secret EXCEPT ![resolve[c].handle] = resolve[c].new]
  /\ Answer(c, resolve[c].new) /\ Release
  /\ UNCHANGED row /\ Quiet

\* Another writer was first: its credential is the answer.
Lost(c) ==
  /\ resolve[c].at = "lost"
  /\ resolve' = [resolve EXCEPT ![c].at = "newer", ![c].handle = row.handle]
  /\ UNCHANGED <<row, secret, holder>> /\ Quiet

-----------------------------------------------------------------------------
\* disconnect_credential: load, delete the secret, mark the record.
LoadRecord(x) ==
  /\ remove[x].at = "idle" /\ row # NoRow
  /\ remove' = [remove EXCEPT ![x] = [at |-> "delete", handle |-> row.handle]]
  /\ UNCHANGED <<row, secret, nonce, provider, holder, resolve, deliver, history>>

DeleteSecret(x) ==
  /\ remove[x].at = "delete"
  /\ secret' = [secret EXCEPT ![remove[x].handle] = 0]
  /\ remove' = [remove EXCEPT ![x].at = "mark"]
  /\ UNCHANGED <<row, nonce, provider, holder, resolve, deliver, history>>

MarkRevoked(x) ==
  /\ remove[x].at = "mark"
  /\ row' = [row EXCEPT !.status = "REVOKED"]
  /\ remove' = [remove EXCEPT ![x].at = "done"]
  /\ removed' = removed \cup {remove[x].handle}
  /\ UNCHANGED <<secret, nonce, provider, holder, resolve, deliver, shown, late, torn>>

-----------------------------------------------------------------------------
\* Time: the access token expires, the refresh token expires.
Expire ==
  /\ row.fresh /\ row' = [row EXCEPT !.fresh = FALSE]
  /\ UNCHANGED <<secret, nonce, provider, holder, calls, history>>

Age ==
  /\ "age" \in Faults /\ ~row.fresh /\ ~row.old /\ row # NoRow
  /\ row' = [row EXCEPT !.old = TRUE] /\ valid' = valid \ {row.token}
  /\ UNCHANGED <<secret, nonce, issued, holder, calls, history>>

\* The user or the provider takes an authorization back.
Withdraw(n) ==
  /\ "revoke" \in Faults /\ n \in valid
  /\ valid' = valid \ {n}
  /\ UNCHANGED <<row, secret, nonce, issued, holder, calls, history>>

\* A call is cut at an await, also by the process's end; `async with` gives
\* the lock back. A request the provider has answered has taken effect.
\* Mutation: a cut call keeps the lock.
ReleasedNever(c) == holder
Released(c) == IF holder = c THEN Nobody ELSE holder
CutResolve(c) ==
  /\ "cut" \in Faults /\ resolve[c].at \notin {"idle", "done"}
  /\ At(c, "done") /\ holder' = Released(c)
  /\ torn' = (torn \/ resolve[c].at \in {"swap", "put", "mark"})
  /\ UNCHANGED <<row, secret, nonce, provider, deliver, remove, shown, removed, late>>
CutDeliver(d) ==
  /\ "cut" \in Faults /\ deliver[d].at \in {"exchange", "put", "upsert"}
  /\ deliver' = [deliver EXCEPT ![d].at = "failed"]
  /\ UNCHANGED <<row, secret, nonce, provider, holder, resolve, remove, history>>
CutRemove(x) ==
  /\ "cut" \in Faults /\ remove[x].at \in {"delete", "mark"}
  /\ remove' = [remove EXCEPT ![x].at = "failed"]
  /\ torn' = (torn \/ remove[x].at = "mark")
  /\ UNCHANGED <<row, secret, nonce, provider, holder, resolve, deliver, shown, removed, late>>

-----------------------------------------------------------------------------
Init ==
  /\ row = NoRow /\ secret = [d \in Delivery |-> 0]
  /\ nonce = [l \in Link |-> "none"] /\ valid = {} /\ issued = 0
  /\ holder = Nobody
  /\ resolve = [c \in Caller |-> [at |-> "idle", handle |-> Nobody, token |-> 0, new |-> 0, told |-> 0]]
  /\ deliver = [d \in Delivery |-> [at |-> "idle", token |-> 0]]
  /\ remove = [x \in Disconnect |-> [at |-> "idle", handle |-> Nobody]]
  /\ shown = [n \in Token |-> 0] /\ removed = {} /\ late = {} /\ torn = FALSE

Resolving(c) ==
  \/ Bind(c) \/ Lock(c) \/ LoadAgain(c) \/ Current(c) \/ Load(c) \/ Ask(c)
  \/ Mark(c) \/ Swap(c) \/ PutRotated(c) \/ Lost(c)
Delivering(d) == Consume(d) \/ Exchange(d) \/ PutNew(d) \/ Upsert(d)
Removing(x) == LoadRecord(x) \/ DeleteSecret(x) \/ MarkRevoked(x)

Next == \/ \E l \in Link : Begin(l)
        \/ \E d \in Delivery : Delivering(d) \/ CutDeliver(d)
        \/ \E c \in Caller : Resolve(c) \/ Resolving(c) \/ CutResolve(c)
        \/ \E x \in Disconnect : Removing(x) \/ CutRemove(x)
        \/ Expire \/ Age \/ \E n \in Token : Withdraw(n)

Spec == Init /\ [][Next]_vars

\* The event loop runs what is ready. A provider answers or the request times
\* out; asyncio.Lock is fair.
FairSpec == Spec /\ \A c \in Caller : WF_vars(Resolving(c))

-----------------------------------------------------------------------------
\* No refresh token is presented to the provider twice, unless a call was cut
\* between the provider's answer and the writes that follow it: the lock, and
\* reading the secret under it, keep its callers apart.
PresentedOnce == torn \/ \A n \in Token : shown[n] <= 1

\* The connected record and its secret hold the same token whenever nobody is
\* between the two writes of a rotation or of a disconnect, or was cut there,
\* whatever links, refreshes and disconnects overlapped.
Writing == \/ \E c \in Caller : resolve[c].at = "put"
           \/ \E x \in Disconnect : remove[x].at = "mark"
InStep == Connected /\ ~Writing /\ ~torn => secret[row.handle] = row.token

\* After a confirmed disconnect no call is given a token until the profile
\* is linked again, also when a refresh was under way or cut.
DisconnectHolds == \A c \in late : resolve[c].told = 0

\* Every call ends: nobody waits for ever for the refresh lock, whatever is
\* cut while it is held.
ResolveEnds == \A c \in Caller : resolve[c].at # "idle" ~> resolve[c].at = "done"
=============================================================================
