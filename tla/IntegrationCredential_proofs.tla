------------------- MODULE IntegrationCredential_proofs -------------------
(***************************************************************************)
(* Theorems about IntegrationCredential for any calls, links, disconnects, *)
(* tokens and faults.                                                      *)
(*                                                                         *)
(* The argument: a token belongs to one handle from the moment it is       *)
(* issued (OneHandle, Issued), since a link stores it under a handle of    *)
(* its own and a rotation keeps the handle. Whoever has read a secret      *)
(* under the lock (Locked) finds the record's token unless a new link came *)
(* between (Read), so the comparison fails exactly when the record is      *)
(* another's, and the record and its secret go together (Matched). And a   *)
(* token that may still be presented was not (Fresh).                      *)
(***************************************************************************)
EXTENDS IntegrationCredential, TLAPS

\* The parts of a call that are under the refresh lock.
Inside == {"check", "current", "load", "ask", "swap", "put", "mark", "lost", "newer"}

\* Only the call that holds the lock is under it.
Locked == \A c \in Caller : resolve[c].at \in Inside => holder = c

\* Tokens that calls carry at an await are tokens.
Carried ==
  /\ \A d \in Delivery : deliver[d].at \in {"put", "upsert"} => deliver[d].token # 0
  /\ \A c \in Caller : /\ resolve[c].at \in {"ask", "swap"} => resolve[c].token # 0
                       /\ resolve[c].at \in {"swap", "put"} => resolve[c].new # 0

\* A handle that anybody knows is that of a link that was completed.
Known(h) == h # Nobody => deliver[h].at = "done"
RowKnown == Known(row.handle) /\ (row.handle = Nobody => row = NoRow)
CallsKnown ==
  \A c \in Caller :
    /\ Known(resolve[c].handle)
    /\ resolve[c].at \in {"load", "ask", "swap", "put"} => resolve[c].handle # Nobody
    /\ resolve[c].at \in {"current", "load", "ask", "swap", "put", "mark"} => row.handle # Nobody
RemovedKnown ==
  /\ \A x \in Disconnect :
       /\ Known(remove[x].handle)
       /\ remove[x].at \in {"delete", "mark"} => remove[x].handle # Nobody /\ row.handle # Nobody
  /\ \A d \in removed : Known(d)
Stored == \A d \in Delivery : deliver[d].at = "upsert" => secret[d] = deliver[d].token
Handles == RowKnown /\ CallsKnown /\ RemovedKnown /\ Stored

\* Handle h is, was or will be that of token n.
Delivers(h, n) == deliver[h].at \in {"put", "upsert"} /\ deliver[h].token = n
Presents(c, h, n) ==
  /\ resolve[c].handle = h
  /\ \/ resolve[c].at \in {"ask", "swap"} /\ resolve[c].token = n
     \/ resolve[c].at \in {"swap", "put"} /\ resolve[c].new = n
Of(h, n) ==
  \/ secret[h] = n
  \/ row.handle = h /\ row.token = n
  \/ Delivers(h, n)
  \/ \E c \in Caller : Presents(c, h, n)
OneHandle == \A n \in Token, g, h \in Delivery : Of(g, n) /\ Of(h, n) => g = h
Issued == \A n \in Token, h \in Delivery : Of(h, n) => n <= issued

\* The record, its secret and the call that rotates it.
Rotating(c) == resolve[c].at = "put" /\ resolve[c].handle = row.handle
Matched ==
  torn \/ row.handle = Nobody
  \/ /\ \/ secret[row.handle] \in {0, row.token}
        \/ \E c \in Caller : Rotating(c)
     /\ Connected /\ secret[row.handle] = 0 =>
          \E x \in Disconnect : remove[x].at = "mark" /\ remove[x].handle = row.handle
Read ==
  torn \/ \A c \in Caller : resolve[c].handle = row.handle =>
            /\ resolve[c].at \in {"ask", "swap"} => row.token = resolve[c].token
            /\ resolve[c].at = "put" => row.token = resolve[c].new

\* Tokens that nobody has presented.
Unused(n) == n # 0 => shown[n] = 0
Presenting(c) == resolve[c].at \in {"swap", "put", "mark"} /\ resolve[c].handle = row.handle
Unshown ==
  /\ \A n \in Token : n > issued => shown[n] = 0
  /\ \A d \in Delivery : deliver[d].at \in {"put", "upsert"} => Unused(deliver[d].token)
  /\ \A c \in Caller : resolve[c].at \in {"swap", "put"} => Unused(resolve[c].new)
Stocked ==
  torn \/ (Connected => \/ Unused(secret[row.handle])
                        \/ \E c \in Caller : Presenting(c))
Loaded ==
  torn \/ \A c \in Caller :
            /\ resolve[c].at = "load" => Unused(secret[resolve[c].handle])
            /\ resolve[c].at = "ask" => Unused(resolve[c].token)
Fresh == Unshown /\ Stocked /\ Loaded

\* A removed handle is not connected, and whoever came late has no token.
Gone ==
  /\ row.handle \in removed => ~Connected
  /\ \A c \in late : /\ row.handle \in removed
                     /\ resolve[c].at \in {"bind", "done"} /\ resolve[c].told = 0
Told == \A c \in Caller : resolve[c].at # "done" => resolve[c].told = 0

CredentialInv ==
  /\ TypeOK /\ Locked /\ Carried /\ Handles /\ OneHandle /\ Issued
  /\ Matched /\ Read /\ Fresh /\ PresentedOnce /\ Gone /\ Told

-----------------------------------------------------------------------------
(* Types.                                                                  *)
CallRecord == [at : {"idle", "bind", "wait", "check", "current", "load", "ask", "swap", "put",
                     "mark", "lost", "newer", "done"},
               handle : Delivery \cup {Nobody}, token : Token \cup {0},
               new : Token \cup {0}, told : Token \cup {0}]
LinkRecord == [at : {"idle", "exchange", "put", "upsert", "done", "failed"}, token : Token \cup {0}]
Removal == [at : {"idle", "delete", "mark", "done", "failed"}, handle : Delivery \cup {Nobody}]
Row == [status : {"NONE", "CONNECTED", "REAUTHORIZATION_REQUIRED", "REVOKED"},
        handle : Delivery \cup {Nobody}, token : Token \cup {0},
        fresh : BOOLEAN, old : BOOLEAN]
Typed ==
  /\ row \in Row /\ resolve \in [Caller -> CallRecord]
  /\ deliver \in [Delivery -> LinkRecord] /\ remove \in [Disconnect -> Removal]
  /\ secret \in [Delivery -> Token \cup {0}] /\ shown \in [Token -> Nat]
  /\ issued \in 0..MaxTokens /\ MaxTokens \in Nat
  /\ removed \subseteq Delivery /\ late \subseteq Caller /\ torn \in BOOLEAN
  /\ holder \in Caller \cup {Nobody} /\ Nobody \notin Caller \cup Delivery

\* The type invariant, with the names of its records.
LEMMA Types == TypeOK => Typed
BY CredentialAssumption
DEF TypeOK, Typed, CallRecord, LinkRecord, Removal, Row, Nobody

\* The actions of a call keep the type of its record.
LEMMA CallTyped ==
  ASSUME TypeOK, NEW c \in Caller, Resolving(c) \/ Resolve(c) \/ CutResolve(c)
  PROVE  resolve' \in [Caller -> CallRecord]
<1>0. /\ resolve \in [Caller -> CallRecord] /\ resolve[c] \in CallRecord /\ row \in Row
      /\ secret \in [Delivery -> Token \cup {0}] /\ issued \in Nat /\ MaxTokens \in Nat
  BY Types DEF Typed
<1> USE <1>0 DEF CallRecord, Row, At, Answer, Token
<1>1. CASE Resolve(c)
  <2>1. PICK d \in Delivery :
          \/ resolve' = [resolve EXCEPT ![c].at = "done"]
          \/ resolve' = [resolve EXCEPT ![c].at = "bind", ![c].handle = d, ![c].token = secret[d]]
    BY <1>1 DEF Resolve
  <2>2. QED
    BY <2>1
<1>2. CASE Bind(c)
  BY <1>2 DEF Bind
<1>3. CASE Lock(c)
  BY <1>3 DEF Lock
<1>4. CASE LoadAgain(c)
  BY <1>4 DEF LoadAgain, LoadsAgain
<1>5. CASE Current(c)
  BY <1>5 DEF Current
<1>6. CASE Load(c)
  BY <1>6 DEF Load
<1>7. CASE Ask(c)
  BY <1>7 DEF Ask
<1>8. CASE Mark(c)
  BY <1>8 DEF Mark
<1>9. CASE Swap(c)
  BY <1>9 DEF Swap
<1>10. CASE PutRotated(c)
  BY <1>10 DEF PutRotated
<1>11. CASE Lost(c)
  BY <1>11 DEF Lost
<1>12. CASE CutResolve(c)
  BY <1>12 DEF CutResolve
<1>13. QED
  BY <1>1, <1>2, <1>3, <1>4, <1>5, <1>6, <1>7, <1>8, <1>9, <1>10, <1>11, <1>12 DEF Resolving

\* Every step keeps the types.
LEMMA TypeStep == ASSUME TypeOK, Handles, [Next]_vars PROVE TypeOK'
<1>0. Typed
  BY Types
<1> DEFINE Same == UNCHANGED <<nonce, deliver, remove, removed>>
<1>1. ASSUME NEW c \in Caller, Resolving(c) \/ Resolve(c) \/ CutResolve(c) PROVE TypeOK'
  <2>0. resolve[c] \in CallRecord /\ resolve' \in [Caller -> CallRecord]
    BY <1>0, <1>1, CallTyped DEF Typed
  <2>1. CASE Resolve(c)
    BY <1>0, <2>0, <2>1, ZenonT(60) DEF Resolve, provider, Typed, TypeOK, CallRecord, Row, Token
  <2>2. CASE Bind(c)
    BY <1>0, <2>0, <2>2 DEF Bind, Quiet, At, Answer, Release, history, provider, Typed, TypeOK,
       CallRecord, Row, Token
  <2>3. CASE Lock(c)
    BY <1>0, <2>0, <2>3 DEF Lock, Quiet, At, Answer, Release, history, provider, Typed, TypeOK,
       CallRecord, Row, Token
  <2>4. CASE LoadAgain(c)
    BY <1>0, <2>0, <2>4 DEF LoadAgain, Quiet, At, Answer, Release, history, provider, Typed,
       TypeOK, CallRecord, Row, Token
  <2>5. CASE Current(c)
    BY <1>0, <2>0, <2>5 DEF Current, Quiet, At, Answer, Release, history, provider, Typed,
       TypeOK, CallRecord, Row, Token
  <2>6. CASE Load(c)
    BY <1>0, <2>0, <2>6 DEF Load, Quiet, At, Answer, Release, history, provider, Typed, TypeOK,
       CallRecord, Row, Token
  <2>7. CASE Ask(c)
    <3>1. issued' \in 0..MaxTokens /\ valid' \subseteq Token
      BY <1>0, <2>7 DEF Ask, provider, Typed, TypeOK, Token
    <3>2. shown' \in [Token -> Nat]
      <4>1. PICK n : shown' = [shown EXCEPT ![n] = shown[n] + 1]
        BY <2>7 DEF Ask
      <4>2. shown \in [Token -> Nat]
        BY <1>0 DEF Typed
      <4>3. ASSUME NEW m \in Token PROVE shown'[m] \in Nat
        BY <4>1, <4>2
      <4>4. QED
        BY <4>1, <4>2, <4>3
    <3>3. QED
      BY <1>0, <2>0, <2>7, <3>1, <3>2 DEF Ask, Typed, TypeOK, CallRecord, Row
  <2>8. CASE Mark(c)
    BY <1>0, <2>0, <2>8 DEF Mark, Quiet, At, Answer, Release, history, provider, Typed, TypeOK,
       CallRecord, Row, Token
  <2>9. CASE Swap(c)
    BY <1>0, <2>0, <2>9 DEF Swap, Quiet, Rotated, At, history, provider, Typed, TypeOK,
       CallRecord, Row, Token
  <2>10. CASE PutRotated(c)
    BY <1>0, <2>0, <2>10 DEF PutRotated, Quiet, Answer, Release, history, provider, Typed,
       TypeOK, CallRecord, Row, Token
  <2>11. CASE Lost(c)
    BY <1>0, <2>0, <2>11 DEF Lost, Quiet, At, Answer, Release, history, provider, Typed,
       TypeOK, CallRecord, Row, Token
  <2>12. CASE CutResolve(c)
    BY <1>0, <2>0, <2>12 DEF CutResolve, Released, At, provider, Typed, TypeOK, CallRecord,
       Row, Token
  <2>13. QED
    BY <1>1, <2>1, <2>2, <2>3, <2>4, <2>5, <2>6, <2>7, <2>8, <2>9, <2>10, <2>11,
       <2>12 DEF Resolving
<1>2. ASSUME NEW d \in Delivery, Delivering(d) \/ CutDeliver(d) PROVE TypeOK'
  <2>0. deliver[d] \in LinkRecord
    BY <1>0 DEF Typed
  <2>1. CASE Consume(d)
    BY <1>0, <2>0, <2>1, CredentialAssumption, ZenonT(60)
       DEF Consume, Typed, TypeOK, LinkRecord, Row,
       Token, history, provider
  <2>2. CASE Exchange(d)
    <3>1. issued' \in 0..MaxTokens /\ issued' \in Token /\ valid' \subseteq Token
      BY <1>0, <2>2 DEF Exchange, Typed, TypeOK, Token
    <3>2. deliver' \in [Delivery -> LinkRecord]
      BY <1>0, <2>0, <2>2, <3>1 DEF Exchange, Typed, LinkRecord
    <3>3. QED
      BY <1>0, <2>2, <3>1, <3>2 DEF Exchange, Typed, TypeOK, LinkRecord, Row, history
  <2>3. CASE PutNew(d)
    <3>1. secret' \in [Delivery -> Token \cup {0}] /\ deliver' \in [Delivery -> LinkRecord]
      BY <1>0, <2>0, <2>3 DEF PutNew, Typed, LinkRecord
    <3>2. UNCHANGED <<row, nonce, provider, holder, resolve, remove, history>>
      BY <2>3 DEF PutNew
    <3>3. QED
      BY <1>0, <3>1, <3>2 DEF TypeOK, Typed, LinkRecord, history, provider
  <2>4. CASE Upsert(d)
    <3>1. row' \in Row /\ deliver' \in [Delivery -> LinkRecord]
      BY <1>0, <2>0, <2>4 DEF Upsert, Typed, LinkRecord, Row
    <3>2. /\ late' \subseteq Caller
          /\ UNCHANGED <<secret, nonce, provider, holder, resolve, remove, shown, removed, torn>>
      BY <2>4 DEF Upsert
    <3>3. QED
      BY <1>0, <3>1, <3>2 DEF TypeOK, Typed, LinkRecord, Row, Removal, CallRecord, provider
  <2>5. CASE CutDeliver(d)
    <3>1. secret' = secret /\ deliver' \in [Delivery -> LinkRecord]
      BY <1>0, <2>0, <2>5 DEF CutDeliver, Typed, LinkRecord
    <3>2. UNCHANGED <<row, nonce, provider, holder, resolve, remove, history>>
      BY <2>5 DEF CutDeliver
    <3>3. QED
      BY <1>0, <3>1, <3>2 DEF TypeOK, Typed, LinkRecord, history, provider
  <2>6. QED
    BY <1>2, <2>1, <2>2, <2>3, <2>4, <2>5 DEF Delivering
<1>3. ASSUME NEW x \in Disconnect, Removing(x) \/ CutRemove(x) PROVE TypeOK'
  <2>1. CASE LoadRecord(x)
    <3>1. remove' \in [Disconnect -> Removal]
      BY <1>0, <2>1 DEF LoadRecord, Typed, Removal, Row
    <3>2. UNCHANGED <<row, secret, nonce, provider, holder, resolve, deliver, history>>
      BY <2>1 DEF LoadRecord
    <3>3. QED
      BY <1>0, <3>1, <3>2 DEF TypeOK, Typed, Removal, history, provider
  <2>2. CASE DeleteSecret(x)
    <3>1. secret' \in [Delivery -> Token \cup {0}]
      BY <1>0, <2>2 DEF DeleteSecret, Typed
    <3>2. remove' \in [Disconnect -> Removal]
      BY <1>0, <2>2 DEF DeleteSecret, Typed, Removal
    <3>3. UNCHANGED <<row, nonce, provider, holder, resolve, deliver, history>>
      BY <2>2 DEF DeleteSecret
    <3>4. QED
      BY <1>0, <3>1, <3>2, <3>3 DEF TypeOK, Typed, Removal, history, provider
  <2>3. CASE MarkRevoked(x)
    <3>1. remove[x] \in Removal /\ remove[x].handle # Nobody
      BY <1>0, <2>3 DEF MarkRevoked, Typed, Handles, RemovedKnown
    <3>2. removed' \subseteq Delivery
      BY <1>0, <2>3, <3>1 DEF MarkRevoked, Typed, Removal
    <3>3. QED
      BY <1>0, <2>3, <3>1, <3>2 DEF MarkRevoked, Typed, TypeOK, Removal, Row, provider
  <2>4. CASE CutRemove(x)
    BY <1>0, <2>4 DEF CutRemove, Typed, TypeOK, Removal, Row, history, provider
  <2>5. QED
    BY <1>3, <2>1, <2>2, <2>3, <2>4 DEF Removing
<1>4. CASE UNCHANGED vars
  BY <1>4 DEF TypeOK, vars, provider, calls, history
<1>5. CASE \E l \in Link : Begin(l)
  BY <1>5 DEF Begin, TypeOK, calls, history, provider
<1>6. CASE Expire
  BY <1>0, <1>6 DEF Expire, Typed, TypeOK, Row, calls, history, provider
<1>7. CASE Age
  BY <1>0, <1>7 DEF Age, Typed, TypeOK, Row, calls, history
<1>8. CASE \E n \in Token : Withdraw(n)
  BY <1>8 DEF Withdraw, TypeOK, calls, history
<1>9. QED
  BY <1>1, <1>2, <1>3, <1>4, <1>5, <1>6, <1>7, <1>8 DEF Next

-----------------------------------------------------------------------------
(* What the steps do to the parts of the state.                            *)

\* Nothing but the record's age, the nonces and the progress of calls that
\* have no token changes.
Aside ==
  /\ UNCHANGED <<secret, issued, shown, holder, resolve, removed, late>>
  /\ row'.handle = row.handle /\ row'.token = row.token /\ row'.status = row.status
  /\ row = NoRow => row' = NoRow
  /\ torn => torn'
  /\ \A d \in Delivery :
       \/ deliver'[d] = deliver[d]
       \/ deliver[d].at # "done" /\ deliver'[d].at \in {"exchange", "failed"}
  /\ \A x \in Disconnect :
       \/ remove'[x] = remove[x]
       \/ /\ remove[x].at = "idle" /\ row # NoRow
          /\ remove'[x].at = "delete" /\ remove'[x].handle = row.handle
       \/ /\ remove'[x].at = "failed" /\ remove'[x].handle = remove[x].handle
          /\ remove[x].at = "mark" => torn'

\* Call c reads, waits or ends.
Reading(c) ==
  \/ Resolve(c) \/ CutResolve(c) \/ Bind(c) \/ Lock(c) \/ LoadAgain(c) \/ Current(c) \/ Load(c)
  \/ Lost(c)
Reads(c) ==
  /\ UNCHANGED <<row, secret, issued, shown, deliver, remove, removed>>
  /\ torn => torn'
  /\ \A b \in Caller : b # c => resolve'[b] = resolve[b]
  /\ \/ /\ resolve[c].at = "load" /\ resolve'[c].at = "ask"
        /\ resolve'[c].handle = resolve[c].handle
        /\ resolve'[c].token = secret[resolve[c].handle] /\ resolve'[c].token # 0
     \/ /\ resolve[c].at = "check" /\ resolve'[c].at \in {"current", "load", "mark"}
        /\ Connected /\ resolve'[c].handle = row.handle
     \/ /\ resolve'[c].at \in {"bind", "wait", "check", "newer", "done"}
        /\ \/ resolve'[c].handle \in {resolve[c].handle, row.handle}
           \/ Known(resolve'[c].handle)
        /\ resolve[c].at \in {"swap", "put", "mark"} => torn'

\* Begin, Consume, Expire, Age, Withdraw, the first step of a disconnect and the
\* cut of a link or a disconnect are Aside.
LEMMA AsideSteps ==
  ASSUME TypeOK,
         \/ \E l \in Link : Begin(l)
         \/ \E d \in Delivery : Consume(d) \/ CutDeliver(d)
         \/ \E x \in Disconnect : LoadRecord(x) \/ CutRemove(x)
         \/ Expire \/ Age \/ \E n \in Token : Withdraw(n)
         \/ UNCHANGED vars
  PROVE  Aside
<1>0. Typed
  BY Types
<1> USE <1>0 DEF Aside
<1>1. CASE \E l \in Link : Begin(l)
  BY <1>1 DEF Begin, calls, history, provider
<1>2. ASSUME NEW d \in Delivery, Consume(d) PROVE Aside
  BY <1>2 DEF Typed, Consume, history, provider
<1>3. ASSUME NEW d \in Delivery, CutDeliver(d) PROVE Aside
  BY <1>3 DEF Typed, CutDeliver, history, provider
<1>4. ASSUME NEW x \in Disconnect, LoadRecord(x) PROVE Aside
  BY <1>4 DEF Typed, LoadRecord, history, provider
<1>5. ASSUME NEW x \in Disconnect, CutRemove(x) PROVE Aside
  BY <1>5 DEF Typed, CutRemove, provider, Removal
<1>6. CASE Expire
  BY <1>6 DEF Typed, Expire, calls, history, provider, Row, NoRow
<1>7. CASE Age
  BY <1>7 DEF Typed, Age, calls, history, Row
<1>8. CASE \E n \in Token : Withdraw(n)
  BY <1>8 DEF Withdraw, calls, history
<1>9. CASE UNCHANGED vars
  BY <1>9 DEF vars, calls, history, provider
<1>10. QED
  BY <1>1, <1>2, <1>3, <1>4, <1>5, <1>6, <1>7, <1>8, <1>9

\* A call that only reads the record and the secrets.
LEMMA ReadSteps == ASSUME TypeOK, NEW c \in Caller, Reading(c) PROVE Reads(c)
<1>0. /\ resolve \in [Caller -> CallRecord] /\ resolve[c] \in CallRecord
      /\ secret \in [Delivery -> Token \cup {0}]
  BY Types DEF Typed
<1> USE <1>0 DEF CallRecord, Reads, At, Answer, Quiet, calls, history, provider
<1>1. CASE Resolve(c)
  <2>1. PICK d \in Delivery :
          /\ deliver[d].at = "done"
          /\ \/ resolve' = [resolve EXCEPT ![c].at = "done"]
             \/ resolve' = [resolve EXCEPT ![c].at = "bind", ![c].handle = d, ![c].token = secret[d]]
    BY <1>1 DEF Resolve
  <2>2. Known(d)
    BY <2>1 DEF Known
  <2>3. QED
    BY <1>1, <2>1, <2>2 DEF Resolve
<1>2. CASE CutResolve(c)
  BY <1>2 DEF CutResolve
<1>3. CASE Bind(c)
  BY <1>3 DEF Bind
<1>4. CASE Lock(c)
  BY <1>4 DEF Lock
<1>5. CASE LoadAgain(c)
  BY <1>5 DEF LoadAgain, LoadsAgain
<1>6. CASE Current(c)
  BY <1>6 DEF Current
<1>7. CASE Load(c)
  BY <1>7 DEF Load
<1>8. CASE Lost(c)
  BY <1>8 DEF Lost
<1>9. QED
  BY <1>1, <1>2, <1>3, <1>4, <1>5, <1>6, <1>7, <1>8 DEF Reading

\* The other steps.
LEMMA Split ==
  ASSUME TypeOK, [Next]_vars
  PROVE  \/ Aside
         \/ \E c \in Caller : Reading(c) /\ Reads(c)
         \/ \E c \in Caller : Ask(c) \/ Mark(c) \/ Swap(c) \/ PutRotated(c)
         \/ \E d \in Delivery : Exchange(d) \/ PutNew(d) \/ Upsert(d)
         \/ \E x \in Disconnect : DeleteSecret(x) \/ MarkRevoked(x)
BY AsideSteps, ReadSteps DEF Next, Delivering, Removing, Resolving, Reading

-----------------------------------------------------------------------------
(* The lock, and what calls know.                                          *)

\* The lock keeps all calls but one out.
LEMMA LockStep == ASSUME TypeOK, Locked, [Next]_vars PROVE Locked'
<1>0. /\ resolve \in [Caller -> CallRecord] /\ holder \in Caller \cup {Nobody}
      /\ Nobody \notin Caller
  BY Types DEF Typed
<1> USE DEF Inside, Locked, At, Answer, Release
<1>1. CASE Aside
  BY <1>1 DEF Aside
<1>2. ASSUME NEW c \in Caller, Resolve(c) PROVE Locked'
  <2>1. resolve'[c].at \in {"bind", "done"} /\ \A b \in Caller \ {c} : resolve'[b] = resolve[b]
    <3>1. PICK d \in Delivery :
             \/ resolve' = [resolve EXCEPT ![c].at = "done"]
             \/ resolve' = [resolve EXCEPT ![c].at = "bind", ![c].handle = d, ![c].token = secret[d]]
      BY <1>2 DEF Resolve
    <3>2. QED
      BY <1>0, <3>1 DEF CallRecord
  <2>2. QED
    BY <1>2, <2>1 DEF Resolve
<1>3. ASSUME NEW c \in Caller, CutResolve(c) PROVE Locked'
  BY <1>0, <1>3 DEF CutResolve, Released, CallRecord
<1>4. ASSUME NEW c \in Caller, Bind(c) PROVE Locked'
  BY <1>0, <1>4 DEF Bind, CallRecord
<1>5. ASSUME NEW c \in Caller, Lock(c) PROVE Locked'
  BY <1>0, <1>5 DEF Lock, CallRecord
<1>6. ASSUME NEW c \in Caller, LoadAgain(c) PROVE Locked'
  BY <1>0, <1>6 DEF LoadAgain, LoadsAgain, CallRecord
<1>7. ASSUME NEW c \in Caller, Current(c) PROVE Locked'
  BY <1>0, <1>7 DEF Current, CallRecord
<1>8. ASSUME NEW c \in Caller, Load(c) PROVE Locked'
  BY <1>0, <1>8 DEF Load, CallRecord
<1>9. ASSUME NEW c \in Caller, Lost(c) PROVE Locked'
  BY <1>0, <1>9 DEF Lost, CallRecord
<1>10. ASSUME NEW c \in Caller, Ask(c) PROVE Locked'
  BY <1>0, <1>10 DEF Ask, CallRecord
<1>11. ASSUME NEW c \in Caller, Mark(c) \/ PutRotated(c) PROVE Locked'
  BY <1>0, <1>11 DEF Mark, PutRotated, CallRecord
<1>12. ASSUME NEW c \in Caller, Swap(c) PROVE Locked'
  BY <1>0, <1>12 DEF Swap, CallRecord
<1>13. ASSUME NEW d \in Delivery, Exchange(d) \/ PutNew(d) \/ Upsert(d) PROVE Locked'
  BY <1>13 DEF Exchange, PutNew, Upsert
<1>14. ASSUME NEW x \in Disconnect, DeleteSecret(x) \/ MarkRevoked(x) PROVE Locked'
  BY <1>14 DEF DeleteSecret, MarkRevoked
<1>15. QED
  BY <1>1, <1>2, <1>3, <1>4, <1>5, <1>6, <1>7, <1>8, <1>9, <1>10, <1>11, <1>12, <1>13, <1>14, Split
  DEF Reading

\* What a step of one call to the provider or the tables does to the calls.
AskedOne(c) ==
  /\ \A b \in Caller : b # c => resolve'[b] = resolve[b]
  /\ resolve'[c].handle = resolve[c].handle /\ resolve'[c].token = resolve[c].token

\* The steps of the call that holds the lock and changes something.
LEMMA AskSteps ==
  ASSUME TypeOK, NEW c \in Caller
  PROVE  /\ Ask(c) => AskedOne(c) /\ resolve'[c].at \in {"swap", "mark"}
                      /\ (resolve'[c].at = "swap" => resolve'[c].new = issued' /\ issued' = issued + 1)
                      /\ (resolve'[c].at = "mark" => issued' = issued)
         /\ Mark(c) \/ PutRotated(c) => AskedOne(c) /\ resolve'[c].at = "done"
         /\ Swap(c) => AskedOne(c) /\ resolve'[c].new = resolve[c].new
                       /\ resolve'[c].at = IF Swaps(c) THEN "put" ELSE "lost"
<1>0. resolve \in [Caller -> CallRecord] /\ resolve[c] \in CallRecord
  BY Types DEF Typed
<1> USE <1>0 DEF CallRecord, AskedOne, At, Answer
<1>1. Ask(c) => AskedOne(c) /\ resolve'[c].at \in {"swap", "mark"}
                /\ (resolve'[c].at = "swap" => resolve'[c].new = issued' /\ issued' = issued + 1)
                /\ (resolve'[c].at = "mark" => issued' = issued)
  BY DEF Ask, provider
<1>2. Mark(c) => AskedOne(c) /\ resolve'[c].at = "done"
  BY DEF Mark
<1>3. PutRotated(c) => AskedOne(c) /\ resolve'[c].at = "done"
  BY DEF PutRotated
<1>4. Swap(c) => AskedOne(c) /\ resolve'[c].new = resolve[c].new
                 /\ resolve'[c].at = IF Swaps(c) THEN "put" ELSE "lost"
  BY DEF Swap
<1>5. QED
  BY <1>1, <1>2, <1>3, <1>4

\* No call carries the absence of a token.
LEMMA CarriedStep == ASSUME TypeOK, Carried, [Next]_vars PROVE Carried'
<1>0. Typed
  BY Types
<1> USE DEF Carried
<1>1. CASE Aside
  BY <1>0, <1>1 DEF Aside
<1>2. ASSUME NEW c \in Caller, Reads(c) PROVE Carried'
  BY <1>2 DEF Reads
<1>3. ASSUME NEW c \in Caller, Ask(c) PROVE Carried'
  <2>1. issued' = issued + 1 => issued' # 0
    BY <1>0 DEF Typed
  <2>2. resolve[c].at = "ask" /\ deliver' = deliver
    BY <1>3 DEF Ask
  <2>3. QED
    BY <1>3, <2>1, <2>2, AskSteps DEF AskedOne
<1>4. ASSUME NEW c \in Caller, Mark(c) \/ PutRotated(c) PROVE Carried'
  BY <1>4, AskSteps DEF AskedOne, Mark, PutRotated, Quiet
<1>5. ASSUME NEW c \in Caller, Swap(c) PROVE Carried'
  BY <1>5, AskSteps DEF AskedOne, Swap, Quiet
<1>6. ASSUME NEW d \in Delivery, Exchange(d) PROVE Carried'
  BY <1>0, <1>6 DEF Exchange, Typed, LinkRecord
<1>7. ASSUME NEW d \in Delivery, PutNew(d) PROVE Carried'
  BY <1>0, <1>7 DEF PutNew, Typed, LinkRecord
<1>8. ASSUME NEW d \in Delivery, Upsert(d) PROVE Carried'
  BY <1>0, <1>8 DEF Upsert, Typed, LinkRecord
<1>9. ASSUME NEW x \in Disconnect, DeleteSecret(x) \/ MarkRevoked(x) PROVE Carried'
  BY <1>9 DEF DeleteSecret, MarkRevoked
<1>10. QED
  BY <1>1, <1>2, <1>3, <1>4, <1>5, <1>6, <1>7, <1>8, <1>9, Split

\* A completed link stays completed.
LEMMA DoneStays ==
  ASSUME TypeOK, [Next]_vars, NEW h \in Delivery, deliver[h].at = "done"
  PROVE  deliver'[h].at = "done"
<1>0. Typed
  BY Types
<1>1. CASE Aside
  BY <1>1 DEF Aside
<1>2. ASSUME NEW c \in Caller, Reads(c) \/ Ask(c) \/ Mark(c) \/ Swap(c) \/ PutRotated(c)
      PROVE  deliver' = deliver
  BY <1>2 DEF Reads, Ask, Mark, Swap, PutRotated, Quiet
<1>3. ASSUME NEW d \in Delivery, Exchange(d) \/ PutNew(d) \/ Upsert(d)
      PROVE  deliver'[h].at = "done"
  BY <1>0, <1>3 DEF Exchange, PutNew, Upsert, Typed, LinkRecord
<1>4. ASSUME NEW x \in Disconnect, DeleteSecret(x) \/ MarkRevoked(x) PROVE deliver' = deliver
  BY <1>4 DEF DeleteSecret, MarkRevoked
<1>5. QED
  BY <1>1, <1>2, <1>3, <1>4, Split

\* No step forgets or invents a handle.
LEMMA HandlesStep == ASSUME TypeOK, Handles, [Next]_vars PROVE Handles'
<1>0. Typed /\ RowKnown /\ CallsKnown /\ RemovedKnown /\ Stored
  BY Types DEF Handles
<1>k. ASSUME NEW h \in Delivery \cup {Nobody}, Known(h) PROVE h # Nobody => deliver'[h].at = "done"
  BY <1>k, DoneStays DEF Known
<1>r. row \in Row /\ row.handle \in Delivery \cup {Nobody}
  BY <1>0 DEF Typed, Row
<1>c. \A c \in Caller : resolve[c].handle \in Delivery \cup {Nobody}
  BY <1>0 DEF Typed, CallRecord
<1>x. \A x \in Disconnect : remove[x].handle \in Delivery \cup {Nobody}
  BY <1>0 DEF Typed, Removal
<1>1. CASE Aside
  <2>1. RowKnown'
    BY <1>0, <1>1, <1>k, <1>r DEF Aside, RowKnown, Known
  <2>2. CallsKnown'
    BY <1>0, <1>1, <1>k, <1>c DEF Aside, CallsKnown, Known
  <2>3. RemovedKnown'
    <3>1. ASSUME NEW x \in Disconnect
          PROVE  /\ remove'[x].handle # Nobody => deliver'[remove'[x].handle].at = "done"
                 /\ remove'[x].at \in {"delete", "mark"}
                      => remove'[x].handle # Nobody /\ row'.handle # Nobody
      BY <1>0, <1>1, <1>k, <1>x, <1>r DEF Aside, RemovedKnown, RowKnown, Known
    <3>2. QED
      BY <1>0, <1>1, <1>k, <3>1 DEF Aside, RemovedKnown, Known, Typed
  <2>4. Stored'
    BY <1>0, <1>1 DEF Aside, Stored
  <2>5. QED
    BY <2>1, <2>2, <2>3, <2>4 DEF Handles
<1>2. ASSUME NEW c \in Caller, Reads(c) PROVE Handles'
  <2>1. RowKnown' /\ RemovedKnown' /\ Stored'
    BY <1>0, <1>2 DEF Reads, RowKnown, RemovedKnown, Stored, Known
  <2>2. CallsKnown'
    BY <1>0, <1>2 DEF Reads, CallsKnown, RowKnown, Known, Connected, NoRow
  <2>3. QED
    BY <2>1, <2>2 DEF Handles
<1>3. ASSUME NEW c \in Caller, Ask(c) \/ Mark(c) \/ Swap(c) \/ PutRotated(c) PROVE Handles'
  <2>1. /\ UNCHANGED <<deliver, remove, removed>>
        /\ AskedOne(c) /\ resolve[c].at \in {"ask", "mark", "swap", "put"}
        /\ resolve'[c].at \in {"swap", "mark", "put", "lost", "done"}
        /\ resolve'[c].at \in {"swap", "put"} => resolve[c].at # "mark"
        /\ resolve'[c].at # "mark" \/ resolve[c].at = "ask"
    <3>1. UNCHANGED <<deliver, remove, removed>> /\ resolve[c].at \in {"ask", "mark", "swap", "put"}
      BY <1>3 DEF Ask, Mark, Swap, PutRotated, Quiet, history
    <3>2. CASE Ask(c)
      BY <3>1, <3>2, AskSteps DEF Ask
    <3>3. CASE Mark(c) \/ PutRotated(c)
      BY <3>1, <3>3, AskSteps
    <3>4. CASE Swap(c)
      BY <3>1, <3>4, AskSteps DEF Swap
    <3>5. QED
      BY <1>3, <3>2, <3>3, <3>4
  <2>2. row'.handle = row.handle /\ row.handle # Nobody
    BY <1>0, <1>3, <1>r, <2>1 DEF Ask, Mark, Swap, PutRotated, Rotated, Row, CallsKnown
  <2>3. RowKnown' /\ RemovedKnown'
    BY <1>0, <2>1, <2>2 DEF RowKnown, RemovedKnown, Known
  <2>4. CallsKnown'
    BY <1>0, <2>1, <2>2 DEF CallsKnown, AskedOne, Known
  <2>5. Stored'
    <3>1. CASE PutRotated(c)
      <4>1. resolve[c].handle \in Delivery /\ deliver[resolve[c].handle].at = "done"
        BY <1>0, <1>c, <3>1 DEF PutRotated, CallsKnown, Known
      <4>2. secret' = [secret EXCEPT ![resolve[c].handle] = resolve[c].new]
            /\ secret \in [Delivery -> Token \cup {0}]
        BY <1>0, <3>1 DEF PutRotated, Typed
      <4>3. QED
        BY <1>0, <2>1, <4>1, <4>2 DEF Stored
    <3>2. CASE secret' = secret
      BY <1>0, <2>1, <3>2 DEF Stored
    <3>3. QED
      BY <1>3, <3>1, <3>2 DEF Ask, Mark, Swap
  <2>6. QED
    BY <2>3, <2>4, <2>5 DEF Handles
<1>4. ASSUME NEW d \in Delivery, Exchange(d) \/ PutNew(d) \/ Upsert(d) PROVE Handles'
  <2>1. CallsKnown'
    <3>1. resolve' = resolve /\ row'.handle \in {row.handle, d}
      BY <1>4 DEF Exchange, PutNew, Upsert
    <3>2. QED
      BY <1>0, <1>c, <1>k, <3>1 DEF CallsKnown, Known, Typed
  <2>2. RemovedKnown'
    <3>1. UNCHANGED <<remove, removed>> /\ row'.handle \in {row.handle, d}
      BY <1>4 DEF Exchange, PutNew, Upsert, history
    <3>2. QED
      BY <1>0, <1>x, <1>k, <3>1 DEF RemovedKnown, Known, Typed
  <2>3. RowKnown'
    <3>1. CASE row' = row
      BY <1>0, <1>k, <1>r, <3>1 DEF RowKnown, Known
    <3>2. CASE Upsert(d)
      BY <1>0, <3>2 DEF Upsert, RowKnown, Known, Typed, LinkRecord
    <3>3. QED
      BY <1>4, <3>1, <3>2 DEF Exchange, PutNew
  <2>4. Stored'
    BY <1>0, <1>4 DEF Exchange, PutNew, Upsert, Stored, Typed, LinkRecord
  <2>5. QED
    BY <2>1, <2>2, <2>3, <2>4 DEF Handles
<1>5. ASSUME NEW x \in Disconnect, DeleteSecret(x) \/ MarkRevoked(x) PROVE Handles'
  <2>1. /\ UNCHANGED <<deliver, resolve>> /\ row'.handle = row.handle
        /\ remove[x].at \in {"delete", "mark"}
        /\ \A y \in Disconnect : remove'[y].handle = remove[y].handle
        /\ \A y \in Disconnect : remove'[y].at = remove[y].at \/ y = x
        /\ removed' \subseteq removed \cup {remove[x].handle}
    BY <1>0, <1>5, <1>r DEF DeleteSecret, MarkRevoked, history, Typed, Row, Removal
  <2>2. RowKnown'
    <3>1. row.handle # Nobody
      BY <1>0, <2>1 DEF RemovedKnown
    <3>2. QED
      BY <1>0, <2>1, <3>1 DEF RowKnown, Known
  <2>3. CallsKnown' /\ RemovedKnown'
    BY <1>0, <2>1 DEF CallsKnown, RemovedKnown, Known
  <2>4. Stored'
    <3>1. remove[x].handle \in Delivery /\ deliver[remove[x].handle].at = "done"
      BY <1>0, <1>x, <2>1 DEF RemovedKnown, Known
    <3>2. secret' = secret \/ secret' = [secret EXCEPT ![remove[x].handle] = 0]
      BY <1>5 DEF DeleteSecret, MarkRevoked
    <3>3. QED
      BY <1>0, <2>1, <3>1, <3>2 DEF Stored, Typed
  <2>5. QED
    BY <2>2, <2>3, <2>4 DEF Handles
<1>6. QED
  BY <1>1, <1>2, <1>3, <1>4, <1>5, Split

-----------------------------------------------------------------------------
(* Tokens and their handles. A token gets a handle as it is issued, and no *)
(* step moves it to another one.                                           *)
LEMMA OfSteps ==
  ASSUME TypeOK, Carried, Handles, OneHandle, [Next]_vars
  PROVE  \/ \A h \in Delivery, n \in Token : Of(h, n)' => Of(h, n)
         \/ /\ issued' = issued + 1
            /\ \E o \in Delivery : \A h \in Delivery, n \in Token :
                 Of(h, n)' => Of(h, n) \/ (h = o /\ n = issued')
<1>0. Typed
  BY Types
<1> DEFINE Keeps == \A h \in Delivery, n \in Token : Of(h, n)' => Of(h, n)
<1>1. CASE Aside
  <2>1. ASSUME NEW h \in Delivery, NEW n \in Token, Of(h, n)' PROVE Of(h, n)
    BY <1>0, <1>1, <2>1 DEF Aside, Of, Delivers, Presents
  <2>2. QED
    BY <2>1
<1>2. ASSUME NEW c \in Caller, Reads(c) PROVE Keeps
  <2>1. ASSUME NEW h \in Delivery, NEW n \in Token, Of(h, n)' PROVE Of(h, n)
    <3>1. ASSUME NEW b \in Caller, Presents(b, h, n)' PROVE Of(h, n)
      BY <1>2, <3>1 DEF Reads, Presents, Of
    <3>2. QED
      BY <1>2, <2>1, <3>1 DEF Reads, Of, Delivers
  <2>2. QED
    BY <2>1
<1>3. ASSUME NEW c \in Caller, Ask(c), NEW h \in Delivery, NEW n \in Token, Of(h, n)'
      PROVE  Of(h, n) \/ (issued' = issued + 1 /\ h = resolve[c].handle /\ n = issued')
  <2>1. AskedOne(c) /\ resolve[c].at = "ask" /\ UNCHANGED <<row, secret, deliver>>
    BY <1>3, AskSteps DEF Ask
  <2>2. ASSUME NEW b \in Caller, Presents(b, h, n)'
        PROVE  Of(h, n) \/ (issued' = issued + 1 /\ h = resolve[c].handle /\ n = issued')
    <3>1. CASE b = c
      BY <1>3, <2>1, <2>2, <3>1, AskSteps DEF AskedOne, Presents, Of
    <3>2. CASE b # c
      BY <2>1, <2>2, <3>2 DEF AskedOne, Presents, Of
    <3>3. QED
      BY <3>1, <3>2
  <2>3. QED
    BY <1>3, <2>1, <2>2 DEF Of, Delivers
<1>4. ASSUME NEW c \in Caller, Mark(c) PROVE Keeps
  <2>1. AskedOne(c) /\ resolve'[c].at = "done" /\ UNCHANGED <<secret, deliver>>
        /\ row'.handle = row.handle /\ row'.token = row.token
    BY <1>0, <1>4, AskSteps DEF Mark, Quiet, Typed, Row
  <2>2. ASSUME NEW h \in Delivery, NEW n \in Token, Of(h, n)' PROVE Of(h, n)
    BY <2>1, <2>2 DEF AskedOne, Presents, Of, Delivers
  <2>3. QED
    BY <2>2
<1>5. ASSUME NEW c \in Caller, Swap(c) PROVE Keeps
  <2>1. AskedOne(c) /\ resolve[c].at = "swap" /\ resolve'[c].at \in {"put", "lost"}
        /\ resolve'[c].new = resolve[c].new /\ UNCHANGED <<secret, deliver>>
        /\ row'.handle = row.handle
    BY <1>0, <1>5, AskSteps DEF Swap, Quiet, Rotated, Typed, Row
  <2>2. row'.token = row.token \/ (row.token = resolve[c].token /\ row'.token = resolve[c].new)
    BY <1>0, <1>5 DEF Swap, Swaps, Rotated, Typed, Row
  <2>3. ASSUME NEW h \in Delivery, NEW n \in Token, row'.handle = h, row'.token = n PROVE Of(h, n)
    <3>1. CASE row'.token = row.token
      BY <2>1, <2>3, <3>1 DEF Of
    <3>2. CASE row.token = resolve[c].token /\ row'.token = resolve[c].new
      <4>1. resolve[c].token \in Token /\ resolve[c].handle \in Delivery
        BY <1>0, <2>1 DEF Carried, Handles, CallsKnown, Typed, CallRecord
      <4>2. Of(h, resolve[c].token) /\ Of(resolve[c].handle, resolve[c].token)
            /\ Of(resolve[c].handle, n)
        BY <2>1, <2>3, <3>2 DEF Of, Presents
      <4>3. QED
        BY <4>1, <4>2 DEF OneHandle
    <3>3. QED
      BY <2>2, <3>1, <3>2
  <2>4. ASSUME NEW h \in Delivery, NEW n \in Token, NEW b \in Caller, Presents(b, h, n)'
        PROVE  Presents(b, h, n)
    BY <2>1, <2>4 DEF AskedOne, Presents
  <2>5. ASSUME NEW h \in Delivery, NEW n \in Token, Of(h, n)' PROVE Of(h, n)
    BY <2>1, <2>3, <2>4, <2>5 DEF Of, Delivers
  <2>6. QED
    BY <2>5
<1>6. ASSUME NEW c \in Caller, PutRotated(c) PROVE Keeps
  <2>1. AskedOne(c) /\ resolve[c].at = "put" /\ resolve'[c].at = "done" /\ UNCHANGED <<row, deliver>>
    BY <1>6, AskSteps DEF PutRotated, Quiet
  <2>2. ASSUME NEW h \in Delivery, NEW n \in Token, secret'[h] = n PROVE Of(h, n)
    BY <1>0, <1>6, <2>1, <2>2 DEF PutRotated, Of, Presents, Typed
  <2>3. ASSUME NEW h \in Delivery, NEW n \in Token, Of(h, n)' PROVE Of(h, n)
    BY <2>1, <2>2, <2>3 DEF AskedOne, Presents, Of, Delivers
  <2>4. QED
    BY <2>3
<1>7. ASSUME NEW d \in Delivery, Exchange(d), NEW h \in Delivery, NEW n \in Token, Of(h, n)'
      PROVE  Of(h, n) \/ (issued' = issued + 1 /\ h = d /\ n = issued')
  BY <1>0, <1>7 DEF Exchange, Of, Delivers, Presents, Typed, LinkRecord
<1>8. ASSUME NEW d \in Delivery, PutNew(d) PROVE Keeps
  <2>1. ASSUME NEW h \in Delivery, NEW n \in Token, Of(h, n)' PROVE Of(h, n)
    BY <1>0, <1>8, <2>1 DEF PutNew, Of, Delivers, Presents, Typed, LinkRecord
  <2>2. QED
    BY <2>1
<1>9. ASSUME NEW d \in Delivery, Upsert(d) PROVE Keeps
  <2>1. ASSUME NEW h \in Delivery, NEW n \in Token, Of(h, n)' PROVE Of(h, n)
    BY <1>0, <1>9, <2>1 DEF Upsert, Of, Delivers, Presents, Typed, LinkRecord
  <2>2. QED
    BY <2>1
<1>10. ASSUME NEW x \in Disconnect, DeleteSecret(x) \/ MarkRevoked(x) PROVE Keeps
  <2>1. UNCHANGED <<resolve, deliver>> /\ row'.handle = row.handle /\ row'.token = row.token
        /\ \A h \in Delivery : secret'[h] \in {secret[h], 0}
    BY <1>0, <1>10 DEF DeleteSecret, MarkRevoked, Typed, Row
  <2>2. ASSUME NEW h \in Delivery, NEW n \in Token, Of(h, n)' PROVE Of(h, n)
    BY <2>1, <2>2 DEF Of, Delivers, Presents, Token
  <2>3. QED
    BY <2>2
<1>11. ASSUME NEW c \in Caller, Ask(c)
       PROVE  resolve[c].handle \in Delivery
  BY <1>0, <1>11 DEF Ask, Handles, CallsKnown, Typed, CallRecord
<1>12. ASSUME NEW c \in Caller, Ask(c)
       PROVE  Keeps \/ issued' = issued + 1
  BY <1>3, <1>12
<1>13. ASSUME NEW d \in Delivery, Exchange(d) PROVE issued' = issued + 1
  BY <1>13 DEF Exchange
<1>14. QED
  BY <1>1, <1>2, <1>3, <1>4, <1>5, <1>6, <1>7, <1>8, <1>9, <1>10, <1>11, <1>12, <1>13, Split

\* So a token keeps its one handle.
LEMMA TokenStep ==
  ASSUME TypeOK, Carried, Handles, OneHandle, Issued, [Next]_vars
  PROVE  OneHandle' /\ Issued' /\ issued \in Nat /\ issued' \in Nat /\ issued' >= issued
<1>0. issued \in Nat /\ issued' \in {issued, issued + 1} /\ \A n \in Token : n \in Nat
  <2>1. Typed
    BY Types
  <2>2. issued' \in {issued, issued + 1}
    BY Split
    DEF Aside, Reads, Ask, Mark, Swap, PutRotated, Quiet, Exchange, PutNew, Upsert,
       DeleteSecret,
        MarkRevoked, provider
  <2>3. QED
    BY <2>1, <2>2 DEF Typed, Token
<1>1. ASSUME NEW n \in Token, NEW g \in Delivery, NEW h \in Delivery, Of(g, n)', Of(h, n)'
      PROVE  g = h
  BY <1>0, <1>1, OfSteps DEF OneHandle, Issued
<1>2. ASSUME NEW n \in Token, NEW h \in Delivery, Of(h, n)' PROVE n <= issued'
  BY <1>0, <1>2, OfSteps DEF Issued
<1>3. QED
  BY <1>0, <1>1, <1>2 DEF OneHandle, Issued

-----------------------------------------------------------------------------
(* The record and its secret.                                              *)

\* What the record and the secrets of other handles are not: a completed link
\* has put its secret, and no link under way is the record's.
LEMMA ReadStep ==
  ASSUME TypeOK, Locked, Carried, Handles, OneHandle, Matched, Read, [Next]_vars
  PROVE  Read'
<1>0. Typed
  BY Types
<1> SUFFICES ASSUME ~torn', NEW b \in Caller, resolve'[b].handle = row'.handle
             PROVE  /\ resolve'[b].at \in {"ask", "swap"} => row'.token = resolve'[b].token
                    /\ resolve'[b].at = "put" => row'.token = resolve'[b].new
  BY DEF Read
<1> DEFINE Goal == /\ resolve'[b].at \in {"ask", "swap"} => row'.token = resolve'[b].token
                   /\ resolve'[b].at = "put" => row'.token = resolve'[b].new
<1>1. CASE Aside
  BY <1>1 DEF Aside, Read
<1>2. ASSUME NEW c \in Caller, Reads(c) PROVE Goal
  <2>1. ~torn /\ row' = row /\ secret' = secret
    BY <1>2 DEF Reads
  <2>2. CASE b # c
    BY <1>2, <2>1, <2>2 DEF Reads, Read
  <2>3. CASE b = c /\ resolve[c].at = "load" /\ resolve'[c].at = "ask"
    <3>1. resolve'[c].handle = resolve[c].handle /\ resolve[c].handle = row.handle
          /\ resolve'[c].token = secret[row.handle] /\ resolve'[c].token # 0 /\ row.handle # Nobody
      BY <1>2, <2>1, <2>3 DEF Reads, Handles, CallsKnown
    <3>2. \A a \in Caller : ~Rotating(a)
      BY <2>3 DEF Rotating, Locked, Inside
    <3>3. secret[row.handle] = row.token
      BY <2>1, <3>1, <3>2 DEF Matched
    <3>4. QED
      BY <2>1, <2>3, <3>1, <3>3
  <2>4. QED
    BY <1>2, <2>2, <2>3 DEF Reads
<1>3. ASSUME NEW c \in Caller, Ask(c) PROVE Goal
  <2>1. AskedOne(c) /\ resolve[c].at = "ask" /\ UNCHANGED <<row, torn>>
        /\ resolve'[c].at \in {"swap", "mark"}
    BY <1>3, AskSteps DEF Ask
  <2>2. QED
    BY <2>1 DEF AskedOne, Read
<1>4. ASSUME NEW c \in Caller, Mark(c) \/ PutRotated(c) PROVE Goal
  <2>1. AskedOne(c) /\ resolve'[c].at = "done" /\ torn' = torn
        /\ row'.token = row.token /\ row'.handle = row.handle
    BY <1>0, <1>4, AskSteps DEF Mark, PutRotated, Quiet, history, Typed, Row
  <2>2. QED
    BY <2>1 DEF AskedOne, Read
<1>5. ASSUME NEW c \in Caller, Swap(c) PROVE Goal
  <2>1. /\ AskedOne(c) /\ resolve[c].at = "swap" /\ torn' = torn /\ row'.handle = row.handle
        /\ resolve'[c].new = resolve[c].new
        /\ resolve'[c].at = IF Swaps(c) THEN "put" ELSE "lost"
        /\ Swaps(c) => row'.token = resolve[c].new
    BY <1>0, <1>5, AskSteps DEF Swap, Rotated, Quiet, history, Typed, Row
  <2>2. CASE b = c
    BY <2>1, <2>2
  <2>3. CASE b # c
    <3>1. resolve'[b].at \notin {"ask", "swap", "put"}
      BY <2>1, <2>3 DEF AskedOne, Locked, Inside
    <3>2. QED
      BY <3>1
  <2>4. QED
    BY <2>2, <2>3
<1>6. ASSUME NEW d \in Delivery, Exchange(d) \/ PutNew(d) PROVE Goal
  BY <1>6 DEF Exchange, PutNew, history, Read
<1>7. ASSUME NEW d \in Delivery, Upsert(d) PROVE Goal
  <2>1. resolve' = resolve /\ row'.handle = d /\ deliver[d].at = "upsert"
    BY <1>7 DEF Upsert
  <2>2. resolve'[b].handle # d
    BY <1>0, <2>1 DEF Handles, CallsKnown, Known, Typed
  <2>3. QED
    BY <2>1, <2>2
<1>8. ASSUME NEW x \in Disconnect, DeleteSecret(x) \/ MarkRevoked(x) PROVE Goal
  BY <1>0, <1>8 DEF DeleteSecret, MarkRevoked, history, Read, Typed, Row
<1>9. QED
  BY <1>1, <1>2, <1>3, <1>4, <1>5, <1>6, <1>7, <1>8, Split

\* The record and its secret agree, or are being brought together.
LEMMA MatchedStep ==
  ASSUME TypeOK, Locked, Carried, Handles, OneHandle, Matched, Read, [Next]_vars
  PROVE  Matched'
<1>0. Typed
  BY Types
<1> DEFINE Paired == \/ secret[row.handle] \in {0, row.token}
                     \/ \E c \in Caller : Rotating(c)
           Deleted == Connected /\ secret[row.handle] = 0 =>
                        \E x \in Disconnect : remove[x].at = "mark" /\ remove[x].handle = row.handle
<1> SUFFICES ASSUME ~torn', row'.handle # Nobody PROVE Paired' /\ Deleted'
  BY DEF Matched
<1>a. ASSUME ~torn, row.handle # Nobody PROVE Paired /\ Deleted
  BY <1>a DEF Matched
<1>r. row.handle \in Delivery \cup {Nobody} /\ row \in Row
  BY <1>0 DEF Typed, Row
<1> HIDE DEF Paired, Deleted
<1>1. CASE Aside
  <2>1. Paired /\ Deleted
    BY <1>1, <1>a DEF Aside
  <2>2. Paired'
    BY <1>1, <2>1 DEF Aside, Paired, Rotating
  <2>3. Deleted'
    BY <1>1, <2>1 DEF Aside, Deleted, Connected
  <2>4. QED
    BY <2>2, <2>3
<1>2. ASSUME NEW c \in Caller, Reads(c) PROVE Paired' /\ Deleted'
  <2>1. Paired /\ Deleted /\ UNCHANGED <<row, secret, remove>>
    BY <1>2, <1>a DEF Reads
  <2>2. ASSUME NEW a \in Caller, Rotating(a) PROVE Rotating(a)'
    BY <1>2, <2>2 DEF Reads, Rotating
  <2>3. QED
    BY <2>1, <2>2 DEF Paired, Deleted, Connected
<1>3. ASSUME NEW c \in Caller, Ask(c) \/ Mark(c) PROVE Paired' /\ Deleted'
  <2>1. /\ AskedOne(c) /\ resolve[c].at # "put" /\ torn' = torn /\ UNCHANGED <<secret, remove>>
        /\ row'.handle = row.handle /\ row'.token = row.token
        /\ row' = row \/ row'.status # "CONNECTED"
    BY <1>0, <1>3, <1>r, AskSteps DEF Ask, Mark, Quiet, history, Row
  <2>2. Paired /\ Deleted
    BY <1>a, <2>1
  <2>3. ASSUME NEW a \in Caller, Rotating(a) PROVE Rotating(a)'
    BY <2>1, <2>3 DEF AskedOne, Rotating
  <2>4. QED
    BY <2>1, <2>2, <2>3 DEF Paired, Deleted, Connected
<1>4. ASSUME NEW c \in Caller, Swap(c) PROVE Paired' /\ Deleted'
  <2>1. /\ AskedOne(c) /\ resolve[c].at = "swap" /\ UNCHANGED <<secret, remove, torn>>
        /\ row'.handle = row.handle /\ row'.status = row.status
        /\ resolve'[c].at = IF Swaps(c) THEN "put" ELSE "lost"
        /\ ~Swaps(c) => row' = row
    BY <1>0, <1>4, <1>r, AskSteps DEF Swap, Rotated, Quiet, history, Row
  <2>2. Paired /\ Deleted
    BY <1>a, <2>1
  <2>3. Deleted'
    BY <2>1, <2>2 DEF Deleted, Connected
  <2>4. \A a \in Caller : ~Rotating(a)
    BY <2>1 DEF Rotating, Locked, Inside
  <2>5. CASE Swaps(c)
    <3>1. resolve[c].token \in Token /\ resolve[c].handle \in Delivery /\ row.handle \in Delivery
      BY <1>0, <1>r, <2>1 DEF Carried, Handles, CallsKnown, Typed, CallRecord
    <3>2. Of(row.handle, resolve[c].token) /\ Of(resolve[c].handle, resolve[c].token)
      BY <2>1, <2>5, <3>1 DEF Swaps, Of, Presents
    <3>3. resolve[c].handle = row.handle
      BY <3>1, <3>2 DEF OneHandle
    <3>4. Rotating(c)'
      BY <2>1, <2>5, <3>3 DEF AskedOne, Rotating
    <3>5. QED
      BY <2>3, <3>4 DEF Paired
  <2>6. CASE ~Swaps(c)
    BY <2>1, <2>2, <2>3, <2>4, <2>6 DEF Paired
  <2>7. QED
    BY <2>5, <2>6
<1>5. ASSUME NEW c \in Caller, PutRotated(c) PROVE Paired' /\ Deleted'
  <2>1. /\ resolve[c].at = "put" /\ UNCHANGED <<row, remove, torn>>
        /\ secret' = [secret EXCEPT ![resolve[c].handle] = resolve[c].new]
    BY <1>5 DEF PutRotated, Quiet, history
  <2>2. Paired /\ Deleted
    BY <1>a, <2>1
  <2>3. CASE resolve[c].handle = row.handle
    <3>1. secret'[row'.handle] = row'.token /\ secret'[row'.handle] # 0
      BY <1>0, <1>r, <2>1, <2>3 DEF Read, Typed, Carried
    <3>2. QED
      BY <3>1 DEF Paired, Deleted
  <2>4. CASE resolve[c].handle # row.handle
    <3>1. \A a \in Caller : ~Rotating(a)
      BY <2>1, <2>4 DEF Rotating, Locked, Inside
    <3>2. secret'[row'.handle] = secret[row.handle]
      BY <1>0, <1>r, <2>1, <2>4 DEF Typed
    <3>3. QED
      BY <2>1, <2>2, <3>1, <3>2 DEF Paired, Deleted, Connected
  <2>5. QED
    BY <2>3, <2>4
<1>6. ASSUME NEW d \in Delivery, Exchange(d) \/ PutNew(d) PROVE Paired' /\ Deleted'
  <2>1. /\ UNCHANGED <<row, resolve, remove, torn>> /\ deliver[d].at # "done"
        /\ \A h \in Delivery \ {d} : secret'[h] = secret[h]
    BY <1>0, <1>6 DEF Exchange, PutNew, history, Typed
  <2>2. row.handle # d /\ Paired /\ Deleted
    BY <1>a, <1>r, <2>1 DEF Handles, RowKnown, Known
  <2>3. secret'[row.handle] = secret[row.handle]
    BY <1>r, <2>1, <2>2
  <2>4. QED
    BY <2>1, <2>2, <2>3 DEF Paired, Deleted, Connected, Rotating
<1>7. ASSUME NEW d \in Delivery, Upsert(d) PROVE Paired' /\ Deleted'
  <2>1. secret'[row'.handle] = row'.token /\ row'.token # 0
    BY <1>7 DEF Upsert, Handles, Stored, Carried
  <2>2. QED
    BY <2>1 DEF Paired, Deleted
<1>8. ASSUME NEW x \in Disconnect, DeleteSecret(x) PROVE Paired' /\ Deleted'
  <2>1. /\ UNCHANGED <<row, resolve, torn>> /\ remove'[x].at = "mark"
        /\ \A y \in Disconnect : /\ remove'[y].handle = remove[y].handle
                                 /\ remove[y].at = "mark" => remove'[y].at = "mark"
        /\ \A h \in Delivery : secret'[h] = IF h = remove[x].handle THEN 0 ELSE secret[h]
    BY <1>0, <1>8 DEF DeleteSecret, history, Typed, Removal
  <2>2. Paired /\ Deleted /\ row.handle \in Delivery
    BY <1>a, <1>r, <2>1
  <2>3. Paired'
    BY <2>1, <2>2 DEF Paired, Rotating
  <2>4. Deleted'
    BY <2>1, <2>2 DEF Deleted, Connected
  <2>5. QED
    BY <2>3, <2>4
<1>9. ASSUME NEW x \in Disconnect, MarkRevoked(x) PROVE Paired' /\ Deleted'
  <2>1. /\ UNCHANGED <<secret, resolve, torn>> /\ row'.handle = row.handle
        /\ row'.token = row.token /\ row'.status # "CONNECTED"
    BY <1>0, <1>9, <1>r DEF MarkRevoked, Row
  <2>2. QED
    BY <1>a, <2>1 DEF Paired, Deleted, Connected, Rotating
<1>10. QED
  BY <1>1, <1>2, <1>3, <1>4, <1>5, <1>6, <1>7, <1>8, <1>9, Split

-----------------------------------------------------------------------------
(* Tokens that were never presented.                                       *)

\* A token that has just been issued was never presented.
LEMMA UnshownStep ==
  ASSUME TypeOK, Locked, Carried, Handles, OneHandle, Issued, Fresh, [Next]_vars
  PROVE  Unshown'
<1>0. Typed /\ Unshown /\ \A n \in Token : n \in Nat
  BY Types DEF Fresh, Typed, Token
<1>n. issued \in Nat /\ issued' \in Nat /\ issued' >= issued
  BY TokenStep
<1>1. CASE Aside
  BY <1>0, <1>1 DEF Aside, Unshown, Unused
<1>2. ASSUME NEW c \in Caller, Reads(c) PROVE Unshown'
  BY <1>0, <1>2 DEF Reads, Unshown, Unused, Reading, history
<1>3. ASSUME NEW c \in Caller, Ask(c) PROVE Unshown'
  <2>1. /\ AskedOne(c) /\ resolve[c].at = "ask" /\ UNCHANGED deliver
        /\ resolve[c].token \in Token /\ resolve[c].handle \in Delivery
    BY <1>0, <1>3, AskSteps DEF Ask, Typed, CallRecord, Carried, Handles, CallsKnown
  <2>2. \A n \in Token : n # resolve[c].token => shown'[n] = shown[n]
    BY <1>0, <1>3 DEF Ask, Typed
  <2>3. Of(resolve[c].handle, resolve[c].token) /\ resolve[c].token <= issued
    BY <2>1 DEF Of, Presents, Issued
  <2>4. ASSUME NEW d \in Delivery, deliver[d].at \in {"put", "upsert"}, deliver[d].token \in Token
        PROVE  deliver[d].token # resolve[c].token
    <3>1. resolve[c].handle # d
      BY <2>1, <2>4 DEF Handles, CallsKnown, Known, Typed
    <3>2. QED
      BY <2>1, <2>3, <2>4, <3>1 DEF Of, Delivers, OneHandle
  <2>5. \A n \in Token : n > issued' => shown'[n] = 0
    BY <1>0, <1>n, <2>1, <2>2, <2>3 DEF Unshown
  <2>6. \A d \in Delivery : deliver'[d].at \in {"put", "upsert"} => Unused(deliver[d].token)'
    BY <1>0, <2>1, <2>2, <2>4 DEF Unshown, Unused, Typed, LinkRecord
  <2>7. ASSUME NEW b \in Caller, resolve'[b].at \in {"swap", "put"} PROVE Unused(resolve[b].new)'
    <3>1. b = c
      BY <2>1, <2>7 DEF AskedOne, Locked, Inside
    <3>2. resolve'[c].new = issued + 1 /\ resolve'[c].new \in Token
      BY <1>0, <1>3, <2>7, <3>1, AskSteps, CallTyped DEF Resolving, CallRecord, Typed, Token
    <3>3. QED
      BY <1>0, <1>n, <2>2, <2>3, <3>1, <3>2 DEF Unshown, Unused
  <2>8. QED
    BY <2>1, <2>5, <2>6, <2>7 DEF Unshown
<1>4. ASSUME NEW c \in Caller, Mark(c) \/ PutRotated(c) \/ Swap(c) PROVE Unshown'
  <2>1. /\ AskedOne(c) /\ UNCHANGED <<deliver, shown, issued>>
        /\ resolve'[c].at \in {"swap", "put"}
             => resolve[c].at = "swap" /\ resolve'[c].new = resolve[c].new
    BY <1>4, AskSteps DEF Mark, PutRotated, Swap, Quiet, history, provider
  <2>2. QED
    BY <1>0, <2>1 DEF AskedOne, Unshown, Unused
<1>5. ASSUME NEW d \in Delivery, Exchange(d) PROVE Unshown'
  <2>1. /\ UNCHANGED <<shown, resolve>> /\ issued' = issued + 1 /\ issued' \in Token
        /\ deliver'[d].token = issued'
        /\ \A e \in Delivery : e # d => deliver'[e] = deliver[e]
    BY <1>0, <1>n, <1>5 DEF Exchange, history, Typed, LinkRecord, Token
  <2>0. issued' > issued /\ \A n \in Nat : n > issued' => n > issued
    BY <1>n, <2>1
  <2>2. shown[issued'] = 0 /\ \A n \in Token : n > issued' => n > issued
    <3>1. \A n \in Token : n > issued => shown[n] = 0
      BY <1>0 DEF Unshown
    <3>2. QED
      BY <1>0, <2>1, <2>0, <3>1
  <2>3. ASSUME NEW e \in Delivery, deliver'[e].at \in {"put", "upsert"}
        PROVE  Unused(deliver[e].token)'
    BY <1>0, <2>1, <2>2, <2>3 DEF Unshown, Unused
  <2>4. QED
    BY <1>0, <2>1, <2>2, <2>3 DEF Unshown, Unused
<1>6. ASSUME NEW d \in Delivery, PutNew(d) \/ Upsert(d) PROVE Unshown'
  BY <1>0, <1>6 DEF PutNew, Upsert, history, provider, Typed, LinkRecord, Unshown, Unused
<1>7. ASSUME NEW x \in Disconnect, DeleteSecret(x) \/ MarkRevoked(x) PROVE Unshown'
  BY <1>0, <1>7 DEF DeleteSecret, MarkRevoked, history, provider, Unshown, Unused
<1>8. QED
  BY <1>1, <1>2, <1>3, <1>4, <1>5, <1>6, <1>7, Split

\* What a call has read under the lock was never presented.
LEMMA LoadedStep ==
  ASSUME TypeOK, Locked, Carried, Handles, Fresh, [Next]_vars
  PROVE  Loaded'
<1>0. Typed /\ Loaded /\ Stocked /\ Unshown
  BY Types DEF Fresh
<1> SUFFICES ASSUME ~torn', NEW b \in Caller
             PROVE  /\ resolve'[b].at = "load" => Unused(secret[resolve[b].handle])'
                    /\ resolve'[b].at = "ask" => Unused(resolve[b].token)'
  BY DEF Loaded
<1> DEFINE Goal == /\ resolve'[b].at = "load" => Unused(secret[resolve[b].handle])'
                   /\ resolve'[b].at = "ask" => Unused(resolve[b].token)'
<1>1. CASE Aside
  BY <1>0, <1>1 DEF Aside, Loaded, Unused
<1>2. ASSUME NEW c \in Caller, Reads(c) PROVE Goal
  <2>1. ~torn /\ UNCHANGED <<row, secret, shown>>
    BY <1>2 DEF Reads
  <2>2. CASE b # c
    BY <1>0, <1>2, <2>1, <2>2 DEF Reads, Loaded, Unused
  <2>3. CASE b = c /\ resolve[c].at = "check" /\ resolve'[c].at = "load"
    <3>1. \A a \in Caller : ~Presenting(a)
      BY <2>3 DEF Presenting, Locked, Inside
    <3>2. Connected /\ resolve'[c].handle = row.handle
      BY <1>2, <2>3 DEF Reads
    <3>3. QED
      BY <1>0, <2>1, <2>3, <3>1, <3>2 DEF Stocked, Unused
  <2>4. CASE b = c /\ resolve[c].at = "load" /\ resolve'[c].at = "ask"
    <3>1. resolve'[c].token = secret[resolve[c].handle]
      BY <1>2, <2>4 DEF Reads
    <3>2. QED
      BY <1>0, <2>1, <2>4, <3>1 DEF Loaded, Unused
  <2>5. QED
    BY <1>2, <2>2, <2>3, <2>4 DEF Reads
<1>3. ASSUME NEW c \in Caller, Ask(c) \/ Mark(c) \/ Swap(c) \/ PutRotated(c) PROVE Goal
  <2>1. AskedOne(c) /\ resolve[c].at \in Inside /\ resolve'[c].at \notin {"load", "ask"}
    BY <1>3, AskSteps DEF Ask, Mark, Swap, PutRotated, Inside
  <2>2. b # c => resolve'[b].at \notin Inside
    BY <2>1 DEF AskedOne, Locked
  <2>3. QED
    BY <2>1, <2>2 DEF Inside
<1>4. ASSUME NEW d \in Delivery, Exchange(d) \/ PutNew(d) \/ Upsert(d) PROVE Goal
  <2>1. /\ UNCHANGED <<resolve, shown, torn>> /\ deliver[d].at # "done"
        /\ \A h \in Delivery : h # d => secret'[h] = secret[h]
    BY <1>0, <1>4 DEF Exchange, PutNew, Upsert, history, Typed
  <2>2. resolve[b].at = "load" => resolve[b].handle \in Delivery \ {d}
    BY <1>0, <2>1 DEF Handles, CallsKnown, Known, Typed, CallRecord
  <2>3. QED
    BY <1>0, <2>1, <2>2 DEF Loaded, Unused
<1>5. ASSUME NEW x \in Disconnect, DeleteSecret(x) \/ MarkRevoked(x) PROVE Goal
  <2>1. /\ UNCHANGED <<resolve, shown, torn>>
        /\ \A h \in Delivery : secret'[h] \in {secret[h], 0}
    BY <1>0, <1>5 DEF DeleteSecret, MarkRevoked, history, Typed
  <2>2. resolve[b].at = "load" => resolve[b].handle \in Delivery
    BY <1>0 DEF Handles, CallsKnown, Typed, CallRecord
  <2>3. QED
    BY <1>0, <2>1, <2>2 DEF Loaded, Unused
<1>6. QED
  BY <1>1, <1>2, <1>3, <1>4, <1>5, Split

\* What the connected record offers was never presented, unless the call that
\* holds the lock has presented it.
LEMMA StockedStep ==
  ASSUME TypeOK, Locked, Carried, Handles, OneHandle, Read, Fresh, [Next]_vars
  PROVE  Stocked'
<1>0. Typed /\ Stocked /\ Unshown
  BY Types DEF Fresh
<1>r. row \in Row /\ (Connected => row.handle \in Delivery)
  BY <1>0 DEF Typed, Row, Handles, RowKnown, Connected, NoRow
<1> SUFFICES ASSUME ~torn', Connected'
             PROVE  Unused(secret[row.handle])' \/ \E c \in Caller : Presenting(c)'
  BY DEF Stocked
<1> DEFINE Goal == Unused(secret[row.handle])' \/ \E c \in Caller : Presenting(c)'
<1>1. CASE Aside
  BY <1>0, <1>1 DEF Aside, Stocked, Unused, Presenting, Connected
<1>2. ASSUME NEW c \in Caller, Reads(c) PROVE Goal
  <2>1. ASSUME NEW a \in Caller, Presenting(a) PROVE Presenting(a)'
    BY <1>2, <2>1 DEF Reads, Presenting
  <2>2. QED
    BY <1>0, <1>2, <2>1 DEF Reads, Stocked, Unused, Connected
<1>3. ASSUME NEW c \in Caller, Ask(c) PROVE Goal
  <2>1. /\ AskedOne(c) /\ resolve[c].at = "ask" /\ UNCHANGED <<row, secret, torn>>
        /\ resolve'[c].at \in {"swap", "mark"}
        /\ \A n \in Token : n # resolve[c].token => shown'[n] = shown[n]
    BY <1>0, <1>3, AskSteps DEF Ask, Typed
  <2>2. Connected /\ row.handle \in Delivery /\ ~torn
    BY <1>r, <2>1 DEF Connected
  <2>3. \A a \in Caller : ~Presenting(a)
    BY <2>1 DEF Presenting, Locked, Inside
  <2>4. CASE secret[row.handle] = resolve[c].token
    <3>1. resolve[c].token \in Token /\ resolve[c].handle \in Delivery
      BY <1>0, <2>1 DEF Carried, Handles, CallsKnown, Typed, CallRecord
    <3>2. Of(row.handle, resolve[c].token) /\ Of(resolve[c].handle, resolve[c].token)
      BY <2>1, <2>4 DEF Of, Presents
    <3>3. resolve[c].handle = row.handle
      BY <2>2, <3>1, <3>2 DEF OneHandle
    <3>4. Presenting(c)'
      BY <2>1, <3>3 DEF AskedOne, Presenting
    <3>5. QED
      BY <3>4
  <2>5. CASE secret[row.handle] # resolve[c].token
    BY <1>0, <2>1, <2>2, <2>3, <2>5 DEF Stocked, Unused, Typed
  <2>6. QED
    BY <2>4, <2>5
<1>4. ASSUME NEW c \in Caller, Mark(c) PROVE Goal
  BY <1>4, <1>r DEF Mark, Connected, Row
<1>5. ASSUME NEW c \in Caller, Swap(c) PROVE Goal
  <2>1. /\ AskedOne(c) /\ resolve[c].at = "swap" /\ UNCHANGED <<secret, shown, torn>>
        /\ row'.handle = row.handle /\ row'.status = row.status
        /\ resolve'[c].at = IF Swaps(c) THEN "put" ELSE "lost"
    BY <1>5, <1>r, AskSteps DEF Swap, Rotated, Quiet, history, Row
  <2>2. CASE resolve[c].handle = row.handle
    <3>1. Swaps(c)
      BY <2>1, <2>2 DEF Read, Swaps
    <3>2. Presenting(c)'
      BY <2>1, <2>2, <3>1 DEF AskedOne, Presenting
    <3>3. QED
      BY <3>2
  <2>3. CASE resolve[c].handle # row.handle
    <3>1. \A a \in Caller : ~Presenting(a)
      BY <2>1, <2>3 DEF Presenting, Locked, Inside
    <3>2. QED
      BY <1>0, <2>1, <3>1 DEF Stocked, Unused, Connected
  <2>4. QED
    BY <2>2, <2>3
<1>6. ASSUME NEW c \in Caller, PutRotated(c) PROVE Goal
  <2>1. /\ resolve[c].at = "put" /\ UNCHANGED <<row, shown, torn>>
        /\ secret' = [secret EXCEPT ![resolve[c].handle] = resolve[c].new]
    BY <1>6 DEF PutRotated, Quiet, history
  <2>2. Connected /\ row.handle \in Delivery
    BY <1>r, <2>1 DEF Connected
  <2>3. CASE resolve[c].handle = row.handle
    <3>1. secret'[row'.handle] = resolve[c].new
      BY <1>0, <2>1, <2>2, <2>3 DEF Typed
    <3>2. QED
      BY <1>0, <2>1, <3>1 DEF Unshown, Unused
  <2>4. CASE resolve[c].handle # row.handle
    <3>1. \A a \in Caller : ~Presenting(a)
      BY <2>1, <2>4 DEF Presenting, Locked, Inside
    <3>2. secret'[row'.handle] = secret[row.handle]
      BY <1>0, <2>1, <2>2, <2>4 DEF Typed
    <3>3. QED
      BY <1>0, <2>1, <2>2, <3>1, <3>2 DEF Stocked, Unused
  <2>5. QED
    BY <2>3, <2>4
<1>7. ASSUME NEW d \in Delivery, Exchange(d) \/ PutNew(d) PROVE Goal
  <2>1. /\ UNCHANGED <<row, resolve, shown, torn>> /\ deliver[d].at # "done"
        /\ \A h \in Delivery : h # d => secret'[h] = secret[h]
    BY <1>0, <1>7 DEF Exchange, PutNew, history, Typed
  <2>2. Connected /\ row.handle \in Delivery
    BY <1>r, <2>1 DEF Connected
  <2>3. row.handle # d
    <3>1. d # Nobody
      BY <1>0 DEF Typed
    <3>2. row.handle # Nobody => deliver[row.handle].at = "done"
      BY DEF Handles, RowKnown, Known
    <3>3. QED
      BY <2>1, <3>1, <3>2
  <2>4. QED
    BY <1>0, <2>1, <2>2, <2>3 DEF Stocked, Unused, Presenting
<1>8. ASSUME NEW d \in Delivery, Upsert(d) PROVE Goal
  <2>1. /\ shown' = shown /\ secret'[row'.handle] = deliver[d].token /\ deliver[d].at = "upsert"
    BY <1>8 DEF Upsert, Handles, Stored
  <2>2. QED
    BY <1>0, <2>1 DEF Unshown, Unused
<1>9. ASSUME NEW x \in Disconnect, DeleteSecret(x) PROVE Goal
  <2>1. /\ UNCHANGED <<row, resolve, shown, torn>>
        /\ \A h \in Delivery : secret'[h] \in {secret[h], 0}
    BY <1>0, <1>9 DEF DeleteSecret, history, Typed
  <2>2. Connected /\ row.handle \in Delivery
    BY <1>r, <2>1 DEF Connected
  <2>3. QED
    BY <1>0, <2>1, <2>2 DEF Stocked, Unused, Presenting
<1>10. ASSUME NEW x \in Disconnect, MarkRevoked(x) PROVE Goal
  BY <1>10, <1>r DEF MarkRevoked, Connected, Row
<1>11. QED
  BY <1>1, <1>2, <1>3, <1>4, <1>5, <1>6, <1>7, <1>8, <1>9, <1>10, Split

-----------------------------------------------------------------------------
(* Removed handles.                                                        *)

\* A handle stays disconnected.
LEMMA GoneStep == ASSUME TypeOK, Handles, Gone, Told, [Next]_vars PROVE Gone' /\ Told'
<1>0. Typed /\ resolve \in [Caller -> CallRecord]
  BY Types DEF Typed
<1>r. row \in Row
  BY <1>0 DEF Typed
<1> DEFINE First == row.handle \in removed => ~Connected
           Second == \A c \in late : /\ row.handle \in removed
                                      /\ resolve[c].at \in {"bind", "done"} /\ resolve[c].told = 0
<1>g. First /\ Second
  BY DEF Gone
<1>1. CASE Aside
  BY <1>0, <1>1 DEF Aside, Gone, Told, Connected, Typed
<1>2. ASSUME NEW c \in Caller, Reading(c) \/ Ask(c) \/ Mark(c) \/ Swap(c) \/ PutRotated(c)
      PROVE  Gone' /\ Told'
  <2>1. /\ removed' = removed /\ row'.handle = row.handle
        /\ row'.status = row.status \/ row'.status # "CONNECTED"
        /\ \A b \in Caller : b # c => resolve'[b] = resolve[b]
    <3>1. CASE Reading(c)
      BY <3>1, ReadSteps DEF Reads
    <3>2. CASE Ask(c) \/ Mark(c) \/ Swap(c) \/ PutRotated(c)
      BY <1>r, <3>2, AskSteps DEF AskedOne, Ask, Mark, Swap, PutRotated, Rotated, Quiet,
         history, Row
    <3>3. QED
      BY <1>2, <3>1, <3>2
  <2>2. First'
    BY <1>g, <2>1 DEF Connected
  <2>3. resolve'[c].at # "done" => resolve'[c].told = 0
    <3>1. resolve[c].at = "done" \/ resolve[c].told = 0
      BY DEF Told
    <3>2. CASE Resolve(c)
      <4>1. PICK d \in Delivery :
               \/ resolve' = [resolve EXCEPT ![c].at = "done"]
               \/ resolve' = [resolve EXCEPT ![c].at = "bind", ![c].handle = d, ![c].token = secret[d]]
        BY <3>2 DEF Resolve
      <4>2. QED
        BY <1>0, <3>1, <3>2, <4>1 DEF Resolve, CallRecord
    <3>3. CASE CutResolve(c) \/ Bind(c) \/ Lock(c) \/ LoadAgain(c) \/ Current(c)
      BY <1>0, <3>1, <3>3 DEF CutResolve, Bind, Lock, LoadAgain, Current, At, Answer, CallRecord
    <3>4. CASE Load(c) \/ Lost(c) \/ Ask(c) \/ Mark(c) \/ Swap(c) \/ PutRotated(c)
      BY <1>0, <3>1, <3>4 DEF Load, Lost, Ask, Mark, Swap, PutRotated, At, Answer, CallRecord
    <3>5. QED
      BY <1>2, <3>2, <3>3, <3>4 DEF Reading
  <2>4. late' \subseteq late \cup {c}
    BY <1>2 DEF Reading, Resolve, CutResolve, Bind, Lock, LoadAgain, Current, Load, Lost, Ask,
       Mark, Swap, PutRotated, Quiet, history
  <2>5. c \in late' => /\ row.handle \in removed
                       /\ resolve'[c].at \in {"bind", "done"} /\ resolve'[c].told = 0
    <3>1. CASE Resolve(c)
      <4>1. PICK d \in Delivery :
               \/ resolve' = [resolve EXCEPT ![c].at = "done"]
               \/ resolve' = [resolve EXCEPT ![c].at = "bind", ![c].handle = d, ![c].token = secret[d]]
        BY <3>1 DEF Resolve
      <4>2. resolve'[c].at \in {"bind", "done"} /\ resolve'[c].told = resolve[c].told
        BY <1>0, <4>1 DEF CallRecord
      <4>3. resolve[c].told = 0 /\ (late' = late \/ row.handle \in removed)
        BY <3>1 DEF Resolve, Told
      <4>4. QED
        BY <1>g, <4>2, <4>3
    <3>2. CASE Bind(c)
      <4>1. late' = late
        BY <3>2 DEF Bind, Quiet, history
      <4>2. c \in late => ~Connected
        BY <1>g
      <4>3. QED
        BY <1>0, <1>g, <3>2, <4>1, <4>2 DEF Bind, Answer, CallRecord
    <3>3. CASE CutResolve(c)
      BY <1>0, <1>g, <3>3 DEF CutResolve, At, CallRecord
    <3>4. CASE Lock(c) \/ LoadAgain(c) \/ Current(c) \/ Load(c) \/ Lost(c) \/ Ask(c) \/ Mark(c)
               \/ Swap(c) \/ PutRotated(c)
      <4>1. late' = late /\ resolve[c].at \notin {"bind", "done"}
        BY <3>4 DEF Lock, LoadAgain, Current, Load, Lost, Ask, Mark, Swap, PutRotated, Quiet,
           history
      <4>2. QED
        BY <1>g, <4>1
    <3>5. QED
      BY <1>2, <3>1, <3>2, <3>3, <3>4 DEF Reading
  <2>6. Second'
    BY <1>g, <2>1, <2>4, <2>5, <1>0 DEF Typed
  <2>7. Told'
    BY <2>1, <2>3 DEF Told
  <2>8. QED
    BY <2>2, <2>6, <2>7 DEF Gone
<1>3. ASSUME NEW d \in Delivery, Exchange(d) \/ PutNew(d) PROVE Gone' /\ Told'
  BY <1>3 DEF Exchange, PutNew, history, Gone, Told, Connected
<1>4. ASSUME NEW d \in Delivery, Upsert(d) PROVE Gone' /\ Told'
  <2>1. d \notin removed /\ removed' = removed /\ late' = {} /\ row'.handle = d /\ resolve' = resolve
    BY <1>0, <1>4 DEF Upsert, Handles, RemovedKnown, Known, Typed
  <2>2. QED
    BY <2>1 DEF Gone, Told
<1>5. ASSUME NEW x \in Disconnect, DeleteSecret(x) PROVE Gone' /\ Told'
  BY <1>5 DEF DeleteSecret, history, Gone, Told, Connected
<1>6. ASSUME NEW x \in Disconnect, MarkRevoked(x) PROVE Gone' /\ Told'
  <2>1. /\ row'.handle = row.handle /\ row'.status = "REVOKED"
        /\ removed \subseteq removed' /\ UNCHANGED <<late, resolve>>
    BY <1>r, <1>6 DEF MarkRevoked, Row
  <2>2. QED
    BY <2>1 DEF Gone, Told, Connected
<1>7. QED
  BY <1>1, <1>2, <1>3, <1>4, <1>5, <1>6, Split

-----------------------------------------------------------------------------
(* The theorems.                                                           *)

\* So a token is presented once.
LEMMA OnceStep ==
  ASSUME TypeOK, Carried, Loaded, PresentedOnce, [Next]_vars
  PROVE  PresentedOnce'
<1>0. Typed
  BY Types
<1>1. CASE Aside
  BY <1>1 DEF Aside, PresentedOnce
<1>2. ASSUME NEW c \in Caller, Reads(c) PROVE PresentedOnce'
  BY <1>2 DEF Reads, PresentedOnce
<1>3. ASSUME NEW c \in Caller, Ask(c) PROVE PresentedOnce'
  <2>1. /\ resolve[c].at = "ask" /\ resolve[c].token \in Token /\ torn' = torn
        /\ shown' = [shown EXCEPT ![resolve[c].token] = @ + 1]
    BY <1>0, <1>3 DEF Ask, Carried, Typed, CallRecord
  <2>2. torn \/ shown[resolve[c].token] = 0
    BY <2>1 DEF Loaded, Unused, Token
  <2>3. torn \/ \A n \in Token : shown'[n] <= 1
    BY <1>0, <2>1, <2>2 DEF PresentedOnce, Typed
  <2>4. QED
    BY <2>1, <2>3 DEF PresentedOnce
<1>4. ASSUME NEW c \in Caller, Mark(c) \/ Swap(c) \/ PutRotated(c) PROVE PresentedOnce'
  BY <1>4 DEF Mark, Swap, PutRotated, Quiet, history, PresentedOnce
<1>5. ASSUME NEW d \in Delivery, Exchange(d) \/ PutNew(d) \/ Upsert(d) PROVE PresentedOnce'
  BY <1>5 DEF Exchange, PutNew, Upsert, history, PresentedOnce
<1>6. ASSUME NEW x \in Disconnect, DeleteSecret(x) \/ MarkRevoked(x) PROVE PresentedOnce'
  BY <1>6 DEF DeleteSecret, MarkRevoked, history, PresentedOnce
<1>7. QED
  BY <1>1, <1>2, <1>3, <1>4, <1>5, <1>6, Split

\* The invariant holds at the start,
LEMMA InitInv == Init => CredentialInv
<1> SUFFICES ASSUME Init PROVE CredentialInv
  OBVIOUS
<1>0. /\ \A c \in Caller : resolve[c] = [at |-> "idle", handle |-> Nobody, token |-> 0,
                                          new |-> 0, told |-> 0]
      /\ \A d \in Delivery : deliver[d] = [at |-> "idle", token |-> 0] /\ secret[d] = 0
      /\ \A x \in Disconnect : remove[x] = [at |-> "idle", handle |-> Nobody]
      /\ \A n \in Token : shown[n] = 0
      /\ row = NoRow /\ removed = {} /\ late = {} /\ issued = 0
      /\ Nobody \notin Delivery
  BY CredentialAssumption DEF Init, Nobody
<1>1. TypeOK
  <2>1. /\ row \in [status : {"NONE", "CONNECTED", "REAUTHORIZATION_REQUIRED", "REVOKED"},
                   handle : Delivery \cup {Nobody}, token : Token \cup {0},
                   fresh : BOOLEAN, old : BOOLEAN]
        /\ nonce \in [Link -> {"none", "open", "consumed"}]
        /\ secret \in [Delivery -> Token \cup {0}] /\ shown \in [Token -> Nat]
    BY DEF Init, NoRow
  <2>2. resolve \in [Caller -> CallRecord]
    BY DEF Init, CallRecord
  <2>3. deliver \in [Delivery -> LinkRecord] /\ remove \in [Disconnect -> Removal]
    BY DEF Init, LinkRecord, Removal
  <2>4. issued \in 0..MaxTokens
    BY CredentialAssumption DEF Init
  <2>5. holder \in Caller \cup {Nobody} /\ torn \in BOOLEAN
    BY DEF Init
  <2>6. valid \subseteq Token /\ removed \subseteq Delivery /\ late \subseteq Caller
    BY DEF Init
  <2>7. QED
    BY <2>1, <2>2, <2>3, <2>4, <2>5, <2>6 DEF TypeOK, CallRecord, LinkRecord, Removal
<1>2. Locked /\ Carried /\ Told /\ Gone
  BY <1>0 DEF Locked, Inside, Carried, Told, Gone
<1>3. Handles
  BY <1>0 DEF Handles, RowKnown, CallsKnown, RemovedKnown, Stored, Known, NoRow
<1>4. \A n \in Token, h \in Delivery : ~Of(h, n)
  BY <1>0 DEF Of, Delivers, Presents, Token, NoRow
<1>5. OneHandle /\ Issued
  BY <1>4 DEF OneHandle, Issued
<1>6. Matched /\ Read
  BY <1>0 DEF Matched, Read, NoRow
<1>7. Fresh
  BY <1>0 DEF Fresh, Unshown, Stocked, Loaded, Unused, Connected, NoRow, Token
<1>8. PresentedOnce
  BY <1>0 DEF PresentedOnce
<1>9. QED
  BY <1>1, <1>2, <1>3, <1>5, <1>6, <1>7, <1>8 DEF CredentialInv

\* and every step keeps it.
LEMMA StepInv == CredentialInv /\ [Next]_vars => CredentialInv'
<1> SUFFICES ASSUME CredentialInv, [Next]_vars PROVE CredentialInv'
  OBVIOUS
<1> USE DEF CredentialInv
<1>1. TypeOK' /\ Locked' /\ Carried' /\ Handles'
  BY TypeStep, LockStep, CarriedStep, HandlesStep
<1>2. OneHandle' /\ Issued'
  BY TokenStep
<1>3. Matched' /\ Read'
  BY MatchedStep, ReadStep
<1>4. Fresh'
  BY UnshownStep, StockedStep, LoadedStep DEF Fresh
<1>5. Gone' /\ Told'
  BY GoneStep
<1>6. PresentedOnce'
  BY OnceStep DEF Fresh
<1>7. QED
  BY <1>1, <1>2, <1>3, <1>4, <1>5, <1>6

\* The invariant holds in every state: what every theorem below rests on.
THEOREM CredentialInvariant == Spec => []CredentialInv
BY InitInv, StepInv, PTL DEF Spec

\* The row, the secrets, the calls and the provider keep their types in every
\* interleaving of links, refreshes, disconnects and cuts: no call stores under
\* a handle that nobody has.
THEOREM CredentialTypeCorrect == Spec => []TypeOK
<1>1. CredentialInv => TypeOK
  BY DEF CredentialInv
<1>2. QED
  BY <1>1, CredentialInvariant, PTL

\* No refresh token reaches the provider twice unless a call was cut between
\* the provider's answer and the writes that follow it, for any number of
\* calls, links and disconnects.
THEOREM PresentedOnceAlways == Spec => []PresentedOnce
<1>1. CredentialInv => PresentedOnce
  BY DEF CredentialInv
<1>2. QED
  BY <1>1, CredentialInvariant, PTL

\* The connected record and its secret hold the same token whenever nobody is
\* between the two writes of a rotation or of a disconnect.
THEOREM InStepAlways == Spec => []InStep
<1>1. ASSUME CredentialInv, Connected, ~Writing, ~torn PROVE secret[row.handle] = row.token
  <2>1. row.handle # Nobody
    BY <1>1 DEF CredentialInv, Handles, RowKnown, Connected, NoRow
  <2>2. \A c \in Caller : ~Rotating(c)
    BY <1>1 DEF Writing, Rotating
  <2>3. secret[row.handle] # 0
    BY <1>1, <2>1 DEF CredentialInv, Matched, Writing
  <2>4. QED
    BY <1>1, <2>1, <2>2, <2>3 DEF CredentialInv, Matched
<1>2. CredentialInv => InStep
  BY <1>1 DEF InStep
<1>3. QED
  BY <1>2, CredentialInvariant, PTL

\* After a confirmed disconnect no call that begins later is given a token
\* until the profile is linked again.
THEOREM DisconnectHoldsAlways == Spec => []DisconnectHolds
<1>1. CredentialInv => DisconnectHolds
  BY DEF CredentialInv, Gone, DisconnectHolds
<1>2. QED
  BY <1>1, CredentialInvariant, PTL
===========================================================================
