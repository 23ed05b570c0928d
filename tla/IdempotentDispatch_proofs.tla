---------------------- MODULE IdempotentDispatch_proofs ----------------------
(***************************************************************************)
(* Theorems about IdempotentDispatch for any set of requests.              *)
(***************************************************************************)
EXTENDS IdempotentDispatch, TLAPS

(* The label sets hold the labels the actions go to.                       *)
LEMMA Labels ==
  /\ Holding \subseteq Control /\ Awaits \subseteq Control
  /\ Ended \subseteq Control /\ {"arrived", "uncaching"} \subseteq Control
BY DEF Control, Suspended, Awaits, Holding, Ended

(* Goto moves one request and leaves the others where they are.            *)
LEMMA GotoFacts ==
  ASSUME TypeOK, NEW r \in Request, NEW label \in Control, Goto(r, label)
  PROVE  /\ pc' \in [Request -> Control]
         /\ pc'[r] = label
         /\ \A s \in Request : s # r => pc'[s] = pc[s]
BY DEF TypeOK, Goto

(* Every step leaves every variable in its type.                           *)
LEMMA TypeStep == TypeOK /\ [Next]_vars => TypeOK'
<1> SUFFICES ASSUME TypeOK, [Next]_vars PROVE TypeOK'
  OBVIOUS
<1>1. row' \in Row
  <2>1. ASSUME NEW r \in Request, Claim(r) PROVE row' \in Row
    <3>1. CASE InsertClaim(r)
      <4>1. [state |-> "PROCESSING", request_id |-> r,
             response |-> NoRequest, fresh |-> TRUE] \in Row
        BY DEF Row, RowState
      <4>2. QED
        BY <3>1, <4>1 DEF InsertClaim, TypeOK
    <3>2. CASE SwapClaim(r)
      BY <3>2 DEF SwapClaim, TypeOK, Row, RowState
    <3>3. QED
      BY <2>1, <3>1, <3>2
      DEF Claim, CacheLookup, ReadRow, ReplayRow, TypeOK
  <2>2. ASSUME NEW r \in Request, Execute(r) PROVE row' \in Row
    BY <2>2 DEF Execute, EnterHandler, HandlerReturns, HandlerRaises,
                RecordCompleted, FillCache, ReturnResult, TypeOK, Row, RowState
  <2>3. ASSUME NEW r \in Request, Fail(r) PROVE row' \in Row
    BY <2>3 DEF Fail, ClientTimeout, StorageError, ReleaseClaim, RecordFailed,
                DropCache, TypeOK, Row, RowState
  <2>4. QED
    BY <2>1, <2>2, <2>3
    DEF Next, Crash, LeaseExpires, vars, TypeOK, Row, RowState
<1>2. pc' \in [Request -> Control]
  <2>1. ASSUME NEW r \in Request, Claim(r) PROVE pc' \in [Request -> Control]
    BY <2>1, GotoFacts, Labels
    DEF Claim, CacheLookup, ReadRow, InsertClaim, ReplayRow, SwapClaim,
        Awaits, Holding, Ended
  <2>2. ASSUME NEW r \in Request, Execute(r) PROVE pc' \in [Request -> Control]
    BY <2>2, GotoFacts, Labels
    DEF Execute, EnterHandler, HandlerReturns, HandlerRaises, RecordCompleted,
        FillCache, ReturnResult, Awaits, Holding, Ended
  <2>3. ASSUME NEW r \in Request, Fail(r) PROVE pc' \in [Request -> Control]
    BY <2>3, GotoFacts, Labels
    DEF Fail, ClientTimeout, StorageError, HandlerOf, ReleaseClaim,
        RecordFailed, DropCache, Holding, Ended
  <2>4. QED
    BY <2>1, <2>2, <2>3, Labels
    DEF Next, Crash, LeaseExpires, vars, TypeOK, Ended
<1>3. /\ cache' \in Request \cup {NoRequest}
      /\ snap' \in [Request -> Row]
  BY DEF Next, Claim, CacheLookup, ReadRow, InsertClaim, ReplayRow, SwapClaim,
         Execute, EnterHandler, HandlerReturns, HandlerRaises, RecordCompleted,
         FillCache, ReturnResult, Fail, ClientTimeout, StorageError,
         ReleaseClaim, RecordFailed, DropCache, Crash, LeaseExpires, vars,
         TypeOK
<1>4. answer' \in [Request -> Request \cup {NoRequest}]
  <2>1. ASSUME NEW r \in Request, Claim(r)
        PROVE  answer' \in [Request -> Request \cup {NoRequest}]
    BY <2>1 DEF Claim, CacheLookup, ReadRow, InsertClaim, ReplayRow, SwapClaim, TypeOK, Row
  <2>2. ASSUME NEW r \in Request, Execute(r)
        PROVE  answer' \in [Request -> Request \cup {NoRequest}]
    BY <2>2 DEF Execute, EnterHandler, HandlerReturns, HandlerRaises, RecordCompleted,
                FillCache, ReturnResult, TypeOK
  <2>3. ASSUME NEW r \in Request, Fail(r)
        PROVE  answer' \in [Request -> Request \cup {NoRequest}]
    BY <2>3 DEF Fail, ClientTimeout, StorageError, ReleaseClaim, RecordFailed, DropCache,
                TypeOK
  <2>4. QED
    BY <2>1, <2>2, <2>3 DEF Next, Crash, LeaseExpires, vars, TypeOK
<1>5. finished' \subseteq Request
  BY DEF Next, Claim, CacheLookup, ReadRow, InsertClaim, ReplayRow, SwapClaim,
         Execute, EnterHandler, HandlerReturns, HandlerRaises, RecordCompleted,
         FillCache, ReturnResult, Fail, ClientTimeout, StorageError,
         ReleaseClaim, RecordFailed, DropCache, Crash, LeaseExpires, vars,
         TypeOK, Row
<1>6. QED
  BY <1>1, <1>2, <1>3, <1>4, <1>5 DEF TypeOK

(* Type correctness of the row, the cache and every dispatch() coroutine.  *)
THEOREM TypeCorrect == Spec => []TypeOK
<1>1. Init => TypeOK
  BY DEF Init, TypeOK, Row, NoRow, RowState, Control
<1>2. QED
  BY <1>1, TypeStep, PTL DEF Spec

-----------------------------------------------------------------------------
(* The control flow of one request and what each move does to the row: the *)
(* invariants below follow from these three lemmas alone.                  *)
Moves(r, from, to) == /\ pc[r] \in from /\ pc'[r] \in to
                      /\ \A s \in Request : s # r => pc'[s] = pc[s]

Owned(r) == row.request_id = r /\ row.state = "PROCESSING"

ClaimMoves(r) ==
  \/ /\ Moves(r, {"arrived", "lookup", "decide"},
                 {"lookup", "decide", "replayed", "rejected"})
     /\ row' = row
  \/ /\ Moves(r, {"decide"}, {"claimed"})
     /\ row.state # "COMPLETED" /\ ~(row.state = "PROCESSING" /\ row.fresh)
     /\ row'.state = "PROCESSING" /\ row'.request_id = r /\ row'.fresh

ExecuteMoves(r) ==
  \/ /\ \/ Moves(r, {"claimed"}, {"running"})
        \/ Moves(r, {"running"}, {"completing", "failing"})
        \/ Moves(r, {"completed"}, {"auditing"})
        \/ Moves(r, {"auditing"}, {"returned"})
     /\ row' = row
  \/ /\ Moves(r, {"completing"}, {"completed"})
     /\ row'.state = "COMPLETED" /\ row'.response = r
     /\ row'.request_id = row.request_id

FailMoves(r) ==
  \/ /\ \/ Moves(r, {"lookup", "decide", "claimed"}, {"releasing"})
        \/ Moves(r, {"running", "completing"}, {"failing"})
        \/ Moves(r, CancelPoints \cap {"completed", "auditing"}, {"failing"})
        \/ Moves(r, {"releasing", "failing"}, {"unrecorded"})
        \/ Moves(r, {"releasing"}, {"raised"}) /\ ~Owned(r)
        \/ Moves(r, {"uncaching"}, {"raised"})
     /\ row' = row
  \/ /\ \/ Moves(r, {"releasing"}, {"uncaching"}) /\ Owned(r)
        \/ Moves(r, {"failing"}, {"uncaching"})
     /\ row'.state = "FAILED" /\ row'.request_id = row.request_id

LEMMA ClaimFlow ==
  ASSUME TypeOK, NEW r \in Request, Claim(r) PROVE ClaimMoves(r)
<1> USE DEF Moves, ClaimMoves
<1>1. CASE CacheLookup(r)
  BY <1>1, GotoFacts, Labels DEF CacheLookup, Awaits, Ended
<1>2. CASE ReadRow(r)
  BY <1>2, GotoFacts, Labels DEF ReadRow, Awaits
<1>3. CASE InsertClaim(r)
  BY <1>3, GotoFacts, Labels DEF InsertClaim, Awaits
<1>4. CASE ReplayRow(r)
  BY <1>4, GotoFacts, Labels DEF ReplayRow, Ended
<1>5. CASE SwapClaim(r)
  BY <1>5, GotoFacts, Labels DEF SwapClaim, SwapAllowed, Awaits, Ended, TypeOK, Row
<1>6. QED
  BY <1>1, <1>2, <1>3, <1>4, <1>5 DEF Claim

LEMMA ExecuteFlow ==
  ASSUME TypeOK, NEW r \in Request, Execute(r) PROVE ExecuteMoves(r)
<1> USE DEF Moves, ExecuteMoves
<1>1. CASE EnterHandler(r)
  BY <1>1, GotoFacts, Labels DEF EnterHandler, Awaits
<1>2. CASE HandlerReturns(r)
  BY <1>2, GotoFacts, Labels DEF HandlerReturns, Awaits
<1>3. CASE HandlerRaises(r)
  BY <1>3, GotoFacts, Labels DEF HandlerRaises, Holding
<1>4. CASE RecordCompleted(r)
  BY <1>4, GotoFacts, Labels DEF RecordCompleted, Awaits, TypeOK, Row
<1>5. CASE FillCache(r)
  BY <1>5, GotoFacts, Labels DEF FillCache, Awaits
<1>6. CASE ReturnResult(r)
  BY <1>6, GotoFacts, Labels DEF ReturnResult, Ended
<1>7. QED
  BY <1>1, <1>2, <1>3, <1>4, <1>5, <1>6 DEF Execute

LEMMA FailFlow ==
  ASSUME TypeOK, NEW r \in Request, Fail(r) PROVE FailMoves(r)
<1> USE DEF Moves, FailMoves
<1>1. CASE ClientTimeout(r)
  BY <1>1, GotoFacts, Labels, DispatchAssumption
  DEF ClientTimeout, HandlerOf, Awaits, Holding
<1>2. CASE StorageError(r)
  BY <1>2, GotoFacts, Labels DEF StorageError, HandlerOf, Ended, Holding
<1>3. CASE ReleaseClaim(r)
  BY <1>3, GotoFacts, Labels DEF ReleaseClaim, Owned, Ended, TypeOK, Row
<1>4. CASE RecordFailed(r)
  BY <1>4, GotoFacts, Labels DEF RecordFailed, TypeOK, Row
<1>5. CASE DropCache(r)
  BY <1>5, GotoFacts, Labels DEF DropCache, Ended
<1>6. QED
  BY <1>1, <1>2, <1>3, <1>4, <1>5 DEF Fail

-----------------------------------------------------------------------------
(* No PROCESSING row outlives its request, except through a crash or a     *)
(* clean-up write that raised; for every choice of timeouts and faults.    *)
Known == row.state = "PROCESSING" => row.request_id \in Request

LEMMA StrandStep ==
  TypeOK /\ Known /\ NoStrandedClaim /\ [Next]_vars
    => Known' /\ NoStrandedClaim'
<1> SUFFICES ASSUME TypeOK, Known, NoStrandedClaim, [Next]_vars
             PROVE  Known' /\ NoStrandedClaim'
  OBVIOUS
<1> USE DEF Known, NoStrandedClaim, Holding, Moves
<1>1. ASSUME NEW r \in Request, Claim(r) PROVE Known' /\ NoStrandedClaim'
  BY <1>1, ClaimFlow DEF ClaimMoves
<1>2. ASSUME NEW r \in Request, Execute(r) PROVE Known' /\ NoStrandedClaim'
  BY <1>2, ExecuteFlow DEF ExecuteMoves
<1>3. ASSUME NEW r \in Request, Fail(r) PROVE Known' /\ NoStrandedClaim'
  BY <1>3, FailFlow DEF FailMoves, Owned
<1>4. CASE Crash
  BY <1>4 DEF Crash, Suspended
<1>5. CASE LeaseExpires
  BY <1>5 DEF LeaseExpires, TypeOK, Row
<1>6. CASE UNCHANGED vars
  BY <1>6 DEF vars
<1>7. QED
  BY <1>1, <1>2, <1>3, <1>4, <1>5, <1>6 DEF Next

THEOREM NoClaimStranded == Spec => []NoStrandedClaim
<1>1. Init => Known /\ NoStrandedClaim
  BY DEF Init, NoRow, Known, NoStrandedClaim
<1>2. QED
  BY <1>1, StrandStep, TypeCorrect, PTL DEF Spec

-----------------------------------------------------------------------------
(* Ownership: from the claim to the recorded outcome the row names the     *)
(* request that executes, and its lease does not run out under it.  This   *)
(* is what makes SingleExecutor inductive: two executing requests would    *)
(* both be the one the row names.                                          *)
Own(r) ==
  /\ pc[r] \in {"arrived", "lookup", "decide"} => row.request_id # r
  /\ pc[r] \in {"claimed", "running", "completing"} => Owned(r)
  /\ pc[r] \in {"completed", "auditing"} =>
       row.request_id = r /\ row.state = "COMPLETED"
  /\ pc[r] = "failing" =>
       row.request_id = r /\ row.state \in {"PROCESSING", "COMPLETED"}
  /\ Owned(r) /\ pc[r] \in Holding => row.fresh
Ownership == \A r \in Request : Own(r)

LEMMA OwnershipStep ==
  ASSUME ~SlowHandlers, TypeOK, Ownership, [Next]_vars PROVE Ownership'
<1> USE DEF Ownership, Own, Owned, Holding, Moves
<1>1. ASSUME NEW r \in Request, Claim(r) PROVE Ownership'
  BY <1>1, ClaimFlow DEF ClaimMoves
<1>2. ASSUME NEW r \in Request, Execute(r) PROVE Ownership'
  BY <1>2, ExecuteFlow DEF ExecuteMoves
<1>3. ASSUME NEW r \in Request, Fail(r) PROVE Ownership'
  BY <1>3, FailFlow DEF FailMoves
<1>4. CASE Crash
  BY <1>4 DEF Crash, Suspended, Awaits
<1>5. CASE LeaseExpires
  <2>1. /\ row'.state = row.state /\ row'.request_id = row.request_id
        /\ pc' = pc /\ row.state = "PROCESSING"
        /\ pc[row.request_id] \notin Holding
    BY <1>5 DEF LeaseExpires, TypeOK, Row
  <2>2. QED
    BY <2>1
<1>6. CASE UNCHANGED vars
  BY <1>6 DEF vars
<1>7. QED
  BY <1>1, <1>2, <1>3, <1>4, <1>5, <1>6 DEF Next

LEMMA OwnershipHolds == ASSUME ~SlowHandlers PROVE Spec => []Ownership
<1>1. Init => Ownership
  BY DispatchAssumption DEF Init, NoRow, Ownership, Own, Owned, Holding
<1>2. TypeOK /\ Ownership /\ [Next]_vars => Ownership'
  BY OwnershipStep
<1>3. QED
  BY <1>1, <1>2, TypeCorrect, PTL DEF Spec

(* One executor at a time, under timeouts at any await, storage errors and *)
(* crashes, provided a live request ends within the stale-claim lease.     *)
THEOREM OneExecutor == ASSUME ~SlowHandlers PROVE Spec => []SingleExecutor
<1>1. Ownership => SingleExecutor
  BY DEF Ownership, Own, Owned, SingleExecutor, Executing
<1>2. QED
  BY <1>1, OwnershipHolds, PTL

(* A running execution's claim is never made retryable by someone else.    *)
THEOREM RetryAfterStop == ASSUME ~SlowHandlers
                          PROVE  Spec => RetryableOnlyAfterStop
<1> DEFINE Stop == row.state = "PROCESSING" /\ row'.state = "FAILED" =>
                     pc'[row.request_id] \notin Executing \cup {"claimed"}
<1>1. TypeOK /\ Ownership /\ [Next]_vars => [Stop]_vars
  <2> SUFFICES ASSUME TypeOK, Ownership, [Next]_vars, row.state = "PROCESSING",
                      row'.state = "FAILED"
               PROVE  pc'[row.request_id] \notin Executing \cup {"claimed"}
    OBVIOUS
  <2>1. ~ \E r \in Request : Claim(r)
    BY ClaimFlow DEF ClaimMoves
  <2>2. ~ \E r \in Request : Execute(r)
    BY ExecuteFlow DEF ExecuteMoves
  <2>3. ~ (Crash \/ LeaseExpires \/ UNCHANGED vars)
    BY DEF Crash, LeaseExpires, vars, TypeOK, Row
  <2>4. ASSUME NEW r \in Request, Fail(r)
        PROVE  pc'[row.request_id] \notin Executing \cup {"claimed"}
    BY <2>4, FailFlow
    DEF FailMoves, Moves, Owned, Ownership, Own, Executing
  <2>5. QED
    BY <2>1, <2>2, <2>3, <2>4 DEF Next
<1>2. QED
  BY <1>1, TypeCorrect, OwnershipHolds, PTL DEF Spec, RetryableOnlyAfterStop

(* A claim is freed once its owner has stopped, and no sooner.             *)
THEOREM ClaimsFollow == ASSUME ~SlowHandlers PROVE Spec => ClaimFollowsOwner
BY NoClaimStranded, RetryAfterStop, PTL DEF ClaimFollowsOwner

-----------------------------------------------------------------------------
(* Every response the system holds is that of a handler that ran to its    *)
(* end: in the row, in the cache, in what a claim has read, in an answer.  *)
Finished == finished \cup {NoRequest}

Genuine ==
  /\ row.response \in Finished /\ cache \in Finished
  /\ row.state = "COMPLETED" => row.response # NoRequest
  /\ \A r \in Request :
       /\ answer[r] \in Finished /\ snap[r].response \in Finished
       /\ pc[r] \in {"completing", "completed", "auditing"} => r \in finished

LEMMA GenuineStep ==
  ASSUME TypeOK, Genuine, [Next]_vars PROVE Genuine'
<1> USE DEF Genuine, Finished, TypeOK, Row
<1>1. ASSUME NEW r \in Request, CacheLookup(r) \/ ReplayRow(r) PROVE Genuine'
  BY <1>1, Labels DEF CacheLookup, ReplayRow, Goto, Control
<1>2. ASSUME NEW r \in Request, ReadRow(r) PROVE Genuine'
  BY <1>2, Labels DEF ReadRow, Goto, Awaits
<1>3. ASSUME NEW r \in Request, InsertClaim(r) PROVE Genuine'
  BY <1>3, Labels DEF InsertClaim, Goto
<1>4. ASSUME NEW r \in Request, SwapClaim(r) PROVE Genuine'
  BY <1>4, Labels DEF SwapClaim, Goto
<1>5. ASSUME NEW r \in Request, EnterHandler(r) \/ HandlerReturns(r)
             \/ HandlerRaises(r)
      PROVE  Genuine'
  BY <1>5, Labels DEF EnterHandler, HandlerReturns, HandlerRaises, Goto
<1>6. ASSUME NEW r \in Request, RecordCompleted(r) PROVE Genuine'
  BY <1>6, Labels, DispatchAssumption DEF RecordCompleted, Goto
<1>7. ASSUME NEW r \in Request, FillCache(r) \/ ReturnResult(r) PROVE Genuine'
  BY <1>7, Labels DEF FillCache, ReturnResult, Goto
<1>8. ASSUME NEW r \in Request, ClientTimeout(r) \/ StorageError(r)
      PROVE  Genuine'
  BY <1>8, Labels DEF ClientTimeout, StorageError, HandlerOf, Goto
<1>9. ASSUME NEW r \in Request, ReleaseClaim(r) \/ RecordFailed(r)
             \/ DropCache(r)
      PROVE  Genuine'
  BY <1>9, Labels DEF ReleaseClaim, RecordFailed, DropCache, Goto
<1>10. CASE Crash
  BY <1>10 DEF Crash
<1>11. CASE LeaseExpires
  BY <1>11 DEF LeaseExpires
<1>12. CASE UNCHANGED vars
  BY <1>12 DEF vars
<1>13. QED
  BY <1>1, <1>2, <1>3, <1>4, <1>5, <1>6, <1>7, <1>8, <1>9, <1>10, <1>11,
     <1>12 DEF Next, Claim, Execute, Fail

(* Nothing is replayed that was not executed, also when live requests      *)
(* outlast their lease and are overrun.                                    *)
THEOREM ReplayReal == Spec => []ReplayIsReal
<1>1. Init => Genuine
  BY DEF Init, Genuine, Finished, NoRow
<1>2. TypeOK /\ Genuine => ReplayIsReal
  BY DEF Genuine, Finished, ReplayIsReal
<1>3. QED
  BY <1>1, <1>2, GenuineStep, TypeCorrect, PTL DEF Spec

-----------------------------------------------------------------------------
(* The promise of SingleAnswer.  When no timeout strikes after the         *)
(* COMPLETED commit, a COMPLETED row is never left, so cached, read and    *)
(* delivered responses are all the row's.                                  *)
NoLateTimeout == CancelPoints \cap {"completed", "auditing"} = {}

RowResponse ==
  /\ \A r \in Request : pc[r] = "failing" => row.state = "PROCESSING"
  /\ \A r \in Request : pc[r] \in {"completed", "auditing"} => row.response = r
  /\ row.state = "COMPLETED" => row.response \in Request

Copies ==
  /\ cache # NoRequest => row.state = "COMPLETED" /\ row.response = cache
  /\ \A r \in Request : pc[r] = "decide" /\ snap[r].state = "COMPLETED" =>
       row.state = "COMPLETED" /\ row.response = snap[r].response
  /\ \A r \in Request : pc[r] \notin Ended => answer[r] = NoRequest

(* A COMPLETED row keeps its state and its response.                       *)
LEMMA CompletedKept ==
  ASSUME ~SlowHandlers, NoLateTimeout, TypeOK, Ownership, RowResponse,
         [Next]_vars, row.state = "COMPLETED"
  PROVE  row'.state = "COMPLETED" /\ row'.response = row.response
<1>1. ASSUME NEW r \in Request, Claim(r) PROVE row' = row
  BY <1>1, ClaimFlow DEF ClaimMoves
<1>2. ASSUME NEW r \in Request, Execute(r) PROVE row' = row
  BY <1>2, ExecuteFlow DEF ExecuteMoves, Moves, Ownership, Own, Owned
<1>3. ASSUME NEW r \in Request, Fail(r) PROVE row' = row
  BY <1>3, FailFlow DEF FailMoves, Moves, RowResponse, Owned
<1>4. QED
  BY <1>1, <1>2, <1>3 DEF Next, Crash, LeaseExpires, vars

LEMMA ResponseStep ==
  ASSUME ~SlowHandlers, NoLateTimeout, TypeOK, Ownership, RowResponse,
         [Next]_vars
  PROVE  RowResponse'
<1> USE DEF RowResponse, NoLateTimeout, Moves, Ownership, Own, Owned
<1>1. ASSUME NEW r \in Request, Claim(r) PROVE RowResponse'
  BY <1>1, ClaimFlow DEF ClaimMoves
<1>2. ASSUME NEW r \in Request, Execute(r) PROVE RowResponse'
  BY <1>2, ExecuteFlow DEF ExecuteMoves
<1>3. ASSUME NEW r \in Request, Fail(r) PROVE RowResponse'
  BY <1>3, FailFlow DEF FailMoves
<1>4. CASE Crash
  BY <1>4 DEF Crash, Suspended, Awaits, Holding
<1>5. CASE LeaseExpires
  BY <1>5 DEF LeaseExpires, TypeOK, Row
<1>6. CASE UNCHANGED vars
  BY <1>6 DEF vars
<1>7. QED
  BY <1>1, <1>2, <1>3, <1>4, <1>5, <1>6 DEF Next

LEMMA CopiesStep ==
  ASSUME ~SlowHandlers, NoLateTimeout, TypeOK, Ownership, RowResponse, Copies,
         [Next]_vars
  PROVE  Copies'
<1> USE DEF Copies
<1>1. row.state = "COMPLETED" =>
        row'.state = "COMPLETED" /\ row'.response = row.response
  BY CompletedKept
<1>2. cache' # NoRequest => row'.state = "COMPLETED" /\ row'.response = cache'
  <2>1. cache' = cache \/ cache' = NoRequest
        \/ \E r \in Request : FillCache(r)
    BY DEF Next, Claim, CacheLookup, ReadRow, InsertClaim, ReplayRow,
           SwapClaim, Execute, EnterHandler, HandlerReturns, HandlerRaises,
           RecordCompleted, ReturnResult, Fail, ClientTimeout, StorageError,
           ReleaseClaim, RecordFailed, DropCache, Crash, LeaseExpires, vars
  <2>2. ASSUME NEW r \in Request, FillCache(r)
        PROVE  row.state = "COMPLETED" /\ row.response = cache'
    BY <2>2 DEF FillCache, RowResponse, Ownership, Own
  <2>3. QED
    BY <1>1, <2>1, <2>2
<1>3. ASSUME NEW r \in Request, pc'[r] = "decide", snap'[r].state = "COMPLETED"
      PROVE  row'.state = "COMPLETED" /\ row'.response = snap'[r].response
  <2>1. \/ pc[r] = "decide" /\ snap'[r] = snap[r]
        \/ snap'[r] = row
    <3>1. ASSUME NEW s \in Request, Claim(s)
          PROVE  \/ pc[r] = "decide" /\ snap'[r] = snap[r]
                 \/ snap'[r] = row
      BY <3>1, <1>3, GotoFacts, Labels
      DEF Claim, CacheLookup, ReadRow, InsertClaim, ReplayRow, SwapClaim,
          Awaits, Ended, TypeOK
    <3>2. ASSUME NEW s \in Request, Execute(s)
          PROVE  pc[r] = "decide" /\ snap'[r] = snap[r]
      <4>1. snap' = snap
        BY <3>2 DEF Execute, EnterHandler, HandlerReturns, HandlerRaises,
                    RecordCompleted, FillCache, ReturnResult
      <4>2. QED
        BY <3>2, <4>1, <1>3, ExecuteFlow DEF ExecuteMoves, Moves
    <3>3. ASSUME NEW s \in Request, Fail(s)
          PROVE  pc[r] = "decide" /\ snap'[r] = snap[r]
      <4>1. snap' = snap
        BY <3>3 DEF Fail, ClientTimeout, StorageError, ReleaseClaim,
                    RecordFailed, DropCache
      <4>2. QED
        BY <3>3, <4>1, <1>3, FailFlow DEF FailMoves, Moves
    <3>4. QED
      BY <3>1, <3>2, <3>3, <1>3
      DEF Next, Crash, LeaseExpires, vars, TypeOK
  <2>2. QED
    BY <1>1, <1>3, <2>1
<1>4. ASSUME NEW r \in Request, pc'[r] \notin Ended
      PROVE  answer'[r] = NoRequest
  <2>1. ASSUME NEW s \in Request, Claim(s) PROVE answer'[r] = NoRequest
    BY <2>1, <1>4, GotoFacts, Labels
    DEF Claim, CacheLookup, ReadRow, InsertClaim, ReplayRow, SwapClaim,
        Awaits, Ended, TypeOK
  <2>2. ASSUME NEW s \in Request, Execute(s) PROVE answer'[r] = NoRequest
    BY <2>2, <1>4, GotoFacts, Labels
    DEF Execute, EnterHandler, HandlerReturns, HandlerRaises, RecordCompleted,
        FillCache, ReturnResult, Awaits, Holding, Ended, TypeOK
  <2>3. ASSUME NEW s \in Request, Fail(s) PROVE answer'[r] = NoRequest
    <3>1. answer' = answer
      BY <2>3 DEF Fail, ClientTimeout, StorageError, ReleaseClaim,
                  RecordFailed, DropCache
    <3>2. QED
      BY <2>3, <3>1, <1>4, FailFlow, DispatchAssumption
      DEF FailMoves, Moves, Ended
  <2>4. QED
    BY <2>1, <2>2, <2>3, <1>4
    DEF Next, Crash, LeaseExpires, vars, Suspended, Awaits, Holding, Ended,
        TypeOK
<1>5. QED
  BY <1>2, <1>3, <1>4

(* The dispatcher implements SingleAnswer: one answer, decided once, for   *)
(* every caller of the key.                                                *)
THEOREM ImplementsPromise ==
  ASSUME ~SlowHandlers, NoLateTimeout PROVE Spec => PromiseKept
<1>1. Init => RowResponse /\ Copies /\ Promise!AInit
  BY DispatchAssumption
  DEF Init, NoRow, RowResponse, Copies, Promise!AInit, Ended
<1>2. TypeOK /\ Ownership /\ RowResponse /\ Copies /\ [Next]_vars
        => RowResponse' /\ Copies'
  BY ResponseStep, CopiesStep
<1>3. TypeOK /\ Ownership /\ RowResponse /\ Copies /\ [Next]_vars
        => [Promise!ANext]_Promise!avars
  <2> SUFFICES ASSUME TypeOK, Ownership, RowResponse, Copies, [Next]_vars
               PROVE  [Promise!ANext]_Promise!avars
    OBVIOUS
  <2> USE DEF Promise!ANext, Promise!avars, Promise!Decide, Promise!Deliver
  <2> DEFINE Steps(r) == CacheLookup(r) \/ ReplayRow(r) \/ ReturnResult(r)
  <2>1. answer' = answer \/ \E r \in Request : Steps(r)
    BY DEF Next, Claim, ReadRow, InsertClaim, SwapClaim, Execute, EnterHandler,
           HandlerReturns, HandlerRaises, RecordCompleted, FillCache, Fail,
           ClientTimeout, StorageError, ReleaseClaim, RecordFailed, DropCache,
           Crash, LeaseExpires, vars
  <2>2. ASSUME NEW r \in Request, Steps(r)
        PROVE  \/ answer' = answer
               \/ /\ row.state = "COMPLETED" /\ answer[r] = NoRequest
                  /\ answer' = [answer EXCEPT ![r] = row.response]
    <3>1. answer[r] = NoRequest
      BY <2>2 DEF CacheLookup, ReplayRow, ReturnResult, Copies, Ended
    <3>2. CASE CacheLookup(r)
      BY <3>1, <3>2 DEF CacheLookup, Copies
    <3>3. CASE ReplayRow(r)
      BY <3>1, <3>3 DEF ReplayRow, Copies
    <3>4. CASE ReturnResult(r)
      BY <3>1, <3>4 DEF ReturnResult, RowResponse, Ownership, Own
    <3>5. QED
      BY <2>2, <3>2, <3>3, <3>4
  <2>3. CASE row.state = "COMPLETED"
    <3>1. /\ row'.state = "COMPLETED" /\ row'.response = row.response
          /\ row.response # NoRequest
      BY <2>3, CompletedKept, DispatchAssumption DEF RowResponse
    <3>2. QED
      BY <2>1, <2>2, <2>3, <3>1
  <2>4. CASE row.state # "COMPLETED" /\ row'.state # "COMPLETED"
    BY <2>1, <2>2, <2>4
  <2>5. CASE row.state # "COMPLETED" /\ row'.state = "COMPLETED"
    <3>1. PICK r \in Request : row'.response = r /\ row'.state = "COMPLETED"
      BY <2>5, ClaimFlow, ExecuteFlow, FailFlow
      DEF Next, ClaimMoves, ExecuteMoves, FailMoves, Crash, LeaseExpires,
          vars, TypeOK, Row
    <3>2. QED
      BY <2>1, <2>2, <2>5, <3>1
  <2>6. QED
    BY <2>3, <2>4, <2>5
<1>4. QED
  BY <1>1, <1>2, <1>3, TypeCorrect, OwnershipHolds, PTL
  DEF Spec, PromiseKept, Promise!ASpec
=============================================================================
