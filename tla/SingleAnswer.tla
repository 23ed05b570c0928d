---------------------------- MODULE SingleAnswer ----------------------------
(***************************************************************************)
(* What the dispatcher promises the callers of one idempotency key: at most *)
(* one result is ever decided, it is the result of one of the requests, it *)
(* is never replaced, and it is the only result any caller is ever given.  *)
(***************************************************************************)
CONSTANTS Request, NoRequest

VARIABLES decided,  \* the request whose result is the answer, NoRequest before
          answer    \* answer[r]: the request whose result r was given

avars == <<decided, answer>>

AInit == /\ decided = NoRequest
         /\ answer = [r \in Request |-> NoRequest]

Decide(r) == /\ decided = NoRequest
             /\ decided' = r
             /\ UNCHANGED answer

Deliver(r) == /\ decided # NoRequest
              /\ answer[r] = NoRequest
              /\ answer' = [answer EXCEPT ![r] = decided]
              /\ UNCHANGED decided

ANext == \E r \in Request : Decide(r) \/ Deliver(r)

ASpec == AInit /\ [][ANext]_avars
=============================================================================
