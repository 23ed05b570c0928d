--------------------------- MODULE GovernedEffect ---------------------------
(***************************************************************************)
(* What a governed external execution promises: a request that needs       *)
(* consent has an effect on the outside world only after consent was       *)
(* given, at most Bound times, and never again once the request is closed. *)
(***************************************************************************)
EXTENDS Naturals

CONSTANTS Request, Gated, Bound

VARIABLES phase,    \* of each request: none, held, released or closed
          consent,  \* the gated requests that were consented to
          effects   \* how often each request had an effect

vars == <<phase, consent, effects>>

Init == /\ phase = [r \in Request |-> "none"]
        /\ consent = {}
        /\ effects = [r \in Request |-> 0]

Becomes(r, p) == phase' = [phase EXCEPT ![r] = p] /\ UNCHANGED <<consent, effects>>

Hold(r) == r \in Gated /\ phase[r] = "none" /\ Becomes(r, "held")

\* Consent may be given before the request is held.
Consent(r) == /\ r \in Gated \ consent
              /\ consent' = consent \cup {r}
              /\ UNCHANGED <<phase, effects>>

Release(r) == /\ phase[r] = IF r \in Gated THEN "held" ELSE "none"
              /\ r \in Gated => r \in consent
              /\ Becomes(r, "released")

Act(r) == /\ phase[r] = "released" /\ effects[r] < Bound
          /\ effects' = [effects EXCEPT ![r] = @ + 1]
          /\ UNCHANGED <<phase, consent>>

Close(r) == phase[r] \in {"held", "released"} /\ Becomes(r, "closed")

Next == \E r \in Request : Hold(r) \/ Consent(r) \/ Release(r) \/ Act(r) \/ Close(r)

Spec == Init /\ [][Next]_vars
=============================================================================
