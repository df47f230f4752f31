-------------------------- MODULE DeliveryContract --------------------------
(***************************************************************************)
(* What the outbound pipeline promises about one message, whatever         *)
(* statuses it passes through on the way (docs/01-architecture.md, Message *)
(* lifecycle): it is suppressed when it is created or never, a suppressed  *)
(* message reaches no provider, and each time a provider takes a message a *)
(* dispatch-rate reservation made for that message is used up.             *)
(***************************************************************************)
EXTENDS Naturals

CONSTANT Msgs

VARIABLES
    phase,      \* "absent", "suppressed" or "live"
    reserved,   \* reservations ever made for a message
    handed      \* times a provider took it

vars == <<phase, reserved, handed>>

Init ==
    /\ phase = [m \in Msgs |-> "absent"]
    /\ reserved = [m \in Msgs |-> 0]
    /\ handed = [m \in Msgs |-> 0]

Suppress(m) ==
    /\ phase[m] = "absent"
    /\ phase' = [phase EXCEPT ![m] = "suppressed"]
    /\ UNCHANGED <<reserved, handed>>

Accept(m) ==
    /\ phase[m] = "absent"
    /\ phase' = [phase EXCEPT ![m] = "live"]
    /\ UNCHANGED <<reserved, handed>>

Reserve(m) ==
    /\ phase[m] = "live"
    /\ reserved' = [reserved EXCEPT ![m] = @ + 1]
    /\ UNCHANGED <<phase, handed>>

HandOver(m) ==
    /\ phase[m] = "live"
    /\ handed[m] < reserved[m]
    /\ handed' = [handed EXCEPT ![m] = @ + 1]
    /\ UNCHANGED <<phase, reserved>>

Next == \E m \in Msgs : Suppress(m) \/ Accept(m) \/ Reserve(m) \/ HandOver(m)

Spec == Init /\ [][Next]_vars
=============================================================================
