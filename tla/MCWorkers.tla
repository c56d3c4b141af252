------------------------------- MODULE MCWorkers -------------------------------
(* The two parts whose liveness is checked: the native service with its     *)
(* workers, and the control of a web session.  They share no variable, so a *)
(* behaviour moves one of them, and the states are the sum of theirs.  No    *)
(* action that is owed fairness is enabled in an initial state (no daemon is *)
(* up, no timer is armed), so the part that stays there is treated fairly.  *)
EXTENDS NativeDelivery, ControlLease

VARIABLE part   \* the one that moves

WorkersInit == Init /\ LeaseInit /\ part \in {"delivery", "lease"}

DeliveryMoves == part = "delivery" /\ Next /\ UNCHANGED <<leaseVars, part>>
LeaseMoves == part = "lease" /\ LeaseNext /\ UNCHANGED <<vars, part>>

WorkersNext == DeliveryMoves \/ LeaseMoves

WorkersSpec ==
    /\ WorkersInit /\ [][WorkersNext]_<<vars, leaseVars, part>>
    /\ Fairness /\ LeaseFairness
=============================================================================
