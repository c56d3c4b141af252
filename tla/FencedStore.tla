------------------------------ MODULE FencedStore ------------------------------
(***************************************************************************)
(* What the native owner row is for: writes to the shared databases come   *)
(* from one generation after another.  A later epoch starts when the store *)
(* decides, and from then on nothing written under an earlier epoch        *)
(* arrives.  NativeOwner implements this.                                  *)
(***************************************************************************)
EXTENDS Naturals

VARIABLES
    epoch,      \* the epoch of the generation that owns the store
    latest      \* the epoch under which the latest write was made

Init == epoch = 0 /\ latest = 0

Succeed == epoch' = epoch + 1 /\ latest' = latest
Write == epoch > 0 /\ latest' = epoch /\ epoch' = epoch

Next == Succeed \/ Write

Spec == Init /\ [][Next]_<<epoch, latest>>
=============================================================================
