------------------------- MODULE ControlLeaseProofs -------------------------
(***************************************************************************)
(* Proofs about ControlLease, for every set of clients, every grace period *)
(* and every bound on epochs.                                              *)
(*                                                                         *)
(* Fencing is not inductive by itself: a second writer is kept out of an   *)
(* epoch because no write is ever ahead of the present epoch, and those of *)
(* the present epoch are the present controller's (WritesBehindLease).     *)
(***************************************************************************)
EXTENDS ControlLease, TLAPS

\* Past writes quote past epochs; writes under the present epoch are the
\* present controller's.
WritesBehindLease ==
    \A w \in writes :
        /\ w[1] <= lease.epoch
        /\ w[1] = lease.epoch => w[2] = lease.controller

IInv ==
    /\ LeaseTypeOK
    /\ WritesBehindLease
    /\ OneWriterPerEpoch
    /\ AbandonedLeaseIsTimed

\* Two states of a session, before and after a call: either the lease is in the
\* same hands under the same epoch, or the epoch has advanced.
SameHandsOrLater(s, t) ==
    \/ t.epoch = s.epoch /\ t.controller = s.controller
    \/ t.epoch > s.epoch

\* Arming or cancelling the timer touches nothing else.
LEMMA TimerFieldOnly ==
    ASSUME NEW s \in Lease, NEW x \in [armed : BOOLEAN, epoch : 0..MaxEpoch],
           NEW t, t = [s EXCEPT !.timer = x]
    PROVE  /\ t \in Lease /\ t.timer = x
           /\ t.epoch = s.epoch /\ t.controller = s.controller
           /\ t.clients = s.clients
  BY DEF Lease

LEMMA ClearExpiryFields ==
    ASSUME NEW s \in Lease
    PROVE  /\ ClearExpiry(s) \in Lease
           /\ ClearExpiry(s).epoch = s.epoch
           /\ ClearExpiry(s).controller = s.controller
           /\ ClearExpiry(s).clients = s.clients
<1>1. NoTimer \in [armed : BOOLEAN, epoch : 0..MaxEpoch]
  BY ConstantsAssumption DEF NoTimer
<1>2. QED
  BY <1>1, TimerFieldOnly DEF ClearExpiry

LEMMA ScheduleExpiryFields ==
    ASSUME NEW s \in Lease
    PROVE  /\ ScheduleExpiry(s) \in Lease
           /\ ScheduleExpiry(s).epoch = s.epoch
           /\ ScheduleExpiry(s).controller = s.controller
           /\ ScheduleExpiry(s).timer = [armed |-> TRUE, epoch |-> s.epoch]
<1> DEFINE x == [armed |-> TRUE, epoch |-> s.epoch]
<1>1. x \in [armed : BOOLEAN, epoch : 0..MaxEpoch]
  BY DEF Lease
<1>2. ScheduleExpiry(s) = [s EXCEPT !.timer = x]
  BY DEF ScheduleExpiry
<1>3. /\ ScheduleExpiry(s) \in Lease /\ ScheduleExpiry(s).timer = x
      /\ ScheduleExpiry(s).epoch = s.epoch
      /\ ScheduleExpiry(s).controller = s.controller
  <2> HIDE DEF x
  <2>1. QED
    BY <1>1, <1>2, TimerFieldOnly
<1>4. QED
  BY <1>3

\* Below the largest epoch, the expiry of an abandoned session s is timed.
Timed(s) ==
    Abandoned(s) /\ s.epoch < MaxEpoch => s.timer.armed /\ s.timer.epoch = s.epoch

\* An attempt to change the hands of a well-formed session leaves it well formed
\* and timed: at the largest epoch hands stay, below it k, who is connected or
\* nobody, has the lease under the next epoch.
LEMMA SetControllerIsSound ==
    ASSUME NEW s \in Lease, NEW k \in Token \cup {NoToken},
           k \in s.clients \cup {NoToken},
           NEW t, t = SetController(s, k)
    PROVE  /\ t \in Lease
           /\ SameHandsOrLater(s, t)
           /\ Timed(t)
<1>1. CASE s.epoch = MaxEpoch
  <2>1. t = ClearExpiry(s)
    BY <1>1 DEF SetController
  <2>2. t \in Lease /\ t.epoch = MaxEpoch /\ t.controller = s.controller
    BY <1>1, <2>1, ClearExpiryFields
  <2>3. QED
    BY <1>1, <2>2, ConstantsAssumption DEF SameHandsOrLater, Timed
<1>2. CASE s.epoch # MaxEpoch
  <2>1. t = [ epoch |-> s.epoch + 1, clients |-> s.clients, controller |-> k,
              left |-> 0, timer |-> NoTimer ]
    BY <1>2 DEF SetController
  <2>2. s.epoch \in Nat /\ s.epoch + 1 \in 0..MaxEpoch
    BY <1>2, ConstantsAssumption DEF Lease
  <2>3. NoTimer \in [armed : BOOLEAN, epoch : 0..MaxEpoch]
    BY ConstantsAssumption DEF NoTimer
  <2>4. t \in Lease
    BY <2>1, <2>2, <2>3, ConstantsAssumption DEF Lease
  <2>5. SameHandsOrLater(s, t)
    BY <2>1, <2>2 DEF SameHandsOrLater
  <2>6. ~Abandoned(t)
    BY <2>1 DEF Abandoned
  <2>7. QED
    BY <2>4, <2>5, <2>6 DEF Timed
<1>3. QED
  BY <1>1, <1>2

\* current() keeps a session well formed and its expiry timed, and changes
\* hands only under a later epoch.
LEMMA CurrentIsSound ==
    ASSUME lease \in Lease, AbandonedLeaseIsTimed,
           NEW s, s = Current(lease)
    PROVE  /\ s \in Lease
           /\ SameHandsOrLater(lease, s)
           /\ Timed(s)
<1>1. CASE Lapsed(lease)
  BY <1>1, SetControllerIsSound DEF Current
<1>2. CASE ~Lapsed(lease)
  BY <1>2 DEF Current, SameHandsOrLater, AbandonedLeaseIsTimed, Timed
<1>3. QED
  BY <1>1, <1>2

\* A step that lets no write through preserves the invariant as soon as the
\* state it leaves is well formed, timed, and not a silent change of hands.
LEMMA QuietStep ==
    ASSUME IInv, writes' = writes, lease' \in Lease,
           SameHandsOrLater(lease, lease'), Timed(lease')
    PROVE  IInv'
<1>1. LeaseTypeOK'
  BY DEF IInv, LeaseTypeOK
<1>2. WritesBehindLease'
  <2> SUFFICES ASSUME NEW w \in writes
               PROVE  /\ w[1] <= lease'.epoch
                      /\ w[1] = lease'.epoch => w[2] = lease'.controller
    BY DEF WritesBehindLease
  <2>1. w[1] \in Nat /\ lease.epoch \in Nat /\ lease'.epoch \in Nat
    BY DEF IInv, LeaseTypeOK, Lease
  <2>2. w[1] <= lease.epoch /\ (w[1] = lease.epoch => w[2] = lease.controller)
    BY DEF IInv, WritesBehindLease
  <2>3. QED
    BY <2>1, <2>2 DEF SameHandsOrLater
<1>3. OneWriterPerEpoch'
  BY DEF IInv, OneWriterPerEpoch
<1>4. AbandonedLeaseIsTimed'
  BY DEF AbandonedLeaseIsTimed, Timed, Abandoned
<1>5. QED
  BY <1>1, <1>2, <1>3, <1>4 DEF IInv

\* Giving the lease of a well-formed session to k is such a step, when k is
\* connected or nobody and the session came from the present one.
LEMMA HandOver ==
    ASSUME IInv, writes' = writes,
           NEW s \in Lease, SameHandsOrLater(lease, s),
           NEW k \in Token \cup {NoToken},
           k \in s.clients \cup {NoToken},
           lease' = SetController(s, k)
    PROVE  IInv'
<1>1. lease' \in Lease /\ SameHandsOrLater(s, lease') /\ Timed(lease')
  BY SetControllerIsSound
<1>2. SameHandsOrLater(lease, lease')
  BY <1>1 DEF SameHandsOrLater, IInv, LeaseTypeOK, Lease
<1>3. QED
  BY <1>1, <1>2, QuietStep

LEMMA InitIInv == LeaseInit => IInv
  BY ConstantsAssumption
  DEF LeaseInit, IInv, LeaseTypeOK, WritesBehindLease, OneWriterPerEpoch,
      AbandonedLeaseIsTimed, Abandoned, FreshLease, NoTimer, Lease

LEMMA StepIInv == IInv /\ [LeaseNext]_leaseVars => IInv'
<1> SUFFICES ASSUME IInv, [LeaseNext]_leaseVars
             PROVE  IInv'
  OBVIOUS
<1> DEFINE s == Current(lease)
<1>s. s \in Lease /\ SameHandsOrLater(lease, s) /\ Timed(s)
  BY CurrentIsSound DEF IInv, LeaseTypeOK
<1>e. lease.epoch \in Nat /\ s.epoch \in Nat /\ s.epoch >= lease.epoch
  BY <1>s DEF IInv, LeaseTypeOK, Lease, SameHandsOrLater
<1>1. CASE Status
  BY <1>1, <1>s, QuietStep DEF Status
<1>2. ASSUME NEW k \in Token, Connect(k)
      PROVE  IInv'
  <2> DEFINE joined == [s EXCEPT !.clients = @ \cup {k}]
  <2>1. /\ joined \in Lease /\ k \in joined.clients
        /\ joined.epoch = s.epoch /\ joined.controller = s.controller
        /\ joined.timer = s.timer /\ joined.clients = s.clients \cup {k}
    BY <1>s DEF Lease
  <2>2. SameHandsOrLater(lease, joined)
    BY <1>s, <2>1 DEF SameHandsOrLater
  <2>3. CASE s.controller \in {NoToken, k}
    <3>1. lease' = SetController(joined, k) /\ writes' = writes
      BY <1>2, <2>3 DEF Connect
    <3> HIDE DEF joined
    <3>2. QED
      BY <3>1, <2>1, <2>2, HandOver
  <2>4. CASE s.controller \notin {NoToken, k}
    <3>1. lease' = joined /\ writes' = writes
      BY <1>2, <2>4 DEF Connect
    <3> HIDE DEF joined
    <3>2. Timed(joined)
      BY <1>s, <2>1, <2>4 DEF Timed, Abandoned
    <3>3. QED
      BY <3>1, <3>2, <2>1, <2>2, QuietStep
  <2>5. QED
    BY <2>3, <2>4
<1>3. ASSUME NEW k \in Token, Disconnect(k)
      PROVE  IInv'
  <2> DEFINE gone == [s EXCEPT !.clients = @ \ {k}]
  <2> DEFINE waiting == [gone EXCEPT !.left = Grace]
  <2>1. /\ gone \in Lease /\ gone.epoch = s.epoch
        /\ gone.controller = s.controller /\ gone.timer = s.timer
        /\ gone.clients = s.clients \ {k}
    BY <1>s DEF Lease
  <2>2. /\ waiting \in Lease /\ waiting.epoch = s.epoch
        /\ waiting.controller = s.controller
    <3> HIDE DEF gone
    <3>1. QED
      BY <2>1, ConstantsAssumption DEF Lease
  <2>3. SameHandsOrLater(lease, gone) /\ SameHandsOrLater(lease, waiting)
    BY <1>s, <2>1, <2>2 DEF SameHandsOrLater
  <2>4. writes' = writes
    BY <1>3 DEF Disconnect
  <2>5. CASE s.controller # k
    <3>1. lease' = gone
      BY <1>3, <2>5 DEF Disconnect
    <3> HIDE DEF gone
    <3>2. Timed(gone)
      BY <1>s, <2>1, <2>5 DEF Timed, Abandoned
    <3>3. QED
      BY <3>1, <3>2, <2>1, <2>3, <2>4, QuietStep
  <2>6. CASE s.controller = k /\ Grace = 0
    <3>1. lease' = SetController(waiting, NoToken)
      BY <1>3, <2>6 DEF Disconnect
    <3> HIDE DEF waiting
    <3>2. QED
      BY <3>1, <2>2, <2>3, <2>4, HandOver
  <2>7. CASE s.controller = k /\ Grace # 0
    <3>1. lease' = ScheduleExpiry(waiting)
      BY <1>3, <2>7 DEF Disconnect
    <3> HIDE DEF waiting
    <3>2. /\ lease' \in Lease /\ lease'.epoch = s.epoch
          /\ lease'.controller = s.controller
          /\ lease'.timer = [armed |-> TRUE, epoch |-> s.epoch]
      BY <3>1, <2>2, ScheduleExpiryFields
    <3>3. SameHandsOrLater(lease, lease') /\ Timed(lease')
      BY <1>s, <3>2 DEF SameHandsOrLater, Timed
    <3>4. QED
      BY <3>2, <3>3, <2>4, QuietStep
  <2>8. QED
    BY <2>5, <2>6, <2>7
<1>4. ASSUME NEW k \in Token, NEW e \in 0..lease.epoch, Release(k, e)
      PROVE  IInv'
  <2>1. lease' = SetController(s, NoToken) /\ writes' = writes
    BY <1>4 DEF Release
  <2>2. QED
    BY <2>1, <1>s, HandOver
<1>5. ASSUME NEW k \in Token, NEW e \in 0..lease.epoch, Write(k, e)
      PROVE  IInv'
  <2>1. /\ k \in s.clients /\ e = s.epoch /\ s.controller = k
        /\ lease' = s
        /\ writes' = writes \cup {<<e, k>>}
    BY <1>5 DEF Write, InControl
  <2>0. e \in 0..MaxEpoch
    BY <2>1, <1>s DEF Lease
  <2>2. LeaseTypeOK'
    <3> HIDE DEF s
    <3>1. QED
      BY <2>0, <2>1, <1>s DEF IInv, LeaseTypeOK
  <2>3. \A w \in writes : /\ w[1] \in Nat /\ w[1] <= s.epoch
                          /\ w[1] = s.epoch => w[2] = s.controller
    BY <2>1, <1>s, <1>e
    DEF IInv, LeaseTypeOK, WritesBehindLease, SameHandsOrLater
  <2>4. WritesBehindLease'
    BY <2>1, <2>3, <1>e DEF WritesBehindLease
  <2>5. OneWriterPerEpoch'
    BY <2>1, <2>3 DEF IInv, OneWriterPerEpoch
  <2>6. AbandonedLeaseIsTimed'
    BY <2>1, <1>s DEF AbandonedLeaseIsTimed, Timed, Abandoned
  <2>7. QED
    BY <2>2, <2>4, <2>5, <2>6 DEF IInv
<1>6. ASSUME NEW k \in Token, NEW e \in 0..lease.epoch,
             NEW takeover \in BOOLEAN, Claim(k, e, takeover)
      PROVE  IInv'
  <2>1. lease' = SetController(s, k) /\ writes' = writes /\ k \in s.clients
    BY <1>6 DEF Claim
  <2>2. QED
    BY <2>1, <1>s, HandOver
<1>7. CASE TimerFires
  <2> DEFINE c == ClearExpiry(lease)
  <2>1. /\ c \in Lease /\ c.epoch = lease.epoch
        /\ c.controller = lease.controller /\ c.clients = lease.clients
    BY ClearExpiryFields DEF IInv, LeaseTypeOK
  <2>2. writes' = writes /\ lease.timer.armed
    BY <1>7 DEF TimerFires
  <2>3. CASE lease.timer.epoch # c.epoch \/ ~Abandoned(c)
    <3>1. lease' = c
      BY <1>7, <2>3 DEF TimerFires
    <3> HIDE DEF c
    <3>2. Timed(c)
      BY <2>1, <2>3 DEF IInv, AbandonedLeaseIsTimed, Abandoned, Timed
    <3>3. QED
      BY <3>1, <3>2, <2>1, <2>2, QuietStep DEF SameHandsOrLater
  <2>4. CASE lease.timer.epoch = c.epoch /\ Abandoned(c) /\ Lapsed(c)
    <3>1. lease' = SetController(c, NoToken)
      BY <1>7, <2>4 DEF TimerFires
    <3> HIDE DEF c
    <3>2. SameHandsOrLater(lease, c)
      BY <2>1 DEF SameHandsOrLater
    <3>3. QED
      BY <3>1, <3>2, <2>1, <2>2, HandOver
  <2>5. CASE lease.timer.epoch = c.epoch /\ Abandoned(c) /\ ~Lapsed(c)
    <3>1. lease' = ScheduleExpiry(c)
      BY <1>7, <2>5 DEF TimerFires
    <3> HIDE DEF c
    <3>2. /\ lease' \in Lease
          /\ lease'.epoch = lease.epoch
          /\ lease'.controller = lease.controller
          /\ lease'.timer = [armed |-> TRUE, epoch |-> lease.epoch]
      BY <3>1, <2>1, ScheduleExpiryFields
    <3>3. QED
      BY <3>2, <2>2, QuietStep DEF SameHandsOrLater, Timed
  <2>6. QED
    BY <2>3, <2>4, <2>5
<1>8. CASE Forget
  BY <1>8, ConstantsAssumption
  DEF Forget, IInv, LeaseTypeOK, WritesBehindLease, OneWriterPerEpoch,
      AbandonedLeaseIsTimed, Abandoned, FreshLease, NoTimer, Lease
<1>9. CASE Tick
  <2>1. /\ lease' \in Lease
        /\ lease'.epoch = lease.epoch /\ lease'.timer = lease.timer
        /\ lease'.controller = lease.controller
        /\ lease'.clients = lease.clients
    BY <1>9, ConstantsAssumption DEF Tick, IInv, LeaseTypeOK, Lease
  <2>2. writes' = writes
    BY <1>9 DEF Tick
  <2>3. SameHandsOrLater(lease, lease') /\ Timed(lease')
    BY <2>1 DEF SameHandsOrLater, Timed, Abandoned, IInv, AbandonedLeaseIsTimed
  <2>4. QED
    BY <2>1, <2>2, <2>3, QuietStep
<1>10. CASE UNCHANGED leaseVars
  BY <1>10 DEF leaseVars, IInv, LeaseTypeOK, WritesBehindLease, OneWriterPerEpoch,
               AbandonedLeaseIsTimed, Abandoned
<1>11. QED
  BY <1>1, <1>2, <1>3, <1>4, <1>5, <1>6, <1>7, <1>8, <1>9, <1>10 DEF LeaseNext

\* The variables of the control lease always have their types.
THEOREM TypeCorrect == LeaseSpec => []LeaseTypeOK
<1>1. IInv => LeaseTypeOK
  BY DEF IInv
<1>2. QED
  BY <1>1, InitIInv, StepIInv, PTL DEF LeaseSpec

\* Two writes let through under one epoch always came from one client.
THEOREM Fencing == LeaseSpec => []OneWriterPerEpoch
<1>1. IInv => OneWriterPerEpoch
  BY DEF IInv
<1>2. QED
  BY <1>1, InitIInv, StepIInv, PTL DEF LeaseSpec

\* Below the largest epoch the expiry of an abandoned lease is never lost: no
\* sequence of calls, timers and clock steps leaves such a lease untimed.
THEOREM ExpiryIsNeverLost == LeaseSpec => []AbandonedLeaseIsTimed
<1>1. IInv => AbandonedLeaseIsTimed
  BY DEF IInv
<1>2. QED
  BY <1>1, InitIInv, StepIInv, PTL DEF LeaseSpec

\* What ends a present holder's lease.
TakenOrGivenUp(k) ==
    \/ \E j \in Token : Claim(j, lease.epoch, TRUE)
    \/ Release(k, lease.epoch)
    \/ Grace = 0 /\ Disconnect(k)
    \/ Forget

\* Of the calls only a takeover, a release and, without a grace, a departure
\* change the hands of a lease that has not lapsed.
LEMMA CallsKeepTheHolder ==
    ASSUME LeaseTypeOK, NEW k, k = lease.controller, k # NoToken, ~Lapsed(lease),
           NEW j \in Token, NEW e \in 0..lease.epoch,
           \/ Status \/ Connect(j) \/ Disconnect(j) \/ Release(j, e) \/ Write(j, e)
           \/ \E takeover \in BOOLEAN : Claim(j, e, takeover),
           lease'.controller # k
    PROVE  TakenOrGivenUp(k)
<1>1. Current(lease) = lease /\ lease \in Lease
  BY DEF Current, LeaseTypeOK
<1>2. CASE Status \/ Write(j, e)
  BY <1>1, <1>2 DEF Status, Write
<1>3. CASE Connect(j)
  <2>1. CASE j = k
    <3> DEFINE joined == [lease EXCEPT !.clients = @ \cup {j}]
    <3>1. lease' = SetController(joined, k)
      BY <1>1, <1>3, <2>1 DEF Connect
    <3>2. joined \in Lease /\ joined.controller = k
      BY <1>1 DEF Lease
    <3> HIDE DEF joined
    <3>3. lease'.controller = k
      BY <3>1, <3>2, ClearExpiryFields DEF SetController
    <3> QED
      BY <3>3
  <2>2. CASE j # k
    <3>1. lease' = [lease EXCEPT !.clients = @ \cup {j}]
      BY <1>1, <1>3, <2>2 DEF Connect
    <3> QED
      BY <1>1, <3>1 DEF Lease
  <2> QED
    BY <2>1, <2>2
<1>4. CASE Disconnect(j)
  <2> DEFINE gone == [lease EXCEPT !.clients = @ \ {j}]
             waiting == [gone EXCEPT !.left = Grace]
  <2>1. gone.controller = k /\ waiting.controller = k
    BY <1>1 DEF Lease
  <2>2. CASE j # k
    BY <1>1, <1>4, <2>1, <2>2 DEF Disconnect
  <2>3. CASE j = k /\ Grace # 0
    <3>1. lease' = ScheduleExpiry(waiting)
      BY <1>1, <1>4, <2>3 DEF Disconnect
    <3>2. lease'.controller = waiting.controller
      BY <1>1, <3>1 DEF ScheduleExpiry, Lease
    <3> QED
      BY <2>1, <3>2
  <2>4. CASE j = k /\ Grace = 0
    BY <1>4, <2>4 DEF TakenOrGivenUp
  <2> QED
    BY <2>2, <2>3, <2>4
<1>5. CASE Release(j, e)
  <2>1. e = lease.epoch /\ j = k
    BY <1>1, <1>5 DEF Release, InControl
  <2> QED
    BY <1>5, <2>1 DEF TakenOrGivenUp
<1>6. CASE \E takeover \in BOOLEAN : Claim(j, e, takeover)
  <2>1. PICK takeover \in BOOLEAN : Claim(j, e, takeover)
    BY <1>6
  <2>2. e = lease.epoch /\ takeover = TRUE
    BY <1>1, <2>1 DEF Claim
  <2> QED
    BY <2>1, <2>2 DEF TakenOrGivenUp
<1> QED
  BY <1>2, <1>3, <1>4, <1>5, <1>6

\* No connection or departure of another client, and no timer, early, late or
\* left over, takes the lease from a holder that is connected or within its
\* grace (connect, disconnect, scheduleExpiry's callback).
THEOREM HolderStays == LeaseSpec => HolderKeepsTheLease
<1>1. ASSUME LeaseTypeOK, LeaseNext, NEW k, k = lease.controller, k # NoToken, ~Lapsed(lease),
             lease'.controller # k
      PROVE  TakenOrGivenUp(k)
  <2>0. k \in Token /\ lease.epoch \in 0..lease.epoch /\ lease \in Lease
    BY <1>1 DEF LeaseTypeOK, Lease
  <2>1. CASE TimerFires
    <3> DEFINE c == ClearExpiry(lease)
    <3>1. /\ c.controller = k /\ c.clients = lease.clients /\ c.left = lease.left /\ c \in Lease
      BY <1>1, <2>0, ClearExpiryFields DEF ClearExpiry, Lease
    <3>2. ~Lapsed(c)
      BY <1>1, <3>1 DEF Lapsed, Abandoned
    <3>3. lease' = c \/ lease' = ScheduleExpiry(c)
      BY <2>1, <3>2 DEF TimerFires
    <3> HIDE DEF c
    <3>4. ScheduleExpiry(c).controller = k
      BY <3>1, ScheduleExpiryFields
    <3> QED
      BY <1>1, <3>1, <3>3, <3>4
  <2>2. CASE Forget
    BY <2>2 DEF TakenOrGivenUp
  <2>3. CASE Tick
    BY <1>1, <2>0, <2>3 DEF Tick, Lease
  <2>4. CASE Status
    BY <1>1, <2>0, <2>4, CallsKeepTheHolder
  <2>5. CASE \E j \in Token : Connect(j) \/ Disconnect(j)
    BY <1>1, <2>0, <2>5, CallsKeepTheHolder
  <2>6. CASE \E j \in Token, e \in 0..lease.epoch :
                \/ Release(j, e) \/ Write(j, e)
                \/ \E takeover \in BOOLEAN : Claim(j, e, takeover)
    BY <1>1, <2>6, CallsKeepTheHolder
  <2> QED
    BY <1>1, <2>1, <2>2, <2>3, <2>4, <2>5, <2>6 DEF LeaseNext
<1>2. IInv /\ [LeaseNext]_leaseVars => [LET k == lease.controller
        IN  /\ k # NoToken
            /\ ~Lapsed(lease)
            /\ lease'.controller # k
            => \/ \E j \in Token : Claim(j, lease.epoch, TRUE)
               \/ Release(k, lease.epoch)
               \/ Grace = 0 /\ Disconnect(k)
               \/ Forget]_leaseVars
  BY <1>1 DEF IInv, TakenOrGivenUp
<1> QED
  BY <1>2, InitIInv, StepIInv, PTL DEF LeaseSpec, HolderKeepsTheLease

=============================================================================
