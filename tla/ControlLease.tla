---------------------------- MODULE ControlLease ----------------------------
(***************************************************************************)
(* Ownership of one terminal session by its browser clients                *)
(* (lib/web/control-lease.mjs), together with the gate that the web        *)
(* runtime puts in front of every write (lib/web/runtime-main.mjs).        *)
(*                                                                         *)
(* A client is named by its private action token.  Every change of         *)
(* controller advances a fencing epoch, and a write must quote the epoch   *)
(* it was decided under.  A controller whose socket closes keeps the lease *)
(* for a grace period, ended by a timer or by the first call that notices. *)
(* Each exported function is synchronous JavaScript, so each is one step.  *)
(***************************************************************************)
EXTENDS Naturals

CONSTANTS
    Token,      \* action tokens: one per websocket
    NoToken,    \* "no controller"
    Grace,      \* disconnectGraceMs
    MaxEpoch    \* bound on epoch: Number.MAX_SAFE_INTEGER in the code

ASSUME ConstantsAssumption ==
    /\ NoToken \notin Token
    /\ Grace \in Nat
    /\ MaxEpoch \in Nat

VARIABLES
    lease,      \* the state kept for the session in the WeakMap
    writes      \* history: <<epoch, token>> of every write let through

leaseVars == <<lease, writes>>

NoTimer == [armed |-> FALSE, epoch |-> 0]

\* stateFor on a session seen for the first time.  "left" is what remains of
\* expiresAt - nowMs(), so that no absolute clock is needed.
FreshLease ==
    [ epoch |-> 0, clients |-> {}, controller |-> NoToken,
      left |-> 0, timer |-> NoTimer ]

\* The controller's socket is gone: controller.connected is false.
Abandoned(s) == s.controller # NoToken /\ s.controller \notin s.clients

\* expire() would end the lease at this instant.
Lapsed(s) == Abandoned(s) /\ s.left = 0

ClearExpiry(s) == [s EXCEPT !.timer = NoTimer]

\* Faulty variant of SetController: hands change under the same epoch.
SetControllerSameEpoch(s, k) ==
    [ epoch |-> s.epoch, clients |-> s.clients, controller |-> k,
      left |-> 0, timer |-> NoTimer ]

\* Faulty variant of SetController: the epoch is not bounded.
SetControllerUnbounded(s, k) ==
    [ epoch |-> s.epoch + 1, clients |-> s.clients, controller |-> k,
      left |-> 0, timer |-> NoTimer ]

\* setController, and with NoToken the tail of expire and release: the timer
\* is cancelled and the epoch advances with every change of hands.  At the
\* largest epoch advanceEpoch throws (CONTROL_EPOCH_EXHAUSTED) when the timer
\* has been cancelled already: hands do not change, the expiry is not armed.
SetController(s, k) ==
    IF s.epoch = MaxEpoch THEN ClearExpiry(s)
    ELSE [ epoch |-> s.epoch + 1, clients |-> s.clients, controller |-> k,
           left |-> 0, timer |-> NoTimer ]

\* current(): every exported call first ends a lapsed lease.  Where that throws
\* the lease is still lapsed afterwards and the call goes no further.
Current(s) == IF Lapsed(s) THEN SetController(s, NoToken) ELSE s

\* Faulty variant of ScheduleExpiry: the callback compares an old epoch.
ScheduleExpiryStale(s) == [s EXCEPT !.timer = [armed |-> TRUE, epoch |-> @.epoch]]

\* scheduleExpiry(): replaces whatever timer there was.
ScheduleExpiry(s) == [s EXCEPT !.timer = [armed |-> TRUE, epoch |-> s.epoch]]

LeaseInit ==
    /\ lease = FreshLease
    /\ writes = {}

\* status(): also what any call amounts to that current() or a check refuses.
Status ==
    /\ lease' = Current(lease)
    /\ UNCHANGED writes

\* connect(): the first client takes the lease; a controller that comes back
\* within its grace keeps it under a new epoch.  The client has joined even
\* where the epoch cannot advance.
Connect(k) ==
    LET s == Current(lease)
        joined == [s EXCEPT !.clients = @ \cup {k}]
    IN  /\ ~Lapsed(s)
        /\ k \notin s.clients
        /\ lease' = IF s.controller \in {NoToken, k}
                    THEN SetController(joined, k)
                    ELSE joined
        /\ UNCHANGED writes

\* disconnect(): the controller's departure starts its grace period; with no
\* grace at all the lease ends within the same call.
Disconnect(k) ==
    LET s == Current(lease)
        gone == [s EXCEPT !.clients = @ \ {k}]
        waiting == [gone EXCEPT !.left = Grace]
    IN  /\ ~Lapsed(s)
        /\ k \in s.clients
        /\ lease' = IF s.controller # k THEN gone
                    ELSE IF Grace = 0 THEN SetController(waiting, NoToken)
                    ELSE ScheduleExpiry(waiting)
        /\ UNCHANGED writes

\* claim(): needs the current epoch, and an explicit takeover when somebody
\* else holds the lease.
Claim(k, e, takeover) ==
    LET s == Current(lease)
    IN  /\ ~Lapsed(s)
        /\ k \in s.clients
        /\ e = s.epoch
        /\ s.controller # k
        /\ s.controller = NoToken \/ takeover
        /\ lease' = SetController(s, k)
        /\ UNCHANGED writes

\* assertControl(): with k connected the lease has not lapsed.
InControl(s, k, e) ==
    /\ k \in s.clients
    /\ e = s.epoch
    /\ s.controller = k

\* release() by the controller.
Release(k, e) ==
    LET s == Current(lease)
    IN  /\ InControl(s, k, e)
        /\ lease' = SetController(s, NoToken)
        /\ UNCHANGED writes

\* A terminal input or resize frame that assertSessionControl lets through.
Write(k, e) ==
    LET s == Current(lease)
    IN  /\ InControl(s, k, e)
        /\ lease' = s
        /\ writes' = writes \cup {<<e, k>>}

\* Faulty variant of TimerFires: the timer's own word is taken for the end of
\* the grace period.
TimerFiresUnchecked ==
    /\ lease.timer.armed
    /\ LET s == ClearExpiry(lease)
       IN  lease' = IF Abandoned(s) THEN SetController(s, NoToken) ELSE s
    /\ UNCHANGED writes

\* The callback given to schedule().  The timer runs on the monotonic clock,
\* so it may find the wall clock short of expiresAt, and then waits again.
TimerFires ==
    /\ lease.timer.armed
    /\ LET s == ClearExpiry(lease)
       IN  lease' = IF lease.timer.epoch # s.epoch \/ ~Abandoned(s) THEN s
                    ELSE IF Lapsed(s) THEN SetController(s, NoToken)
                    ELSE ScheduleExpiry(s)
    /\ UNCHANGED writes

\* forget(): the session is closed; a later connection starts from nothing.
Forget ==
    /\ lease' = FreshLease
    /\ writes' = {}

\* The wall clock advances towards the end of the grace period.
Tick ==
    /\ lease.left > 0
    /\ lease' = [lease EXCEPT !.left = @ - 1]
    /\ UNCHANGED writes

LeaseNext ==
    \/ Status
    \/ \E k \in Token : Connect(k) \/ Disconnect(k)
    \/ \E k \in Token, e \in 0..lease.epoch :
          \/ Release(k, e)
          \/ Write(k, e)
          \/ \E takeover \in BOOLEAN : Claim(k, e, takeover)
    \/ TimerFires
    \/ Forget
    \/ Tick

LeaseSpec == LeaseInit /\ [][LeaseNext]_leaseVars

\* The event loop runs an armed timer, and time passes.
LeaseFairness == WF_leaseVars(TimerFires) /\ WF_leaseVars(Tick)

-----------------------------------------------------------------------------

Lease ==
    [ epoch : 0..MaxEpoch, clients : SUBSET Token,
      controller : Token \cup {NoToken}, left : 0..Grace,
      timer : [armed : BOOLEAN, epoch : 0..MaxEpoch] ]

\* The variables have their types.
LeaseTypeOK ==
    /\ lease \in Lease
    /\ writes \subseteq (0..MaxEpoch) \X Token

\* Fencing: two writes let through under one epoch came from one client, over
\* any sequence of takeovers, releases, expiries and reconnections
\* (advanceEpoch in setController, expire and release).
OneWriterPerEpoch ==
    \A v, w \in writes : v[1] = w[1] => v[2] = w[2]

\* Below the largest epoch, a lease whose controller has gone has a timer armed
\* for its present epoch: no sequence of calls loses the expiry (scheduleExpiry,
\* clearExpiry).  At the largest epoch a call that fails to change hands has
\* cancelled the timer before it throws, and nothing arms it again.
AbandonedLeaseIsTimed ==
    Abandoned(lease) /\ lease.epoch < MaxEpoch =>
        lease.timer.armed /\ lease.timer.epoch = lease.epoch

\* Connected or within its grace, a holder loses the lease only to a takeover,
\* to its own release or to the end of the session: never to another client's
\* connection or departure, nor to a timer that fires early or was left over
\* from a previous departure (scheduleExpiry's callback, connect, disconnect).
HolderKeepsTheLease ==
    [][ LET k == lease.controller
        IN  /\ k # NoToken
            /\ ~Lapsed(lease)
            /\ lease'.controller # k
            => \/ \E j \in Token : Claim(j, lease.epoch, TRUE)
               \/ Release(k, lease.epoch)
               \/ Grace = 0 /\ Disconnect(k)
               \/ Forget ]_leaseVars

\* An abandoned lease does not last: the client comes back or somebody else
\* can have it.  (At the bound on epochs nobody can be given the lease.)
AbandonedLeaseEnds ==
    (Abandoned(lease) /\ lease.epoch < MaxEpoch) ~> ~Abandoned(lease)

=============================================================================
