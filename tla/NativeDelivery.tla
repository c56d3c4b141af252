---------------------------- MODULE NativeDelivery ----------------------------
(***************************************************************************)
(* How the messages of one native peer reach its provider: the worker of   *)
(* lib/runtime/native/service.mjs, the deliveries table of its store       *)
(* (store.mjs) and what the adapters under lib/integrations/native tell it.*)
(*                                                                         *)
(* Two databases are involved.  Messages, acknowledgements and the intents *)
(* of submissions are in the project's mesh.db, which other programs write *)
(* too; deliveries are in the native state.db, which only the daemon       *)
(* writes.  A step of the daemon that writes both commits the first before *)
(* the second, and either the step or the daemon may end in between.       *)
(*                                                                         *)
(* Handlers run to completion, one at a time; what they await is a step of *)
(* its own.  Daemons follow one another (their fencing is not modelled     *)
(* here).  A message is its id; recipients, text and tasks are left out.   *)
(***************************************************************************)
EXTENDS Integers, FiniteSets

CONSTANTS
    Provider,       \* "codex", "claude" or "dsh": what the adapter reports
    Sub,            \* submission ids that clients of /send use
    MaxMessages,    \* bound on the messages written
    MaxExpired,     \* bound on those the history collection deletes
    MaxDaemons,     \* bound on daemon starts
    MaxWorkers      \* bound on workers opened

ASSUME DeliveryAssumption ==
    /\ Provider \in {"codex", "claude", "dsh"}
    /\ MaxMessages \in Nat /\ MaxExpired \in Nat
    /\ MaxDaemons \in Nat /\ MaxWorkers \in Nat

Msg == 1..MaxMessages
NoMsg == 0

InFlight == {"dispatching", "submitted", "accepted"}
Settled == {"completed", "failed", "uncertain"}

VARIABLES
    last,       \* mesh: the id of the newest message
    gone,       \* mesh: messages the history collection has deleted
    intent,     \* mesh: native_user_submissions, the message of each submission
    read,       \* mesh: message_reads of the peer
    answered,   \* mesh, history: how often a turn's reply and ACK were committed
    binding,    \* mesh: whom the peer's binding names
    delivery,   \* state: the row of each message
    daemon,     \* the daemon's stage
    worker,     \* its worker for the peer
    adapter,    \* the status in the adapter's snapshot
    run,        \* the provider's turn on each message
    sent,       \* history: how often each message was handed to the provider
    used        \* daemons and workers started so far

vars == <<last, gone, intent, read, answered, binding, delivery,
          daemon, worker, adapter, run, sent, used>>
mesh == <<last, gone, intent, read>>

Row(state, origin, id) == [state |-> state, origin |-> origin, id |-> id]
NoRow == Row("none", "peer", 0)

Worker(phase, active, dispatch, quarantined, seen) ==
    [ phase |-> phase, active |-> active, dispatch |-> dispatch,
      quarantined |-> quarantined, seen |-> seen ]
NoWorker == Worker("none", NoMsg, NoMsg, FALSE, 0)

Init ==
    /\ last = 0 /\ gone = {} /\ read = {}
    /\ intent = [s \in Sub |-> NoMsg]
    /\ answered = [m \in Msg |-> 0]
    /\ binding = "none"
    /\ delivery = [m \in Msg |-> NoRow]
    /\ daemon = "down"
    /\ worker = NoWorker
    /\ adapter = "ready"
    /\ run = [m \in Msg |-> "none"]
    /\ sent = [m \in Msg |-> 0]
    /\ used = [daemons |-> 0, workers |-> 0]

-----------------------------------------------------------------------------
(* Rows of the deliveries table.                                           *)

Inbox == (1..last) \ gone
Rows == { m \in Msg : delivery[m].state # "none" }

\* A message with an intent was submitted by the user, any other by a peer.
Origin(m) == IF \E s \in Sub : intent[s] = m THEN "user" ELSE "peer"

\* Faulty variant of Ingested: the intent is not looked up.
IngestedAsPeer(new) ==
    [ m \in Msg |->
        IF m \in new \ Rows
        THEN Row("queued", "peer",
                 Cardinality(Rows) + Cardinality({ k \in new \ Rows : k <= m }))
        ELSE delivery[m] ]

\* Faulty variant of Ingested: a row that is there is queued again.
IngestedAgain(new) ==
    [ m \in Msg |->
        IF m \in new
        THEN Row("queued", Origin(m),
                 Cardinality(Rows) + Cardinality({ k \in new : k <= m }))
        ELSE delivery[m] ]

\* ingest(): INSERT OR IGNORE of a queued row for each message, in order.
Ingested(new) ==
    [ m \in Msg |->
        IF m \in new \ Rows
        THEN Row("queued", Origin(m),
                 Cardinality(Rows) + Cardinality({ k \in new \ Rows : k <= m }))
        ELSE delivery[m] ]

\* updateDelivery(): whatever the row said before.
Update(table, m, state) ==
    [ k \in Msg |-> IF k = m THEN Row(state, table[k].origin, table[k].id)
                    ELSE table[k] ]

\* closeWorker() on the message it finds active.
GivenUp(table) ==
    IF worker.active = NoMsg THEN table ELSE Update(table, worker.active, "uncertain")

\* store.pending(): the oldest queued row.
Pending(table, m) ==
    /\ table[m].state = "queued"
    /\ \A k \in Msg : table[k].state = "queued" => table[m].id <= table[k].id

-----------------------------------------------------------------------------
(* Messages and what other programs do to mesh.db.                         *)

PeerSends ==
    /\ last < MaxMessages
    /\ last' = last + 1
    /\ UNCHANGED <<gone, intent, read, answered, binding, delivery,
                   daemon, worker, adapter, run, sent, used>>

\* The peer's own tools may acknowledge a message first.
Acknowledge(m) ==
    /\ m \in Inbox
    /\ read' = read \cup {m}
    /\ UNCHANGED <<last, gone, intent, answered, binding, delivery,
                   daemon, worker, adapter, run, sent, used>>

\* gc deletes messages by age alone, their acknowledgements with them.
Expire(m) ==
    /\ m \in Inbox
    /\ Cardinality(gone) < MaxExpired
    /\ gone' = gone \cup {m}
    /\ read' = read \ {m}
    /\ UNCHANGED <<last, intent, answered, binding, delivery,
                   daemon, worker, adapter, run, sent, used>>

\* Another transport takes the peer's name, or gives it up again.
Rebind ==
    /\ \/ binding \in {"none", "native"} /\ binding' = "other"
       \/ binding = "other" /\ binding' = "none"
    /\ UNCHANGED <<mesh, answered, delivery, daemon, worker, adapter, run, sent, used>>

\* POST /send.  The message and its intent commit together; the row follows
\* in the other database, or is left to a retry or to ingest (torn).  A
\* submission that has its row already gets the same receipt again, one whose
\* message is gone is refused: neither changes anything.
Submit(s, torn) ==
    /\ daemon = "up"
    /\ worker.phase = "open" /\ ~worker.quarantined
    /\ binding = "native"
    /\ \/ /\ intent[s] = NoMsg
          /\ last < MaxMessages
          /\ last' = last + 1
          /\ intent' = [intent EXCEPT ![s] = last']
          /\ delivery' = [ m \in Msg |->
               IF m = last' /\ ~torn THEN Row("queued", "user", Cardinality(Rows) + 1)
               ELSE delivery[m] ]
       \/ /\ intent[s] \in Inbox \ Rows
          /\ ~torn
          /\ delivery' = [ m \in Msg |->
               IF m = intent[s] THEN Row("queued", "user", Cardinality(Rows) + 1)
               ELSE delivery[m] ]
          /\ UNCHANGED <<last, intent>>
    /\ UNCHANGED <<gone, read, answered, binding, daemon, worker, adapter, run, sent, used>>

-----------------------------------------------------------------------------
(* Daemons and workers.                                                    *)

Over == [ m \in Msg |-> IF run[m] = "running" THEN "over" ELSE run[m] ]

\* Faulty variant of Start: what was left in flight is queued again.
StartRequeues ==
    /\ daemon = "down"
    /\ used.daemons < MaxDaemons
    /\ daemon' = "up"
    /\ used' = [daemons |-> used.daemons + 1, workers |-> used.workers]
    /\ delivery' = [ m \in Msg |->
         IF delivery[m].state \in InFlight
         THEN Row("queued", delivery[m].origin, delivery[m].id) ELSE delivery[m] ]
    /\ UNCHANGED <<mesh, answered, binding, worker, adapter, run, sent>>

\* disconnected(): what an earlier daemon left in flight is uncertain.
Start ==
    /\ daemon = "down"
    /\ used.daemons < MaxDaemons
    /\ daemon' = "up"
    /\ used' = [daemons |-> used.daemons + 1, workers |-> used.workers]
    /\ delivery' = [ m \in Msg |->
         IF delivery[m].state \in InFlight
         THEN Row("uncertain", delivery[m].origin, delivery[m].id) ELSE delivery[m] ]
    /\ UNCHANGED <<mesh, answered, binding, worker, adapter, run, sent>>

\* createWorker() up to its first await: the name is reserved and the unread
\* inbox queued.
Open ==
    /\ daemon = "up"
    /\ worker.phase = "none"
    /\ used.workers < MaxWorkers
    /\ used' = [daemons |-> used.daemons, workers |-> used.workers + 1]
    /\ binding # "other"
    /\ binding' = "native"
    /\ worker' = Worker("opening", NoMsg, NoMsg, FALSE, last)
    /\ delivery' = Ingested(Inbox \ read)
    /\ UNCHANGED <<mesh, answered, daemon, adapter, run, sent>>

\* The adapter has opened its session ...
Opened ==
    /\ daemon = "up"
    /\ worker.phase = "opening"
    /\ binding = "native"
    /\ worker' = Worker("open", NoMsg, NoMsg, FALSE, worker.seen)
    /\ adapter' = "ready"
    /\ UNCHANGED <<mesh, answered, binding, delivery, daemon, run, sent, used>>

\* ... or failed to, and was closed again.
OpenFails ==
    /\ worker.phase = "opening"
    /\ worker' = NoWorker
    /\ UNCHANGED <<mesh, answered, binding, delivery, daemon, adapter, run, sent, used>>

\* Faulty variant of Closing: the active message is kept.
ClosingActive ==
    Worker("closing", worker.active, worker.dispatch, worker.quarantined, worker.seen)

Closing == Worker("closing", NoMsg, worker.dispatch, worker.quarantined, worker.seen)

\* closeWorker() up to its await; the adapter's events are ignored from here.
BeginClose ==
    /\ daemon = "up"
    /\ worker.phase \in {"opening", "open"}
    /\ worker' = Closing
    /\ delivery' = GivenUp(delivery)
    /\ UNCHANGED <<mesh, answered, binding, daemon, adapter, run, sent, used>>

\* The provider's process has ended, and a pending send() with it.
CloseDone ==
    /\ worker.phase = "closing"
    /\ worker.dispatch = NoMsg
    /\ worker' = NoWorker
    /\ run' = Over
    /\ UNCHANGED <<mesh, answered, binding, delivery, daemon, adapter, sent, used>>

\* shutdown() closes every worker and releases the store when all are closed.
Shutdown ==
    /\ daemon = "up"
    /\ daemon' = "stopping"
    /\ worker' = IF worker.phase \in {"opening", "open"} THEN Closing ELSE worker
    /\ delivery' = GivenUp(delivery)
    /\ UNCHANGED <<mesh, answered, binding, adapter, run, sent, used>>

ReleaseStore ==
    /\ daemon = "stopping"
    /\ worker.phase = "none"
    /\ daemon' = "down"
    /\ UNCHANGED <<mesh, answered, binding, delivery, worker, adapter, run, sent, used>>

\* The daemon is killed, and with it the processes of its adapters.
Crash ==
    /\ daemon # "down"
    /\ daemon' = "down"
    /\ worker' = NoWorker
    /\ run' = Over
    /\ UNCHANGED <<mesh, answered, binding, delivery, adapter, sent, used>>

-----------------------------------------------------------------------------
(* Dispatching.                                                            *)

New == { m \in Inbox : m > worker.seen }

\* Faulty variant of MayDispatch: quarantine is not asked for.
MayDispatchQuarantined ==
    /\ worker.active = NoMsg /\ worker.dispatch = NoMsg
    /\ adapter = "ready"

\* One message at a time, and none to a worker that needs inspection.  The
\* status "ready" stands for idle, ready and completed.
MayDispatch ==
    /\ worker.active = NoMsg /\ worker.dispatch = NoMsg
    /\ ~worker.quarantined
    /\ adapter = "ready"

\* A worker the poll timer gets to.
Polled == daemon = "up" /\ worker.phase = "open" /\ binding = "native"

Seen == Worker("open", worker.active, worker.dispatch, worker.quarantined, last)

\* poll() when there is nothing to dispatch: new messages are queued.
PollIngests ==
    /\ Polled
    /\ ~(MayDispatch /\ \E m \in Msg : Ingested(New)[m].state = "queued")
    /\ delivery' = Ingested(New)
    /\ worker' = Seen
    /\ UNCHANGED <<mesh, answered, binding, daemon, adapter, run, sent, used>>

\* Faulty variant of PollMissing: the row is passed over.
PollMissingSkips(m) ==
    /\ Polled
    /\ MayDispatch
    /\ Pending(Ingested(New), m)
    /\ m \in gone
    /\ delivery' = Ingested(New)
    /\ worker' = Seen
    /\ UNCHANGED <<mesh, answered, binding, daemon, adapter, run, sent, used>>

\* poll() on a row whose message has been deleted.
PollMissing(m) ==
    /\ Polled
    /\ MayDispatch
    /\ Pending(Ingested(New), m)
    /\ m \in gone
    /\ delivery' = Update(Ingested(New), m, "failed")
    /\ worker' = Seen
    /\ UNCHANGED <<mesh, answered, binding, daemon, adapter, run, sent, used>>

\* poll() hands the oldest row to the adapter.
PollDispatches(m) ==
    /\ Polled
    /\ MayDispatch
    /\ Pending(Ingested(New), m)
    /\ m \notin gone
    /\ delivery' = Update(Ingested(New), m, "dispatching")
    /\ worker' = Worker("open", m, m, FALSE, last)
    /\ adapter' = "busy"
    /\ run' = [run EXCEPT ![m] = "running"]
    /\ sent' = [sent EXCEPT ![m] = @ + 1]
    /\ UNCHANGED <<mesh, answered, binding, daemon, used>>

\* poll() marks the oldest row, but nothing reaches the provider.
NotHandedOver(m, mark) ==
    /\ Polled
    /\ MayDispatch
    /\ Pending(Ingested(New), m)
    /\ m \notin gone
    /\ delivery' = Update(Ingested(New), m, mark)
    /\ worker' = Worker("open", NoMsg, NoMsg, TRUE, last)

\* The worker's directory is found replaced, before or right after the row is
\* marked: the adapter is not called and the row keeps its mark.
DirectoryChanged ==
    /\ daemon = "up" /\ worker.phase = "open"
    /\ \/ /\ worker' = Worker("open", worker.active, worker.dispatch, TRUE, worker.seen)
          /\ UNCHANGED delivery
       \/ \E m \in Msg : NotHandedOver(m, "dispatching")
    /\ UNCHANGED <<mesh, answered, binding, daemon, adapter, run, sent, used>>

\* dispatch() fails before the adapter writes anything: its session has ended,
\* say, or another turn is still active in it.
SendRefused ==
    /\ \E m \in Msg : NotHandedOver(m, "failed")
    /\ UNCHANGED <<mesh, answered, binding, daemon, adapter, run, sent, used>>

\* dispatch() when send() returns: the receipt counts only if the message is
\* still the active one.
SendReturns(m) ==
    /\ worker.dispatch = m
    /\ worker' = Worker(worker.phase, worker.active, NoMsg, worker.quarantined, worker.seen)
    /\ delivery' = IF worker.active # m THEN delivery
                   ELSE Update(delivery, m,
                          IF Provider = "codex" \/ delivery[m].state = "accepted"
                          THEN "accepted" ELSE "submitted")
    /\ UNCHANGED <<mesh, answered, binding, daemon, adapter, run, sent, used>>

\* dispatch() when send() throws, for a refusal of the provider or a lost
\* answer.  The adapters of Codex and Claude report an error event first, and
\* that already makes the active message uncertain; dsh's send() returns before
\* anything is written.
SendFails(m, kind) ==
    /\ worker.dispatch = m
    /\ Provider # "dsh"
    /\ kind = "refused" => run[m] = "running"
    /\ worker' = Worker(worker.phase,
                        IF worker.active = m THEN NoMsg ELSE worker.active,
                        NoMsg, TRUE, worker.seen)
    /\ delivery' =
         IF delivery[m].state \in {"completed", "failed"} THEN delivery
         ELSE Update(delivery, m,
                IF kind = "lost" \/ delivery[m].state = "uncertain" \/ worker.active = m
                THEN "uncertain" ELSE "failed")
    /\ run' = [run EXCEPT ![m] = IF kind = "refused" THEN "over" ELSE @]
    /\ UNCHANGED <<mesh, answered, binding, daemon, adapter, sent, used>>

-----------------------------------------------------------------------------
(* What the adapter reports: record(), ignored once the worker closes.     *)

Recorded == daemon = "up" /\ worker.phase = "open" /\ binding = "native"

Free == Worker("open", NoMsg, worker.dispatch, worker.quarantined, worker.seen)
Stopped == Worker("closing", NoMsg, worker.dispatch, TRUE, worker.seen)

\* Output of the active message's turn.
Output(m) ==
    /\ Recorded
    /\ run[m] = "running"
    /\ worker.active = m
    /\ delivery' = Update(delivery, m, "accepted")
    /\ UNCHANGED <<mesh, answered, binding, daemon, worker, adapter, run, sent, used>>

AfterTurn(outcome) ==
    IF Provider # "claude" \/ outcome = "completed" THEN "ready"
    ELSE IF outcome = "failed" THEN "error"
    ELSE "interrupted"

\* What a turn's end leaves in mesh.db.  The acknowledgement of a message that
\* has been deleted is refused, and with it the whole event.
Answer(m, outcome) ==
    IF outcome = "completed"
    THEN /\ m \in Inbox
         /\ answered' = [answered EXCEPT ![m] = @ + 1]
         /\ read' = read \cup {m}
    ELSE UNCHANGED <<answered, read>>

\* The turn of the active message ends.
Completed(m, outcome) ==
    /\ Recorded
    /\ run[m] = "running"
    /\ worker.active = m
    /\ Answer(m, outcome)
    /\ delivery' = Update(delivery, m, IF outcome = "completed" THEN "completed" ELSE "failed")
    /\ worker' = Free
    /\ run' = [run EXCEPT ![m] = "over"]
    /\ adapter' = AfterTurn(outcome)
    /\ UNCHANGED <<last, gone, intent, binding, daemon, sent, used>>

\* Faulty variant of CompletedTorn: what was not saved is queued again.
CompletedTornRequeues(m, outcome, killed) ==
    /\ Recorded
    /\ run[m] = "running"
    /\ worker.active = m
    /\ Answer(m, outcome)
    /\ worker' = IF killed THEN NoWorker ELSE Stopped
    /\ daemon' = IF killed THEN "down" ELSE daemon
    /\ run' = IF killed THEN Over ELSE [run EXCEPT ![m] = "over"]
    /\ adapter' = AfterTurn(outcome)
    /\ delivery' = IF killed THEN delivery ELSE Update(delivery, m, "queued")
    /\ UNCHANGED <<last, gone, intent, binding, sent, used>>

\* The same, but state.db is not committed: the daemon is killed, or saving
\* the worker fails (its binding or session was taken meanwhile).
CompletedTorn(m, outcome, killed) ==
    /\ Recorded
    /\ run[m] = "running"
    /\ worker.active = m
    /\ Answer(m, outcome)
    /\ worker' = IF killed THEN NoWorker ELSE Stopped
    /\ daemon' = IF killed THEN "down" ELSE daemon
    /\ run' = IF killed THEN Over ELSE [run EXCEPT ![m] = "over"]
    /\ adapter' = AfterTurn(outcome)
    /\ UNCHANGED <<last, gone, intent, binding, delivery, sent, used>>

\* The turn of a message that was given up ends.
EndsUnnoticed(m, outcome) ==
    /\ Recorded
    /\ run[m] = "running"
    /\ worker.active # m
    /\ run' = [run EXCEPT ![m] = "over"]
    /\ adapter' = AfterTurn(outcome)
    /\ UNCHANGED <<mesh, answered, binding, delivery, daemon, worker, sent, used>>

\* An error that the provider does not retry, about the active message or
\* about none in particular; saving the worker may fail afterwards (torn).
Error(torn) ==
    /\ Recorded
    /\ worker.active # NoMsg
    /\ delivery' = IF torn THEN delivery ELSE Update(delivery, worker.active, "uncertain")
    /\ worker' = IF torn THEN Stopped
                 ELSE Worker("open", NoMsg, worker.dispatch, TRUE, worker.seen)
    /\ adapter' \in {adapter, "ready", "error"}
    /\ UNCHANGED <<mesh, answered, binding, daemon, run, sent, used>>

\* Recording an event, or polling, finds the binding or the session taken and
\* leaves the worker to be closed.
HandlerFails ==
    /\ daemon = "up" /\ worker.phase = "open"
    /\ worker' = Stopped
    /\ delivery' = GivenUp(delivery)
    /\ UNCHANGED <<mesh, answered, binding, daemon, adapter, run, sent, used>>

-----------------------------------------------------------------------------

Outcomes == {"completed", "failed", "interrupted"}

Settles(m) == SendReturns(m) \/ \E kind \in {"refused", "lost"} : SendFails(m, kind)

TurnEnds(m) ==
    \E outcome \in Outcomes : Completed(m, outcome) \/ EndsUnnoticed(m, outcome)

Polls == PollIngests \/ \E m \in Msg : PollMissing(m) \/ PollDispatches(m)

Next ==
    \/ PeerSends \/ Rebind
    \/ \E m \in Msg : Acknowledge(m) \/ Expire(m)
    \/ \E s \in Sub, torn \in BOOLEAN : Submit(s, torn)
    \/ Start \/ Open \/ Opened \/ OpenFails
    \/ BeginClose \/ CloseDone \/ Shutdown \/ ReleaseStore \/ Crash
    \/ Polls \/ DirectoryChanged \/ SendRefused
    \/ \E m \in Msg : Settles(m) \/ Output(m) \/ TurnEnds(m)
    \/ \E m \in Msg, outcome \in Outcomes, killed \in BOOLEAN : CompletedTorn(m, outcome, killed)
    \/ \E torn \in BOOLEAN : Error(torn)
    \/ HandlerFails

Spec == Init /\ [][Next]_vars

\* The poll timer keeps running, requests to a provider are answered or time
\* out, and a provider finishes the turns it has begun.
Fairness ==
    /\ WF_vars(Polls)
    /\ WF_vars(\E m \in Msg : Settles(m))
    /\ WF_vars(\E m \in Msg : TurnEnds(m))

FairSpec == Spec /\ Fairness

-----------------------------------------------------------------------------
(* Properties.                                                             *)

DeliveryRow == [ state : {"none", "queued"} \cup InFlight \cup Settled,
                 origin : {"peer", "user"}, id : Nat ]

\* The variables have their types; only an open worker has an active message.
TypeOK ==
    /\ last \in 0..MaxMessages /\ gone \subseteq Msg /\ read \subseteq Msg
    /\ intent \in [Sub -> Msg \cup {NoMsg}]
    /\ answered \in [Msg -> Nat]
    /\ binding \in {"none", "native", "other"}
    /\ delivery \in [Msg -> DeliveryRow]
    /\ daemon \in {"down", "up", "stopping"}
    /\ worker \in [ phase : {"none", "opening", "open", "closing"},
                    active : Msg \cup {NoMsg}, dispatch : Msg \cup {NoMsg},
                    quarantined : BOOLEAN, seen : Nat ]
    /\ worker.active # NoMsg => worker.phase = "open"
    /\ adapter \in {"ready", "busy", "interrupted", "error"}
    /\ run \in [Msg -> {"none", "running", "over"}]
    /\ sent \in [Msg -> Nat]
    /\ used \in [daemons : Nat, workers : Nat]

\* No message is handed to the provider twice, however often it is submitted
\* again, ingested again, or the worker or the daemon restarted ("automatic
\* retry could duplicate work": INSERT OR IGNORE, disconnected(), record()).
AtMostOneSend == \A m \in Msg : sent[m] <= 1

\* The provider never works on two messages of a worker at once, also when the
\* first was given up although its turn goes on (worker.active and
\* worker.dispatch in poll(), quarantine in record()).
OneTurnAtATime ==
    \A m, n \in Msg : run[m] = "running" /\ run[n] = "running" => m = n

\* A turn is answered at most once, its row never says completed without the
\* answer, and once it is answered the row is never queued or failed again:
\* the two databases may disagree only as far as in flight or uncertain.
ReplyMatchesReceipt ==
    \A m \in Msg :
        /\ answered[m] <= 1
        /\ delivery[m].state = "completed" => answered[m] = 1
        /\ answered[m] = 1 => delivery[m].state \in InFlight \cup {"completed", "uncertain"}

\* The row of a message is the user's exactly if the message came through the
\* authenticated /send, also when the row was left to a retry or to ingest.
UserAuthority ==
    \A m \in Rows : delivery[m].origin = "user" <=> \E s \in Sub : intent[s] = m

\* What is settled stays as it is, whatever the provider, a late receipt, a
\* close or a restart say afterwards (updateDelivery() itself does not ask).
SettledIsFinal ==
    [][ \A m \in Msg : delivery[m].state \in Settled => delivery'[m] = delivery[m] ]_vars

\* All of a message's life together: workers, daemons and databases behave, as
\* seen from the sender, like a receipt that moves one way (updateDelivery(),
\* disconnected(), record()).
Promise == INSTANCE DeliveryPromise WITH
    Message <- Msg,
    receipt <- [ m \in Msg |-> IF delivery[m].state \in InFlight THEN "working"
                               ELSE delivery[m].state ],
    handed <- sent,
    replies <- answered

KeepsPromise == Promise!Spec

\* A worker whose peer is shown idle or working, rather than blocked or gone.
Healthy ==
    /\ daemon = "up" /\ binding = "native"
    /\ worker.phase = "open" /\ ~worker.quarantined
    /\ adapter # "error"

\* A queued message of a healthy worker is dispatched (or its worker does not
\* stay healthy): "queued" is "waiting for dispatch" (poll()).
QueuedIsDispatched ==
    \A m \in Msg :
        (delivery[m].state = "queued" /\ Healthy)
            ~> ~(delivery[m].state = "queued" /\ Healthy)

=============================================================================
