-------------------------------- MODULE AppMail --------------------------------
(***************************************************************************)
(* Mail for one session of the Codex App: the dispatcher that tells the    *)
(* session of its unread messages (lib/integrations/codex-app-delivery.mjs)*)
(* through the App's own queue, the session that reads and acknowledges    *)
(* them (codex-app-cooperation.mjs), and the history collection that       *)
(* deletes old messages meanwhile (core/coordination/gc-plan.mjs).         *)
(*                                                                         *)
(* The dispatcher keeps a record of each notice in the project's database. *)
(* It saves that it will submit one, submits it to a command of the App it *)
(* cannot take back, and saves the answer; it may die in between, and a    *)
(* later dispatcher finds what it left.  Enrolment of the session may end  *)
(* and begin anew at any time.                                             *)
(*                                                                         *)
(* A message is its id; replies, whose text the session writes, and the    *)
(* manager that restarts dispatchers are left out.                         *)
(***************************************************************************)
EXTENDS Integers, FiniteSets

CONSTANTS
    MaxMail,            \* bound on messages to the session
    MaxDispatchers,     \* bound on dispatchers started
    MaxEnrolments,      \* bound on enrolments of the session
    MaxCollections,     \* bound on collections of history
    Batch               \* messages deleted in one transaction

ASSUME MailAssumption ==
    /\ MaxMail \in Nat /\ MaxDispatchers \in Nat /\ MaxCollections \in Nat
    /\ MaxEnrolments \in Nat \ {0} /\ Batch \in Nat \ {0}

Mail == 1..MaxMail
Dispatcher == 1..MaxDispatchers
NoMail == 0
NoDispatcher == 0

VARIABLES
    newest,     \* the id of the newest message; ids are not reused
    collected,  \* messages deleted as history
    aged,       \* messages older than the retention
    acked,      \* message_reads of the session
    record,     \* the dispatch record of each message
    lease,      \* whom codex-app.dispatch.owner names
    dispatcher, \* what each dispatcher does, for which message and enrolment
    submitted,  \* history: how often the App was handed a notice of each message
    enrolment,  \* the enrolment that is valid, 0 when there is none
    enrolments, \* enrolments so far
    gc,         \* the history collection that is going on
    collections \* collections so far

table == <<newest, collected, acked>>
session == <<aged, submitted, enrolment, enrolments>>
history == <<gc, collections>>
mailVars == <<table, record, lease, dispatcher, session, history>>

Notice(status, owner) == [status |-> status, owner |-> owner]
NoNotice == Notice("none", NoDispatcher)
Blocking == {"dispatching", "queued", "uncertain"}

Doing(step, mail, under) == [step |-> step, mail |-> mail, under |-> under]

\* The ids found eligible at first, how far the batches have come, and the
\* rows of the batch that is planned with their message_reads.
Collection(step, snapshot, after, rows, reads) ==
    [step |-> step, snapshot |-> snapshot, after |-> after, rows |-> rows, reads |-> reads]
NoCollection == Collection("none", {}, 0, {}, {})

MailInit ==
    /\ newest = 0 /\ collected = {} /\ aged = {} /\ acked = {}
    /\ record = [m \in Mail |-> NoNotice]
    /\ lease = NoDispatcher
    /\ dispatcher = [d \in Dispatcher |-> Doing("none", NoMail, 0)]
    /\ submitted = [m \in Mail |-> 0]
    /\ enrolment = 1 /\ enrolments = 1
    /\ gc = NoCollection /\ collections = 0

Present == (1..newest) \ collected
Task(d) == dispatcher[d].step
Exited(d) == ~(d \in Dispatcher /\ Task(d) # "dead")

Does(d, step, m) ==
    dispatcher' = [dispatcher EXCEPT ![d] = Doing(step, m, dispatcher[d].under)]

\* assertOwnership: the session is enrolled as it was when d began.
Authorized(d) == enrolment # 0 /\ dispatcher[d].under = enrolment

\* owned(): and no other dispatcher has taken over.
Owned(d) == Authorized(d) /\ lease = d

-----------------------------------------------------------------------------
(* createCodexAppDelivery                                                  *)

\* Faulty variant of AfterRestart: what the last one left is tried again.
AfterRestartAgain(notices) ==
    [m \in Mail |-> IF notices[m].status = "dispatching" THEN NoNotice ELSE notices[m]]

\* An intent without an answer: nobody can tell whether the App has it.
AfterRestart(notices) ==
    [m \in Mail |-> IF notices[m].status = "dispatching"
                    THEN Notice("uncertain", notices[m].owner) ELSE notices[m]]

\* The lease passes on only from a process known to have exited.
ClaimLease(d) ==
    /\ Task(d) = "none" /\ \A e \in 1..(d - 1) : Task(e) # "none"
    /\ enrolment # 0
    /\ Exited(lease)
    /\ lease' = d
    /\ record' = AfterRestart(record)
    /\ dispatcher' = [dispatcher EXCEPT ![d] = Doing("idle", NoMail, enrolment)]
    /\ UNCHANGED <<table, session, history>>

\* runTick awaits transport.assertValid() first.
BeginTick(d) ==
    /\ Task(d) = "idle"
    /\ Does(d, "validating", NoMail)
    /\ UNCHANGED <<table, record, lease, session, history>>

\* The App is not there, the dispatcher is closing, or no longer the owner.
AbandonTick(d) ==
    /\ Task(d) = "validating"
    /\ Does(d, "idle", NoMail)
    /\ UNCHANGED <<table, record, lease, session, history>>

\* Acknowledgements are noted before anything else.
Noted(notices) ==
    [m \in Mail |-> IF m \in acked /\ notices[m].status \in Blocking
                    THEN Notice("acknowledged", notices[m].owner) ELSE notices[m]]

\* Faulty variant of Blocked: a notice whose fate is unknown does not count.
BlockedUnlessUncertain ==
    \E m \in Mail \ acked : record[m].status \in {"queued", "dispatching"}

\* A notice that was not acknowledged holds back the rest.
Blocked == \E m \in Mail \ acked : record[m].status \in Blocking

Unannounced == { m \in Present \ acked : record[m] = NoNotice }
Least(ids) == CHOOSE m \in ids : \A k \in ids : m <= k

Select(d) ==
    /\ Task(d) = "validating" /\ Owned(d)
    /\ IF Blocked \/ Unannounced = {}
       THEN record' = Noted(record) /\ Does(d, "idle", NoMail)
       ELSE LET m == Least(Unannounced) IN
            /\ record' = [Noted(record) EXCEPT ![m] = Notice("dispatching", d)]
            /\ Does(d, "submitting", m)
    /\ UNCHANGED <<table, lease, session, history>>

\* The App's queue command: it may fail or time out, and have queued it still.
Submit(d) ==
    LET m == dispatcher[d].mail IN
    /\ Task(d) = "submitting"
    /\ \/ /\ submitted' = [submitted EXCEPT ![m] = @ + 1]
          /\ Does(d, "queued", m) \/ Does(d, "uncertain", m)
       \/ UNCHANGED submitted /\ Does(d, "uncertain", m)
    /\ UNCHANGED <<table, record, lease, aged, enrolment, enrolments, history>>

\* The answer is saved over the intent it belongs to, or not at all.
SaveAnswer(d) ==
    LET m == dispatcher[d].mail IN
    /\ Task(d) \in {"queued", "uncertain"}
    /\ record' = IF Owned(d) /\ record[m] = Notice("dispatching", d)
                 THEN [record EXCEPT ![m] = Notice(Task(d), d)] ELSE record
    /\ Does(d, "idle", NoMail)
    /\ UNCHANGED <<table, lease, session, history>>

\* close() waits for the tick; the process ends after it.
Close(d) ==
    /\ Task(d) = "idle"
    /\ lease' = IF Owned(d) THEN NoDispatcher ELSE lease
    /\ Does(d, "dead", NoMail)
    /\ UNCHANGED <<table, record, session, history>>

DispatcherDies(d) ==
    /\ Task(d) \notin {"none", "dead"}
    /\ Does(d, "dead", NoMail)
    /\ UNCHANGED <<table, record, lease, session, history>>

-----------------------------------------------------------------------------
(* The session, its peers, and time                                        *)

Arrive ==
    /\ newest < MaxMail
    /\ newest' = newest + 1
    /\ UNCHANGED <<collected, acked, record, lease, dispatcher, session, history>>

\* getMessage: the message must still be there.
Readable == Present \ acked

\* hcc_message_ack and hcc_message_reply
Acknowledge(m) ==
    /\ enrolment # 0
    /\ m \in Readable
    /\ acked' = acked \cup {m}
    /\ UNCHANGED <<newest, collected, record, lease, dispatcher, session, history>>

Disable ==
    /\ enrolment # 0
    /\ enrolment' = 0
    /\ UNCHANGED <<table, record, lease, dispatcher, aged, submitted, enrolments, history>>

\* enable() and issueSession(): a new epoch, hence another owner's name.
Enroll ==
    /\ enrolment = 0 /\ enrolments < MaxEnrolments
    /\ enrolments' = enrolments + 1
    /\ enrolment' = enrolments + 1
    /\ UNCHANGED <<table, record, lease, dispatcher, aged, submitted, history>>

Age(m) ==
    /\ m \in Present \ aged
    /\ aged' = aged \cup {m}
    /\ UNCHANGED <<table, record, lease, dispatcher, submitted, enrolment, enrolments, history>>

-----------------------------------------------------------------------------
(* History collection: a snapshot, then a batch after the other.           *)

Snapshot ==
    /\ gc.step = "none" /\ collections < MaxCollections
    /\ collections' = collections + 1
    /\ gc' = Collection("planning", Present \cap aged, 0, {}, {})
    /\ UNCHANGED <<table, record, lease, dispatcher, session>>

\* captureMessages: the next ids of the snapshot that are still there.
Left == { m \in gc.snapshot \cap Present \cap aged : m > gc.after }
NextRows == { m \in Left : Cardinality({ k \in Left : k <= m }) <= Batch }
ReadsOf(rows) == acked \cap rows

Plan ==
    /\ gc.step = "planning"
    /\ gc' = IF NextRows = {} THEN NoCollection
             ELSE Collection("planned", gc.snapshot, gc.after, NextRows, ReadsOf(NextRows))
    /\ UNCHANGED <<table, record, lease, dispatcher, session, collections>>

\* Faulty variant of PlanHolds: the rows are compared, their reads are not.
PlanHoldsRowsOnly == NextRows = gc.rows

\* finalizeHistoryGcPlan: captured again, the plan must read the same.
PlanHolds == NextRows = gc.rows /\ ReadsOf(NextRows) = gc.reads

\* ON DELETE CASCADE takes the reads along.
Finalize ==
    /\ gc.step = "planned"
    /\ IF PlanHolds
       THEN /\ collected' = collected \cup gc.rows
            /\ acked' = acked \ gc.rows
            /\ gc' = Collection("planning", gc.snapshot,
                                CHOOSE m \in gc.rows : \A k \in gc.rows : m >= k, {}, {})
       ELSE UNCHANGED <<collected, acked>> /\ gc' = NoCollection
    /\ UNCHANGED <<newest, record, lease, dispatcher, session, collections>>

-----------------------------------------------------------------------------
DispatcherStep(d) ==
    \/ ClaimLease(d) \/ BeginTick(d) \/ AbandonTick(d) \/ Select(d)
    \/ Submit(d) \/ SaveAnswer(d) \/ Close(d) \/ DispatcherDies(d)

MailNext ==
    \/ \E d \in Dispatcher : DispatcherStep(d)
    \/ Arrive \/ Disable \/ Enroll
    \/ \E m \in Mail : Acknowledge(m) \/ Age(m)
    \/ Snapshot \/ Plan \/ Finalize

MailSpec == MailInit /\ [][MailNext]_mailVars

-----------------------------------------------------------------------------
(* Each variable has its type, and only a message that is there is marked  *)
(* read (message_reads references messages).                               *)
MailTypeOK ==
    /\ newest \in 0..MaxMail
    /\ collected \subseteq 1..newest /\ aged \subseteq 1..newest
    /\ acked \subseteq Present
    /\ record \in [Mail -> [status : Blocking \cup {"none", "acknowledged"},
                            owner : Dispatcher \cup {NoDispatcher}]]
    /\ lease \in Dispatcher \cup {NoDispatcher}
    /\ dispatcher \in [Dispatcher ->
         [step : {"none", "idle", "validating", "submitting", "queued", "uncertain", "dead"},
          mail : Mail \cup {NoMail}, under : 0..MaxEnrolments]]
    /\ submitted \in [Mail -> Nat]
    /\ enrolment \in 0..enrolments /\ enrolments \in 1..MaxEnrolments
    /\ gc \in [step : {"none", "planning", "planned"}, snapshot : SUBSET Mail,
               after : 0..MaxMail, rows : SUBSET Mail, reads : SUBSET Mail]
    /\ collections \in 0..MaxCollections

(* The session is told of a message at most once: not again by a           *)
(* dispatcher that follows one that died, lost its answer or its           *)
(* enrolment (submissions are retained without retry).                     *)
NoticeOnce == \A m \in Mail : submitted[m] <= 1

(* At most one notice waits to be acknowledged, whatever happened to the   *)
(* dispatchers before: a restart does not flood the session (runTick).     *)
OneOutstanding ==
    Cardinality({ m \in Mail \ acked : record[m].status \in Blocking }) <= 1

CollectsAsPlanned ==
    \A m \in collected' \ collected : m \in aged /\ (m \in acked <=> m \in gc.reads)

(* A collection deletes a message only as it planned to: if the session    *)
(* reads it meanwhile the batch is put off (finalizeHistoryGcPlan).        *)
CollectedAsPlanned == [][CollectsAsPlanned]_mailVars

(* A notice that holds back the rest can still be acknowledged: it waits   *)
(* for that and nothing else (runTick: a prior uncertain delivery blocks   *)
(* later submissions until explicitly acknowledged).                       *)
BlockingCanBeAcknowledged ==
    \A m \in Mail \ acked : record[m].status \in Blocking => m \in Present
=============================================================================
