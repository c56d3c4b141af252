------------------------------ MODULE MailProofs ------------------------------
(* Proofs about the mail of sessions that have an inbox of their own: AppMail,*)
(* for any number of messages, dispatchers, enrolments and collections, and  *)
(* DshInbox, for any number of messages, copies and reloads.                 *)
(*                                                                           *)
(* App: a record never becomes blank again, and is not blank when its message*)
(* is handed to the App (IntentFirst): so it is handed over once.  At most   *)
(* one record waits for an acknowledgement at all (OneOpen), read or not:    *)
(* what is acknowledged is noted in the transaction that opens the next.     *)
(*                                                                           *)
(* dsh: every step of a handler leaves a plugin whose receipts are of copies *)
(* that were committed as they were made (Honest).  A second invariant on    *)
(* the copies and the wake (InboxSound, InboxCalm) shows that a batch given  *)
(* up is not sent again by itself.                                           *)
EXTENDS AppMail, DshInbox, FiniteSetTheorems, TLAPS

-----------------------------------------------------------------------------
(* AppMail                                                                 *)

\* The message a dispatcher is busy with exists.
AtWork == \A d \in Dispatcher :
              Task(d) \in {"submitting", "queued", "uncertain"} => dispatcher[d].mail \in Mail

RowsPlanned == gc.step = "planned" => gc.rows # {}

OneOpen == \A m, k \in Mail :
              record[m].status \in Blocking /\ record[k].status \in Blocking => m = k

SentOnce == \A m \in Mail : submitted[m] <= 1 /\ (record[m] = NoNotice => submitted[m] = 0)

IntentFirst == \A d \in Dispatcher : Task(d) = "submitting" =>
                   /\ record[dispatcher[d].mail] # NoNotice
                   /\ submitted[dispatcher[d].mail] = 0

OneHand == \A d, e \in Dispatcher :
              (/\ Task(d) = "submitting" /\ Task(e) = "submitting"
               /\ dispatcher[d].mail = dispatcher[e].mail) => d = e

MailInv == MailTypeOK /\ AtWork /\ RowsPlanned /\ OneOpen /\ SentOnce /\ IntentFirst /\ OneHand

-----------------------------------------------------------------------------
(* Ids                                                                     *)

LEMMA LeastExists ==
  ASSUME NEW S \in SUBSET Nat, S # {}
  PROVE  \E m \in S : \A k \in S : m <= k
  <1> DEFINE R == OpToRel(<, Nat)
  <1>1. \A x, y \in Nat : x < y => <<x, y>> \in R
    BY DEF OpToRel
  <1>2. IsWellFoundedOn(R, Nat)
    BY NatLessThanWellFounded
  <1> HIDE DEF R
  <1>3. PICK x \in S : \A y \in S : ~(<<y, x>> \in R)
    BY <1>2, WFMin
  <1>4. x \in Nat /\ S \subseteq Nat
    OBVIOUS
  <1>5. \A y \in S : ~(y < x)
    BY <1>1, <1>3, <1>4
  <1>6. \A y \in S : x <= y
    BY <1>4, <1>5
  <1> QED
    BY <1>6

LEMMA GreatestExists ==
  ASSUME NEW N \in Nat, NEW S \in SUBSET (1..N), S # {}
  PROVE  \E m \in S : \A k \in S : m >= k
  <1> DEFINE T == {N - x : x \in S}
  <1>1. T \in SUBSET Nat /\ T # {}
    <2>1. \A x \in S : N - x \in Nat
      OBVIOUS
    <2>2. PICK x \in S : TRUE
      OBVIOUS
    <2>3. N - x \in T
      OBVIOUS
    <2> QED
      BY <2>1, <2>3
  <1>2. PICK t \in T : \A u \in T : t <= u
    <2> HIDE DEF T
    <2> QED
      BY <1>1, LeastExists
  <1>3. PICK m \in S : t = N - m
    OBVIOUS
  <1>4. \A k \in S : N - k \in T
    OBVIOUS
  <1>5. \A k \in S : N - m <= N - k
    <2> HIDE DEF T
    <2> QED
      BY <1>2, <1>3, <1>4
  <1> QED
    BY <1>5

Steps == {"none", "idle", "validating", "submitting", "queued", "uncertain", "dead"}
Works == [step : Steps, mail : Mail \cup {NoMail}, under : 0..MaxEnrolments]
Notices == [status : Blocking \cup {"none", "acknowledged"}, owner : Dispatcher \cup {NoDispatcher}]

LEMMA MailIsSomething == NoMail \notin Mail /\ Mail \subseteq Nat
  BY MailAssumption DEF Mail, NoMail

LEMMA PresentIsMail == MailTypeOK => Present \subseteq Mail /\ newest \in Nat
  BY MailAssumption DEF MailTypeOK, Present, Mail

\* What a dispatcher turns to changes nothing of the others.
LEMMA DoesMoves ==
  ASSUME MailTypeOK, NEW d \in Dispatcher, NEW s \in Steps, NEW m \in Mail \cup {NoMail},
         Does(d, s, m)
  PROVE  /\ dispatcher' \in [Dispatcher -> Works]
         /\ dispatcher'[d].step = s /\ dispatcher'[d].mail = m
         /\ \A e \in Dispatcher \ {d} : dispatcher'[e] = dispatcher[e]
  <1>1. dispatcher \in [Dispatcher -> Works]
    BY DEF MailTypeOK, Works, Steps
  <1>2. Doing(s, m, dispatcher[d].under) \in Works
    BY <1>1 DEF Doing, Works
  <1>3. dispatcher' = [dispatcher EXCEPT ![d] = Doing(s, m, dispatcher[d].under)]
    BY DEF Does
  <1>4. dispatcher'[d] = Doing(s, m, dispatcher[d].under)
    BY <1>1, <1>3
  <1> QED
    BY <1>1, <1>2, <1>3, <1>4 DEF Doing

LEMMA MailInvInit == MailInit => MailInv
  <1> SUFFICES ASSUME MailInit PROVE MailInv
    OBVIOUS
  <1>1. MailTypeOK
    <2>1. record \in [Mail -> [status : Blocking \cup {"none", "acknowledged"},
                              owner : Dispatcher \cup {NoDispatcher}]]
      BY DEF MailInit, NoNotice, Notice
    <2>2. dispatcher \in [Dispatcher -> [step : Steps, mail : Mail \cup {NoMail}, under : 0..MaxEnrolments]]
      BY MailAssumption DEF MailInit, Doing, Steps
    <2>3. gc \in [step : {"none", "planning", "planned"}, snapshot : SUBSET Mail,
                  after : 0..MaxMail, rows : SUBSET Mail, reads : SUBSET Mail]
      BY MailAssumption DEF MailInit, NoCollection, Collection
    <2>4. /\ newest = 0 /\ collected = {} /\ aged = {} /\ acked = {}
          /\ lease = NoDispatcher /\ submitted \in [Mail -> Nat]
          /\ enrolment = 1 /\ enrolments = 1 /\ collections = 0
      BY DEF MailInit
    <2> QED
      BY <2>1, <2>2, <2>3, <2>4, MailAssumption DEF MailTypeOK, Steps
  <1>2. \A m \in Mail : record[m].status \notin Blocking /\ submitted[m] = 0
    BY DEF MailInit, NoNotice, Notice, Blocking
  <1>3. \A d \in Dispatcher : dispatcher[d].step = "none"
    BY DEF MailInit, Doing
  <1>4. gc.step = "none"
    BY DEF MailInit, NoCollection, Collection
  <1>5. AtWork /\ IntentFirst /\ OneHand
    BY <1>3 DEF AtWork, IntentFirst, OneHand, Task
  <1>6. RowsPlanned /\ OneOpen /\ SentOnce
    BY <1>2, <1>4 DEF RowsPlanned, OneOpen, SentOnce
  <1> QED
    BY <1>1, <1>5, <1>6 DEF MailInv

-----------------------------------------------------------------------------
(* The records: what a step may do to them, whoever takes it.               *)

\* A record is a record, is never blank again, and one at most is open.
RecordsMove ==
    /\ record' \in [Mail -> Notices]
    /\ \A m \in Mail : record'[m] = NoNotice => record[m] = NoNotice
    /\ OneOpen'

LEMMA SameRecords == ASSUME MailInv, UNCHANGED record PROVE RecordsMove
  BY DEF MailInv, MailTypeOK, RecordsMove, Notices, OneOpen

\* Statuses may change as long as a record that was not open does not open.
LEMMA RecordsChange ==
  ASSUME MailInv, NEW r \in [Mail -> Notices], record' = r,
         \A m \in Mail : \/ r[m] = record[m]
                         \/ /\ r[m].status # "none"
                            /\ r[m].status \in Blocking => record[m].status \in Blocking
  PROVE  RecordsMove
  <1>1. \A m \in Mail : r[m] = NoNotice => record[m] = NoNotice
    BY DEF NoNotice, Notice
  <1>2. OneOpen'
    BY DEF MailInv, OneOpen
  <1> QED
    BY <1>1, <1>2 DEF RecordsMove

LEMMA NoticesAreNotices ==
  \A s \in Blocking \cup {"none", "acknowledged"}, o \in Dispatcher \cup {NoDispatcher} :
      Notice(s, o) \in Notices /\ Notice(s, o).status = s
  BY DEF Notice, Notices

LEMMA RestartMoves == ASSUME MailInv, record' = AfterRestart(record) PROVE RecordsMove
  <1>1. record \in [Mail -> Notices]
    BY DEF MailInv, MailTypeOK, Notices
  <1>2. AfterRestart(record) \in [Mail -> Notices]
    <2>1. \A m \in Mail : Notice("uncertain", record[m].owner) \in Notices
      BY <1>1, NoticesAreNotices DEF Notices, Blocking
    <2> QED
      BY <1>1, <2>1 DEF AfterRestart
  <1>3. \A m \in Mail : \/ AfterRestart(record)[m] = record[m]
                        \/ /\ AfterRestart(record)[m].status # "none"
                           /\ record[m].status \in Blocking
    BY DEF AfterRestart, Notice, Blocking
  <1> QED
    BY <1>2, <1>3, RecordsChange

LEMMA NotedIsNoted ==
  ASSUME MailInv
  PROVE  /\ Noted(record) \in [Mail -> Notices]
         /\ \A m \in Mail : \/ Noted(record)[m] = record[m]
                            \/ Noted(record)[m].status = "acknowledged"
         /\ \A m \in Mail : Noted(record)[m].status \in Blocking => m \notin acked
  <1>1. record \in [Mail -> Notices]
    BY DEF MailInv, MailTypeOK, Notices
  <1>2. \A m \in Mail : Notice("acknowledged", record[m].owner) \in Notices
    BY <1>1, NoticesAreNotices DEF Notices
  <1>3. \A m \in Mail : Noted(record)[m] = IF m \in acked /\ record[m].status \in Blocking
                                           THEN Notice("acknowledged", record[m].owner) ELSE record[m]
    BY DEF Noted
  <1>4. Noted(record) \in [Mail -> Notices]
    BY <1>1, <1>2 DEF Noted
  <1>5. ASSUME NEW m \in Mail, Noted(record)[m].status \in Blocking PROVE m \notin acked
    <2>1. Notice("acknowledged", record[m].owner).status \notin Blocking
      BY DEF Notice, Blocking
    <2> QED
      BY <1>3, <1>5, <2>1
  <1> QED
    BY <1>3, <1>4, <1>5 DEF Notice

LEMMA LeastIsUnannounced ==
  ASSUME MailInv, Unannounced # {}
  PROVE  Least(Unannounced) \in Unannounced /\ Least(Unannounced) \in Mail
  <1>1. Unannounced \in SUBSET Nat /\ Unannounced \subseteq Mail
    BY PresentIsMail, MailIsSomething DEF Unannounced, MailInv
  <1>2. \E m \in Unannounced : \A k \in Unannounced : m <= k
    BY <1>1, LeastExists
  <1> QED
    BY <1>1, <1>2 DEF Least

LEMMA SelectMoves == ASSUME MailInv, NEW d \in Dispatcher, Select(d) PROVE RecordsMove
  <1>1. CASE Blocked \/ Unannounced = {}
    <2>1. record' = Noted(record)
      BY <1>1 DEF Select
    <2> QED
      BY <2>1, NotedIsNoted, RecordsChange DEF Blocking
  <1>2. CASE ~(Blocked \/ Unannounced = {})
    <2> DEFINE m == Least(Unannounced)
    <2>1. m \in Mail /\ record' = [Noted(record) EXCEPT ![m] = Notice("dispatching", d)]
      BY <1>2, LeastIsUnannounced DEF Select
    <2> HIDE DEF m
    <2>2. Notice("dispatching", d) \in Notices /\ Notice("dispatching", d).status = "dispatching"
      BY NoticesAreNotices DEF Blocking
    <2>3. record' \in [Mail -> Notices]
      BY <2>1, <2>2, NotedIsNoted
    <2>4. \A k \in Mail : k # m => record'[k] = Noted(record)[k]
      BY <2>1, NotedIsNoted
    <2>5. record'[m].status = "dispatching"
      BY <2>1, <2>2, NotedIsNoted
    <2>6. \A k \in Mail : record'[k] = NoNotice => record[k] = NoNotice
      BY <2>4, <2>5, NotedIsNoted DEF NoNotice, Notice
    <2>7. \A k \in Mail : k # m => record'[k].status \notin Blocking
      BY <1>2, <2>4, NotedIsNoted DEF Blocked, Blocking
    <2> QED
      BY <2>3, <2>6, <2>7 DEF RecordsMove, OneOpen
  <1> QED
    BY <1>1, <1>2

LEMMA SaveMoves == ASSUME MailInv, NEW d \in Dispatcher, SaveAnswer(d) PROVE RecordsMove
  <1> DEFINE m == dispatcher[d].mail
  <1>1. m \in Mail /\ Task(d) \in {"queued", "uncertain"}
    BY DEF SaveAnswer, MailInv, AtWork
  <1>2. CASE Owned(d) /\ record[m] = Notice("dispatching", d)
    <2>1. record' = [record EXCEPT ![m] = Notice(Task(d), d)]
      BY <1>2 DEF SaveAnswer
    <2> HIDE DEF m
    <2>2. record \in [Mail -> Notices]
      BY DEF MailInv, MailTypeOK, Notices
    <2>3. Notice(Task(d), d) \in Notices /\ Notice(Task(d), d).status \in Blocking
      BY <1>1, NoticesAreNotices DEF Blocking
    <2>4. record[m].status \in Blocking
      BY <1>2, NoticesAreNotices DEF Blocking
    <2>5. record' \in [Mail -> Notices] /\ record'[m] = Notice(Task(d), d)
      BY <1>1, <2>1, <2>2, <2>3
    <2>6. \A k \in Mail : k # m => record'[k] = record[k]
      BY <2>1, <2>2
    <2> QED
      BY <2>3, <2>4, <2>5, <2>6, RecordsChange DEF Blocking
  <1>3. CASE ~(Owned(d) /\ record[m] = Notice("dispatching", d))
    BY <1>3, SameRecords DEF SaveAnswer
  <1> QED
    BY <1>2, <1>3

LEMMA RecordsStep == ASSUME MailInv, MailNext PROVE RecordsMove
  <1>1. ASSUME NEW d \in Dispatcher, DispatcherStep(d) PROVE RecordsMove
    <2>1. CASE BeginTick(d) \/ AbandonTick(d) \/ Submit(d) \/ Close(d) \/ DispatcherDies(d)
      BY <2>1, SameRecords DEF BeginTick, AbandonTick, Submit, Close, DispatcherDies
    <2> QED
      BY <1>1, <2>1, RestartMoves, SelectMoves, SaveMoves DEF DispatcherStep, ClaimLease
  <1>2. CASE UNCHANGED record
    BY <1>2, SameRecords
  <1> QED
    BY <1>1, <1>2 DEF MailNext, Arrive, Disable, Enroll, Acknowledge, Age, Snapshot, Plan, Finalize

-----------------------------------------------------------------------------
(* What the dispatchers do, and what the App is handed.                    *)

\* A dispatcher keeps, gives up or advances its message; the App is handed
\* that of a dispatcher that submits it.
WorkMoves(d) ==
    /\ dispatcher' \in [Dispatcher -> Works]
    /\ \A e \in Dispatcher \ {d} : dispatcher'[e] = dispatcher[e]
    /\ dispatcher'[d].step \in {"submitting", "queued", "uncertain"} => dispatcher'[d].mail \in Mail
    /\ dispatcher'[d].step = "submitting" =>
         /\ record[dispatcher'[d].mail] = NoNotice /\ record'[dispatcher'[d].mail] # NoNotice
         /\ UNCHANGED submitted
    /\ \/ UNCHANGED submitted
       \/ /\ dispatcher[d].step = "submitting"
          /\ submitted' = [submitted EXCEPT ![dispatcher[d].mail] = @ + 1]

LEMMA SubmitMoves == ASSUME MailInv, NEW d \in Dispatcher, Submit(d) PROVE WorkMoves(d)
  <1> DEFINE m == dispatcher[d].mail
  <1>1. m \in Mail /\ dispatcher[d].step = "submitting"
    BY DEF Submit, MailInv, AtWork, Task
  <1>2. PICK s \in {"queued", "uncertain"} : Does(d, s, m)
    BY DEF Submit
  <1>3. UNCHANGED submitted \/ submitted' = [submitted EXCEPT ![m] = @ + 1]
    BY DEF Submit
  <1>4. s \in Steps /\ s # "submitting"
    BY <1>2 DEF Steps
  <1>5. /\ dispatcher' \in [Dispatcher -> Works]
        /\ dispatcher'[d].step = s /\ dispatcher'[d].mail = m
        /\ \A e \in Dispatcher \ {d} : dispatcher'[e] = dispatcher[e]
    BY <1>1, <1>2, <1>4, DoesMoves DEF MailInv
  <1> QED
    BY <1>1, <1>3, <1>4, <1>5 DEF WorkMoves

LEMMA SelectWorks == ASSUME MailInv, NEW d \in Dispatcher, Select(d) PROVE WorkMoves(d)
  <1>1. UNCHANGED submitted
    BY DEF Select, session
  <1>2. CASE Blocked \/ Unannounced = {}
    <2>1. Does(d, "idle", NoMail)
      BY <1>2 DEF Select
    <2>2. /\ dispatcher' \in [Dispatcher -> Works] /\ dispatcher'[d].step = "idle"
          /\ \A e \in Dispatcher \ {d} : dispatcher'[e] = dispatcher[e]
      BY <2>1, DoesMoves DEF MailInv, Steps
    <2> QED
      BY <1>1, <2>2 DEF WorkMoves
  <1>3. CASE ~(Blocked \/ Unannounced = {})
    <2> DEFINE m == Least(Unannounced)
    <2>1. /\ m \in Mail /\ record[m] = NoNotice /\ Does(d, "submitting", m)
          /\ record' = [Noted(record) EXCEPT ![m] = Notice("dispatching", d)]
      BY <1>3, LeastIsUnannounced DEF Select, Unannounced
    <2> HIDE DEF m
    <2>2. /\ dispatcher' \in [Dispatcher -> Works]
          /\ dispatcher'[d].step = "submitting" /\ dispatcher'[d].mail = m
          /\ \A e \in Dispatcher \ {d} : dispatcher'[e] = dispatcher[e]
      BY <2>1, DoesMoves DEF MailInv, Steps
    <2>3. record'[m] = Notice("dispatching", d)
      BY <2>1, NotedIsNoted
    <2>4. record'[m] # NoNotice
      BY <2>3 DEF Notice, NoNotice
    <2> QED
      BY <1>1, <2>1, <2>2, <2>4 DEF WorkMoves
  <1> QED
    BY <1>2, <1>3

LEMMA OtherWorks ==
  ASSUME MailInv, NEW d \in Dispatcher,
         \/ BeginTick(d) \/ AbandonTick(d) \/ SaveAnswer(d) \/ Close(d) \/ DispatcherDies(d)
  PROVE  WorkMoves(d)
  <1>1. PICK s \in {"idle", "validating", "dead"} : Does(d, s, NoMail)
    BY DEF BeginTick, AbandonTick, SaveAnswer, Close, DispatcherDies
  <1>2. UNCHANGED submitted
    BY DEF BeginTick, AbandonTick, SaveAnswer, Close, DispatcherDies, session
  <1>3. /\ dispatcher' \in [Dispatcher -> Works] /\ dispatcher'[d].step = s
        /\ \A e \in Dispatcher \ {d} : dispatcher'[e] = dispatcher[e]
    BY <1>1, DoesMoves DEF MailInv, Steps
  <1> QED
    BY <1>2, <1>3 DEF WorkMoves

LEMMA ClaimWorks == ASSUME MailInv, NEW d \in Dispatcher, ClaimLease(d) PROVE WorkMoves(d)
  <1>1. Doing("idle", NoMail, enrolment) \in Works /\ Doing("idle", NoMail, enrolment).step = "idle"
    <2>1. enrolment \in 0..MaxEnrolments
      BY MailAssumption DEF MailInv, MailTypeOK
    <2> QED
      BY <2>1 DEF Doing, Works, Steps
  <1>2. dispatcher \in [Dispatcher -> Works]
    BY DEF MailInv, MailTypeOK, Works, Steps
  <1>3. /\ dispatcher' = [dispatcher EXCEPT ![d] = Doing("idle", NoMail, enrolment)]
        /\ UNCHANGED submitted
    BY DEF ClaimLease, session
  <1>4. dispatcher'[d] = Doing("idle", NoMail, enrolment) /\ dispatcher' \in [Dispatcher -> Works]
    BY <1>1, <1>2, <1>3
  <1>5. \A e \in Dispatcher \ {d} : dispatcher'[e] = dispatcher[e]
    BY <1>2, <1>3
  <1> QED
    BY <1>1, <1>3, <1>4, <1>5 DEF WorkMoves

LEMMA WorkStep == ASSUME MailInv, NEW d \in Dispatcher, DispatcherStep(d) PROVE WorkMoves(d)
  BY SubmitMoves, SelectWorks, OtherWorks, ClaimWorks DEF DispatcherStep

\* Everybody else leaves the dispatchers, the App and the records alone.
LEMMA OthersKeepWork ==
  ASSUME MailNext, ~(\E d \in Dispatcher : DispatcherStep(d))
  PROVE  UNCHANGED <<dispatcher, submitted, record, lease>>
  BY DEF MailNext, Arrive, Disable, Enroll, Acknowledge, Age, Snapshot, Plan, Finalize, session

\* A message is handed over at most once.
LEMMA WorkKeepsInv ==
  ASSUME MailInv, NEW d \in Dispatcher, WorkMoves(d), RecordsMove
  PROVE  AtWork' /\ SentOnce' /\ IntentFirst' /\ OneHand' /\ submitted' \in [Mail -> Nat]
  <1> DEFINE m == dispatcher[d].mail
             n == dispatcher'[d].mail
  <1>1. AtWork'
    BY DEF WorkMoves, MailInv, AtWork, Task
  <1>2. submitted \in [Mail -> Nat]
    BY DEF MailInv, MailTypeOK
  <1>3. ASSUME dispatcher[d].step = "submitting", submitted' = [submitted EXCEPT ![m] = @ + 1]
        PROVE  /\ m \in Mail /\ record[m] # NoNotice /\ submitted'[m] = 1
               /\ submitted' \in [Mail -> Nat]
               /\ \A k \in Mail : k # m => submitted'[k] = submitted[k]
    <2>1. m \in Mail /\ record[m] # NoNotice /\ submitted[m] = 0
      BY <1>3 DEF MailInv, AtWork, IntentFirst, Task
    <2> HIDE DEF m
    <2> QED
      BY <1>2, <1>3, <2>1
  <1>4. submitted' \in [Mail -> Nat]
    BY <1>2, <1>3 DEF WorkMoves
  <1>5. SentOnce'
    <2> SUFFICES ASSUME NEW k \in Mail PROVE submitted'[k] <= 1 /\ (record'[k] = NoNotice => submitted'[k] = 0)
      BY DEF SentOnce
    <2>1. submitted[k] <= 1 /\ (record'[k] = NoNotice => submitted[k] = 0 /\ record[k] = NoNotice)
      BY DEF MailInv, SentOnce, RecordsMove
    <2> HIDE DEF m, n
    <2> QED
      BY <2>1, <1>3 DEF WorkMoves, m
  <1>6. ASSUME NEW e \in Dispatcher, e # d, dispatcher[e].step = "submitting"
        PROVE  /\ dispatcher[e].mail \in Mail
               /\ record'[dispatcher[e].mail] # NoNotice /\ submitted'[dispatcher[e].mail] = 0
               /\ dispatcher'[d].step = "submitting" => dispatcher[e].mail # n
    <2> DEFINE k == dispatcher[e].mail
    <2>1. k \in Mail /\ record[k] # NoNotice /\ submitted[k] = 0
      BY <1>6 DEF MailInv, AtWork, IntentFirst, Task
    <2>2. record'[k] # NoNotice
      BY <2>1 DEF RecordsMove
    <2>3. dispatcher[d].step = "submitting" => k # m
      BY <1>6 DEF MailInv, OneHand, Task
    <2>4. dispatcher'[d].step = "submitting" => k # n
      BY <2>1 DEF WorkMoves
    <2> HIDE DEF k, m, n
    <2>5. submitted'[k] = 0
      BY <1>3, <2>1, <2>3 DEF WorkMoves, m
    <2> QED
      BY <2>1, <2>2, <2>4, <2>5 DEF k
  <1>7. ASSUME dispatcher'[d].step = "submitting"
        PROVE  n \in Mail /\ record'[n] # NoNotice /\ submitted'[n] = 0
    BY <1>7 DEF WorkMoves, MailInv, SentOnce
  <1>8. \A e \in Dispatcher : e # d => dispatcher'[e] = dispatcher[e]
    BY DEF WorkMoves
  <1>9. IntentFirst'
    BY <1>6, <1>7, <1>8 DEF IntentFirst, Task
  <1>10. OneHand'
    <2> SUFFICES ASSUME NEW a \in Dispatcher, NEW e \in Dispatcher,
                        dispatcher'[a].step = "submitting", dispatcher'[e].step = "submitting",
                        dispatcher'[a].mail = dispatcher'[e].mail, a # e
                 PROVE  FALSE
      BY DEF OneHand, Task
    <2>1. CASE a = d
      BY <1>6, <1>8, <2>1
    <2>2. CASE e = d
      BY <1>6, <1>8, <2>2
    <2>3. CASE a # d /\ e # d
      BY <1>8, <2>3 DEF MailInv, OneHand, Task
    <2> QED
      BY <2>1, <2>2, <2>3
  <1> QED
    BY <1>1, <1>4, <1>5, <1>9, <1>10

-----------------------------------------------------------------------------
(* The table of messages and its collection                                *)

LEMMA RowsAreMail ==
  ASSUME MailInv
  PROVE  NextRows \subseteq Present \cap aged /\ NextRows \in SUBSET Mail /\ ReadsOf(NextRows) \in SUBSET Mail
  BY PresentIsMail DEF MailInv, NextRows, Left, ReadsOf

Collections == [step : {"none", "planning", "planned"}, snapshot : SUBSET Mail,
                after : 0..MaxMail, rows : SUBSET Mail, reads : SUBSET Mail]

LEMMA CollectionType ==
  ASSUME NEW s \in {"none", "planning", "planned"}, NEW S \in SUBSET Mail, NEW a \in 0..MaxMail,
         NEW R \in SUBSET Mail, NEW D \in SUBSET Mail
  PROVE  /\ Collection(s, S, a, R, D) \in Collections
         /\ Collection(s, S, a, R, D).step = s /\ Collection(s, S, a, R, D).rows = R
  BY DEF Collection, Collections

LEMMA GcStep ==
  ASSUME MailInv, Snapshot \/ Plan \/ Finalize
  PROVE  gc' \in Collections /\ RowsPlanned'
  <1> DEFINE none == {}
  <1>1. 0 \in 0..MaxMail /\ none \in SUBSET Mail
    BY MailAssumption
  <1>2. gc \in Collections
    BY DEF MailInv, MailTypeOK, Collections
  <1>3. NoCollection \in Collections /\ NoCollection.step = "none"
    BY <1>1, CollectionType DEF NoCollection
  <1>4. CASE Snapshot
    <2>1. Present \cap aged \in SUBSET Mail
      BY PresentIsMail DEF MailInv
    <2>2. gc' = Collection("planning", Present \cap aged, 0, {}, {})
      BY <1>4 DEF Snapshot
    <2> QED
      BY <1>1, <2>1, <2>2, CollectionType DEF RowsPlanned
  <1>5. CASE Plan
    <2>1. CASE NextRows = {}
      BY <1>3, <1>5, <2>1 DEF Plan, RowsPlanned
    <2>2. CASE NextRows # {}
      <3>1. gc' = Collection("planned", gc.snapshot, gc.after, NextRows, ReadsOf(NextRows))
        BY <1>5, <2>2 DEF Plan
      <3>2. gc.snapshot \in SUBSET Mail /\ gc.after \in 0..MaxMail
        BY <1>2 DEF Collections
      <3>3. gc' \in Collections /\ gc'.rows = NextRows
        BY <3>1, <3>2, RowsAreMail, CollectionType
      <3> QED
        BY <2>2, <3>3 DEF RowsPlanned
    <2> QED
      BY <2>1, <2>2
  <1>6. CASE Finalize
    <2>1. CASE PlanHolds
      <3> DEFINE last == CHOOSE m \in gc.rows : \A k \in gc.rows : m >= k
      <3>1. gc.rows \in SUBSET (1..MaxMail) /\ gc.rows # {} /\ gc.snapshot \in SUBSET Mail
        BY <1>2, <1>6 DEF Collections, MailInv, RowsPlanned, Finalize, Mail
      <3>2. last \in gc.rows
        <4>1. \E m \in gc.rows : \A k \in gc.rows : m >= k
          BY <3>1, MailAssumption, GreatestExists
        <4> QED
          BY <4>1
      <3>3. last \in 0..MaxMail
        BY <3>1, <3>2, MailAssumption
      <3>4. gc' = Collection("planning", gc.snapshot, last, {}, {})
        BY <1>6, <2>1 DEF Finalize
      <3> HIDE DEF last
      <3> QED
        BY <1>1, <3>1, <3>3, <3>4, CollectionType DEF RowsPlanned
    <2>2. CASE ~PlanHolds
      BY <1>3, <1>6, <2>2 DEF Finalize, RowsPlanned
    <2> QED
      BY <2>1, <2>2
  <1> QED
    BY <1>4, <1>5, <1>6

\* What a step does to the table, the times and the enrolments.
TableOK ==
    /\ newest \in 0..MaxMail
    /\ collected \subseteq 1..newest /\ aged \subseteq 1..newest /\ acked \subseteq Present
    /\ lease \in Dispatcher \cup {NoDispatcher}
    /\ enrolment \in 0..enrolments /\ enrolments \in 1..MaxEnrolments
    /\ collections \in 0..MaxCollections

LEMMA TableIsOK == MailInv => TableOK
  BY DEF MailInv, MailTypeOK, TableOK

LEMMA TableStep == ASSUME MailInv, MailNext PROVE TableOK'
  <1> USE TableIsOK
  <1>1. ASSUME NEW d \in Dispatcher, DispatcherStep(d) PROVE TableOK'
    <2>1. lease' \in Dispatcher \cup {NoDispatcher}
      BY <1>1 DEF TableOK, DispatcherStep, ClaimLease, BeginTick, AbandonTick, Select, Submit,
         SaveAnswer, Close, DispatcherDies
    <2>2. UNCHANGED <<table, aged, enrolment, enrolments, collections>>
      BY <1>1 DEF DispatcherStep, ClaimLease, BeginTick, AbandonTick, Select, Submit,
         SaveAnswer, Close, DispatcherDies, session, history
    <2> QED
      BY <2>1, <2>2 DEF TableOK, table, Present
  <1>2. CASE Arrive
    <2>1. newest' = newest + 1 /\ newest' \in 0..MaxMail /\ newest \in 0..MaxMail
      BY <1>2, MailAssumption DEF Arrive, TableOK
    <2>2. 1..newest \subseteq 1..newest'
      BY <2>1
    <2>3. UNCHANGED <<collected, acked, aged, lease, enrolment, enrolments, collections>>
      BY <1>2 DEF Arrive, session, history
    <2> QED
      BY <2>1, <2>2, <2>3 DEF TableOK, Present
  <1>3. CASE Disable \/ Enroll
    <2>1. enrolments \in 1..MaxEnrolments
      BY DEF TableOK
    <2>2. enrolment' \in 0..enrolments' /\ enrolments' \in 1..MaxEnrolments
      BY <1>3, <2>1, MailAssumption DEF Disable, Enroll
    <2>3. UNCHANGED <<table, aged, lease, collections>>
      BY <1>3 DEF Disable, Enroll, history
    <2> QED
      BY <2>2, <2>3 DEF TableOK, table, Present
  <1>4. ASSUME NEW m \in Mail, Acknowledge(m) \/ Age(m) PROVE TableOK'
    <2>1. /\ acked' \subseteq Present /\ aged' \subseteq 1..newest
          /\ UNCHANGED <<newest, collected, lease, enrolment, enrolments, collections>>
      BY <1>4 DEF TableOK, Acknowledge, Age, Readable, Present, table, session, history
    <2> QED
      BY <2>1 DEF TableOK, Present
  <1>5. CASE Snapshot \/ Plan
    <2>1. UNCHANGED <<table, aged, lease, enrolment, enrolments>> /\ collections' \in 0..MaxCollections
      BY <1>5, MailAssumption DEF Snapshot, Plan, session, TableOK
    <2> QED
      BY <2>1 DEF TableOK, table, Present
  <1>6. CASE Finalize
    <2>1. UNCHANGED <<newest, aged, lease, enrolment, enrolments, collections>>
      BY <1>6 DEF Finalize, session
    <2>2. CASE PlanHolds
      <3>1. /\ collected' = collected \cup gc.rows /\ acked' = acked \ gc.rows
            /\ gc.rows \subseteq Present
        BY <1>6, <2>2, RowsAreMail DEF Finalize, PlanHolds
      <3> QED
        BY <2>1, <3>1 DEF TableOK, Present
    <2>3. CASE ~PlanHolds
      BY <1>6, <2>1, <2>3 DEF Finalize, TableOK, Present
    <2> QED
      BY <2>2, <2>3
  <1> QED
    BY <1>1, <1>2, <1>3, <1>4, <1>5, <1>6 DEF MailNext

-----------------------------------------------------------------------------
LEMMA MailInvStep == MailInv /\ [MailNext]_mailVars => MailInv'
  <1> SUFFICES ASSUME MailInv, [MailNext]_mailVars PROVE MailInv'
    OBVIOUS
  <1>1. CASE UNCHANGED mailVars
    BY <1>1 DEF mailVars, table, session, history, MailInv, MailTypeOK, AtWork, RowsPlanned,
       OneOpen,
       SentOnce, IntentFirst, OneHand, Present, Task
  <1>2. CASE MailNext
    <2>1. RecordsMove /\ TableOK'
      BY <1>2, RecordsStep, TableStep
    <2>2. /\ dispatcher' \in [Dispatcher -> Works] /\ submitted' \in [Mail -> Nat]
          /\ AtWork' /\ SentOnce' /\ IntentFirst' /\ OneHand'
      <3>1. CASE \E d \in Dispatcher : DispatcherStep(d)
        <4>1. PICK d \in Dispatcher : WorkMoves(d)
          BY <3>1, WorkStep
        <4> QED
          BY <2>1, <4>1, WorkKeepsInv DEF WorkMoves
      <3>2. CASE ~(\E d \in Dispatcher : DispatcherStep(d))
        <4>1. UNCHANGED <<dispatcher, submitted, record>>
          BY <1>2, <3>2, OthersKeepWork
        <4> QED
          BY <4>1 DEF MailInv, MailTypeOK, Works, Steps, AtWork, SentOnce, IntentFirst, OneHand,
             Task
      <3> QED
        BY <3>1, <3>2
    <2>3. gc' \in Collections /\ RowsPlanned'
      <3>1. CASE UNCHANGED gc
        BY <3>1 DEF MailInv, MailTypeOK, Collections, RowsPlanned
      <3> QED
        BY <1>2, <3>1, GcStep DEF MailNext, DispatcherStep, ClaimLease, BeginTick, AbandonTick,
           Select,
           Submit, SaveAnswer, Close, DispatcherDies, Arrive, Disable, Enroll, Acknowledge, Age, history
    <2>4. MailTypeOK'
      BY <2>1, <2>2, <2>3 DEF MailTypeOK, TableOK, RecordsMove, Notices, Works, Steps, Collections
    <2> QED
      BY <2>1, <2>2, <2>3, <2>4 DEF MailInv, RecordsMove
  <1> QED
    BY <1>1, <1>2

LEMMA MailInvAlways == MailSpec => []MailInv
  BY MailInvInit, MailInvStep, PTL DEF MailSpec

-----------------------------------------------------------------------------
(* The variables of an App session's mail keep their types, and only a      *)
(* message that is there is marked read (codex-app-cooperation.mjs).        *)
THEOREM MailTypeCorrect == MailSpec => []MailTypeOK
  BY MailInvAlways, PTL DEF MailInv

(* The App is handed a notice of each message at most once, over any number *)
(* of dispatchers, deaths, lost answers and enrolments (runTick).           *)
THEOREM NeverTwice == MailSpec => []NoticeOnce
  <1>1. MailInv => NoticeOnce
    BY DEF MailInv, SentOnce, NoticeOnce
  <1> QED
    BY <1>1, MailInvAlways, PTL

(* At most one notice waits to be acknowledged: a restart does not flood    *)
(* the session (runTick).                                                   *)
THEOREM NoFlood == MailSpec => []OneOutstanding
  <1>1. MailInv => OneOutstanding
    <2> SUFFICES ASSUME MailInv PROVE OneOutstanding
      OBVIOUS
    <2> DEFINE W == { m \in Mail \ acked : record[m].status \in Blocking }
    <2>1. \A m, k \in W : m = k
      BY DEF MailInv, OneOpen
    <2>2. Cardinality(W) <= 1
      <3>1. CASE W = {}
        BY <3>1, FS_EmptySet
      <3>2. CASE W # {}
        <4>1. PICK w : W = {w}
          BY <2>1, <3>2
        <4> HIDE DEF W
        <4> QED
          BY <4>1, FS_Singleton
      <3> QED
        BY <3>1, <3>2
    <2> QED
      BY <2>2 DEF OneOutstanding
  <1> QED
    BY <1>1, MailInvAlways, PTL

(* A message is deleted only as planned: old, and read if and only if it    *)
(* was when the batch was planned (finalizeHistoryGcPlan).                  *)
THEOREM PlansAreKept == MailSpec => CollectedAsPlanned
  <1>1. MailInv /\ [MailNext]_mailVars => [CollectsAsPlanned]_mailVars
    <2> SUFFICES ASSUME MailInv, MailNext, NEW m \in collected' \ collected
                 PROVE  m \in aged /\ (m \in acked <=> m \in gc.reads)
      BY DEF CollectsAsPlanned
    <2>1. Finalize
      BY DEF MailNext, DispatcherStep, ClaimLease, BeginTick, AbandonTick, Select, Submit,
         SaveAnswer,
         Close, DispatcherDies, Arrive, Disable, Enroll, Acknowledge, Age, Snapshot, Plan, table
    <2>2. m \in gc.rows /\ gc.rows = NextRows /\ acked \cap gc.rows = gc.reads
      BY <2>1 DEF Finalize, PlanHolds, ReadsOf
    <2> QED
      BY <2>2, RowsAreMail
  <1> QED
    BY <1>1, MailInvAlways, PTL DEF MailSpec, CollectedAsPlanned

-----------------------------------------------------------------------------
(* DshInbox                                                                *)

\* The plugin's record.
InboxFields == {"loaded", "pending", "wake", "claimed", "carried", "blocked", "receipts", "acked"}

\* A plugin that has acknowledged, and will acknowledge, nothing but what is in
\* seen; what it holds are copies that were made.
Honest(b, made, seen) ==
    /\ DOMAIN b = InboxFields
    /\ b.pending \cup b.carried \cup b.receipts \subseteq 1..Len(made)
    /\ b.acked \subseteq seen
    /\ \A c \in b.receipts : made[c].messages \subseteq seen

Methods == {"followup", "steer", "context"}
CopyRecord == [messages : SUBSET Int, method : Methods]

InboxInv == arrived \in Nat /\ copies \in Seq(CopyRecord) /\ Honest(inbox, copies, shown)

-----------------------------------------------------------------------------
LEMMA SameClaims ==
    ASSUME NEW b, NEW d, NEW made, NEW seen, Honest(b, made, seen), DOMAIN d = InboxFields,
           d.receipts = b.receipts, d.acked = b.acked,
           d.pending \cup d.carried \subseteq b.pending \cup b.carried
    PROVE  Honest(d, made, seen)
  BY DEF Honest

LEMMA BlockedHonest ==
    ASSUME NEW b, NEW seen, Honest(b, copies, seen), NEW S
    PROVE  Honest(BlockedFor(b, S), copies, seen)
<1>1. CASE S = {}
  BY <1>1 DEF BlockedFor
<1>2. CASE S # {}
  <2> DEFINE w == IF b.wake \in S THEN NoCopy ELSE b.wake
             f == Fingerprint(NewestOf(S))
             d == [b EXCEPT !.pending = @ \ S, !.claimed = @ \ S, !.wake = w, !.blocked = f]
  <2>1. BlockedFor(b, S) = d
    BY <1>2 DEF BlockedFor
  <2> HIDE DEF w, f
  <2>2. /\ DOMAIN d = InboxFields /\ d.receipts = b.receipts /\ d.acked = b.acked
        /\ d.pending = b.pending \ S /\ d.carried = b.carried
    BY DEF Honest, InboxFields
  <2> HIDE DEF d
  <2> QED
    BY <2>1, <2>2, SameClaims
<1> QED
  BY <1>1, <1>2

LEMMA AdoptedHonest ==
    ASSUME NEW b, NEW seen, Honest(b, copies, seen), NEW a
    PROVE  Honest(Adopted(b, a), copies, seen)
<1> DEFINE queued == {c \in b.carried : copies[c].method \in Wakes}
           w == IF queued = {} THEN b.wake ELSE NewestOf(queued)
           d == [b EXCEPT !.pending = @ \cup b.carried, !.carried = {}, !.wake = w]
<1>1. Adopted(b, a) = BlockedFor(d, Suspect(a, b.carried))
  BY DEF Adopted
<1> HIDE DEF w
<1>2. /\ DOMAIN d = InboxFields /\ d.receipts = b.receipts /\ d.acked = b.acked
      /\ d.pending = b.pending \cup b.carried /\ d.carried = {}
  BY DEF Honest, InboxFields
<1> HIDE DEF d
<1> QED
  BY <1>1, <1>2, SameClaims, BlockedHonest

LEMMA AckedHonest ==
    ASSUME NEW b, NEW seen, Honest(b, copies, seen)
    PROVE  Honest(Acked(b), copies, seen)
<1> DEFINE now == b.acked \cup UNION {copies[c].messages : c \in b.receipts}
           d == [b EXCEPT !.acked = now, !.receipts = {}]
<1>1. now \subseteq seen
  BY DEF Honest
<1>2. Acked(b) = d
  BY DEF Acked
<1> HIDE DEF now
<1>3. /\ DOMAIN d = InboxFields /\ d.receipts = {} /\ d.acked = now
      /\ d.pending = b.pending /\ d.carried = b.carried
  BY DEF Honest, InboxFields
<1> HIDE DEF d
<1> QED
  BY <1>1, <1>2, <1>3 DEF Honest

LEMMA ClearedHonest ==
    ASSUME NEW b, NEW seen, Honest(b, copies, seen)
    PROVE  Honest(Cleared(b), copies, seen)
<1> DEFINE kept == {c \in b.pending : copies[c].method \in Wakes}
           d == [b EXCEPT !.pending = kept]
<1>1. Cleared(b) = d /\ kept \subseteq b.pending
  BY DEF Cleared
<1> HIDE DEF kept
<1>2. /\ DOMAIN d = InboxFields /\ d.receipts = b.receipts /\ d.acked = b.acked
      /\ d.pending = kept /\ d.carried = b.carried
  BY DEF Honest, InboxFields
<1> HIDE DEF d
<1> QED
  BY <1>1, <1>2, SameClaims

\* A copy more is made, and held.
LEMMA CopyMade ==
    ASSUME NEW made \in Seq(CopyRecord), NEW r \in CopyRecord, NEW w,
           NEW b, NEW seen, Honest(b, made, seen)
    PROVE  /\ Append(made, r) \in Seq(CopyRecord)
           /\ Honest([b EXCEPT !.pending = @ \cup {Len(made) + 1}, !.wake = w],
                     Append(made, r), seen)
           /\ Honest([b EXCEPT !.pending = @ \cup {Len(made) + 1}], Append(made, r), seen)
<1> DEFINE more == Append(made, r)
           c == Len(made) + 1
<1>1. /\ more \in Seq(CopyRecord) /\ Len(more) = c /\ Len(made) \in Nat
      /\ \A k \in 1..Len(made) : more[k] = made[k]
  OBVIOUS
<1>2. /\ b.pending \cup b.carried \cup b.receipts \subseteq 1..Len(made)
      /\ b.acked \subseteq seen /\ DOMAIN b = InboxFields
  BY DEF Honest
<1>3. \A k \in b.receipts : more[k].messages \subseteq seen
  BY <1>1, <1>2 DEF Honest
<1> HIDE DEF more
<1>4. ASSUME NEW d, DOMAIN d = InboxFields, d.pending = b.pending \cup {c},
             d.carried = b.carried, d.receipts = b.receipts, d.acked = b.acked
      PROVE  Honest(d, more, seen)
  BY <1>1, <1>2, <1>3, <1>4 DEF Honest
<1>5. Honest([b EXCEPT !.pending = @ \cup {c}, !.wake = w], more, seen)
  <2> DEFINE d == [b EXCEPT !.pending = @ \cup {c}, !.wake = w]
  <2>1. /\ DOMAIN d = InboxFields /\ d.pending = b.pending \cup {c}
        /\ d.carried = b.carried /\ d.receipts = b.receipts /\ d.acked = b.acked
    BY <1>2 DEF InboxFields
  <2> HIDE DEF d
  <2>2. Honest(d, more, seen)
    BY <2>1, <1>4
  <2> QED
    BY <2>2 DEF d
<1>6. Honest([b EXCEPT !.pending = @ \cup {c}], more, seen)
  <2> DEFINE d == [b EXCEPT !.pending = @ \cup {c}]
  <2>1. /\ DOMAIN d = InboxFields /\ d.pending = b.pending \cup {c}
        /\ d.carried = b.carried /\ d.receipts = b.receipts /\ d.acked = b.acked
    BY <1>2 DEF InboxFields
  <2> HIDE DEF d
  <2>2. Honest(d, more, seen)
    BY <2>1, <1>4
  <2> QED
    BY <2>2 DEF d
<1> QED
  BY <1>1, <1>5, <1>6 DEF more

LEMMA BatchesAreMessages ==
    ASSUME arrived \in Nat, NEW b, NEW method
    PROVE  BatchFor(b, method) \in SUBSET Int
<1>1. Unread(b) \in SUBSET Int
  BY DEF Unread
<1>2. \A S \in SUBSET Int : Shown(S) \in SUBSET Int
  BY DEF Shown
<1> QED
  BY <1>1, <1>2 DEF BatchFor

-----------------------------------------------------------------------------
(* The steps.                                                              *)

\* A step that makes no copy.
LEMMA NoCopyMade ==
    ASSUME InboxInv, UNCHANGED copies, arrived' \in Nat, shown \subseteq shown',
           Honest(inbox', copies, shown')
    PROVE  InboxInv'
  BY DEF InboxInv

LEMMA SendsHonestly ==
    ASSUME InboxInv, NEW b, Honest(b, copies, shown), NEW method \in Methods,
           Sends(method, b), UNCHANGED <<arrived, shown>>
    PROVE  InboxInv'
<1> DEFINE r == [messages |-> BatchFor(b, method), method |-> method]
<1>1. copies \in Seq(CopyRecord) /\ arrived \in Nat
  BY DEF InboxInv
<1>2. r \in CopyRecord
  <2> BatchFor(b, method) \in SUBSET Int
    BY <1>1, BatchesAreMessages
  <2> QED
    BY DEF CopyRecord, Methods
<1>3. /\ copies' = Append(copies, r)
      /\ inbox' = [b EXCEPT !.pending = @ \cup {Len(copies) + 1}, !.wake = Len(copies) + 1]
  BY DEF Sends
<1> HIDE DEF r
<1>4. copies' \in Seq(CopyRecord) /\ Honest(inbox', copies', shown)
  BY <1>1, <1>2, <1>3, CopyMade
<1> QED
  BY <1>1, <1>4 DEF InboxInv

LEMMA EnqueuesHonestly ==
    ASSUME InboxInv, NEW b, Honest(b, copies, shown), NEW method \in Methods,
           Enqueues(method, b), UNCHANGED <<arrived, shown>>
    PROVE  InboxInv'
<1>1. Honest(Cleared(b), copies, shown)
  BY ClearedHonest
<1>2. Honest(Acked(Cleared(b)), copies, shown)
  BY <1>1, AckedHonest
<1>3. CASE Sends(method, Acked(Cleared(b)))
  BY <1>2, <1>3, SendsHonestly
<1>4. CASE inbox' \in {b, Cleared(b), Acked(Cleared(b))} /\ UNCHANGED copies
  <2>1. Honest(inbox', copies, shown)
    BY <1>1, <1>2, <1>4
  <2> QED
    BY <1>4, <2>1, NoCopyMade DEF InboxInv
<1> QED
  BY <1>3, <1>4 DEF Enqueues

LEMMA CommitsHonestly ==
    ASSUME InboxInv, NEW c, NEW whole \in BOOLEAN, CommitCopy(c, whole)
    PROVE  InboxInv'
<1>1. /\ UNCHANGED <<copies, arrived>> /\ inbox' \in Committed(c, whole)
      /\ shown' = IF whole THEN shown \cup copies[c].messages ELSE shown
  BY DEF CommitCopy, Messages
<1>2. shown \subseteq shown'
  BY <1>1
<1>3. Honest(inbox, copies, shown')
  BY <1>2 DEF InboxInv, Honest
<1> DEFINE b == IF c \in inbox.pending THEN inbox ELSE Adopted(inbox, agent)
           w == IF b.wake = c THEN NoCopy ELSE b.wake
           r == [b EXCEPT !.pending = @ \ {c}, !.claimed = @ \ {c}, !.wake = w,
                          !.blocked = NoFingerprint, !.receipts = @ \cup {c}]
<1>4. Honest(b, copies, shown')
  BY <1>3, AdoptedHonest
<1>5. CASE inbox' = inbox \/ inbox' = b
  <2>1. Honest(inbox', copies, shown')
    BY <1>3, <1>4, <1>5
  <2> QED
    BY <1>1, <1>2, <2>1, NoCopyMade DEF InboxInv
<1>6. CASE SameContents(b, c, whole) /\ inbox' \in {r, Acked(r)}
  <2>1. c \in b.pending /\ copies[c].messages \subseteq shown'
    BY <1>1, <1>6 DEF SameContents
  <2> HIDE DEF b, w
  <2>2. /\ DOMAIN r = InboxFields /\ r.receipts = b.receipts \cup {c} /\ r.acked = b.acked
        /\ r.pending = b.pending \ {c} /\ r.carried = b.carried
    BY <1>4 DEF Honest, InboxFields
  <2> HIDE DEF r
  <2>3. Honest(r, copies, shown')
    BY <1>4, <2>1, <2>2 DEF Honest
  <2>4. Honest(Acked(r), copies, shown')
    BY <2>3, AckedHonest
  <2>5. Honest(inbox', copies, shown')
    BY <1>6, <2>3, <2>4
  <2> QED
    BY <1>1, <1>2, <2>5, NoCopyMade DEF InboxInv
<1> QED
  <2>1. Committed(c, whole) =
          IF ~inbox.loaded THEN {inbox}
          ELSE IF SameContents(b, c, whole) THEN {r, Acked(r)} ELSE {b}
    BY DEF Committed
  <2> HIDE DEF b, r
  <2> QED
    BY <1>1, <1>5, <1>6, <2>1

\* What a turn does to the plugin, copies aside.
LEMMA TurnsHonestly ==
    ASSUME InboxInv, UNCHANGED <<arrived, copies, shown>>,
           \/ \E a, S : inbox' \in {inbox, Adopted(inbox, a), Acked(Adopted(inbox, a)),
                                    Cleared(Acked(Adopted(inbox, a))),
                                    BlockedFor(Adopted(inbox, a), S),
                                    BlockedFor(Acked(Adopted(inbox, a)), S)}
    PROVE  InboxInv'
<1>1. PICK a, S : inbox' \in {inbox, Adopted(inbox, a), Acked(Adopted(inbox, a)),
                              Cleared(Acked(Adopted(inbox, a))),
                              BlockedFor(Adopted(inbox, a), S),
                              BlockedFor(Acked(Adopted(inbox, a)), S)}
  OBVIOUS
<1>2. Honest(inbox, copies, shown)
  BY DEF InboxInv
<1>3. Honest(Adopted(inbox, a), copies, shown)
  BY <1>2, AdoptedHonest
<1>4. Honest(Acked(Adopted(inbox, a)), copies, shown)
  BY <1>3, AckedHonest
<1>5. /\ Honest(Cleared(Acked(Adopted(inbox, a))), copies, shown)
      /\ Honest(BlockedFor(Adopted(inbox, a), S), copies, shown)
      /\ Honest(BlockedFor(Acked(Adopted(inbox, a)), S), copies, shown)
  BY <1>3, <1>4, ClearedHonest, BlockedHonest
<1>6. Honest(inbox', copies, shown)
  BY <1>1, <1>2, <1>3, <1>4, <1>5
<1> QED
  BY <1>6, NoCopyMade DEF InboxInv

LEMMA TakesHonestly ==
    ASSUME InboxInv, NEW take, Takes(take)
    PROVE  InboxInv'
<1> DEFINE b == Adopted(inbox, agent')
           k == b.claimed \cup (take \cap b.pending)
           d == [b EXCEPT !.claimed = k]
<1>1. UNCHANGED <<arrived, copies, shown>> /\ inbox' \in {inbox, d}
  BY DEF Takes, Messages
<1>2. Honest(b, copies, shown) /\ Honest(inbox, copies, shown)
  BY AdoptedHonest DEF InboxInv
<1> HIDE DEF b, k
<1>3. /\ DOMAIN d = InboxFields /\ d.receipts = b.receipts /\ d.acked = b.acked
      /\ d.pending = b.pending /\ d.carried = b.carried
  BY <1>2 DEF Honest, InboxFields
<1> HIDE DEF d
<1>4. Honest(d, copies, shown)
  BY <1>2, <1>3, SameClaims
<1>5. Honest(inbox', copies, shown)
  BY <1>1, <1>2, <1>4
<1> QED
  BY <1>1, <1>5, NoCopyMade DEF InboxInv

LEMMA ContextHonestly ==
    ASSUME InboxInv, NEW kept, StepWithContext(kept)
    PROVE  InboxInv'
<1> DEFINE b == Adopted(inbox, agent)
           batch == BatchFor(Acked(b), "context")
           r == [messages |-> batch, method |-> "context"]
<1>1. UNCHANGED <<arrived, shown>> /\ copies \in Seq(CopyRecord) /\ arrived \in Nat
  BY DEF StepWithContext, Messages, InboxInv
<1>2. CASE UNCHANGED copies /\ inbox' \in {b, Cleared(Acked(b))}
  BY <1>1, <1>2, TurnsHonestly
<1>3. CASE /\ copies' = Append(copies, r)
           /\ inbox' = [Cleared(Acked(b)) EXCEPT !.pending = @ \cup {Len(copies) + 1}]
  <2>1. r \in CopyRecord
    <3> batch \in SUBSET Int
      BY <1>1, BatchesAreMessages
    <3> QED
      BY DEF CopyRecord, Methods
  <2>2. Honest(b, copies, shown)
    BY AdoptedHonest DEF InboxInv
  <2> HIDE DEF b, r
  <2>3. Honest(Cleared(Acked(b)), copies, shown)
    BY <2>2, AckedHonest, ClearedHonest
  <2>4. copies' \in Seq(CopyRecord) /\ Honest(inbox', copies', shown)
    BY <1>1, <1>3, <2>1, <2>3, CopyMade
  <2> QED
    BY <1>1, <2>4 DEF InboxInv
<1> QED
  BY <1>2, <1>3 DEF StepWithContext

\* dispose(), createDshInbox() and forget(), and the dead plugin's last step.
LEMMA ReloadsHonestly ==
    ASSUME InboxInv, Unload \/ Load \/ AgentCloses \/ StepOfUnloaded
    PROVE  InboxInv'
<1>1. Honest(inbox, copies, shown) /\ UNCHANGED <<arrived, copies, shown>>
  BY DEF InboxInv, Unload, Load, AgentCloses, StepOfUnloaded, Messages, Histories
<1>2. /\ DOMAIN inbox' = InboxFields
      /\ inbox'.receipts = inbox.receipts /\ inbox'.acked = inbox.acked
      /\ inbox'.pending \cup inbox'.carried \subseteq inbox.pending \cup inbox.carried
  <2>1. DOMAIN inbox = InboxFields
    BY <1>1 DEF Honest
  <2>2. CASE Unload
    BY <2>1, <2>2 DEF Unload, InboxFields
  <2>3. CASE Load
    BY <2>1, <2>3 DEF Load, InboxFields
  <2>4. CASE AgentCloses
    BY <2>1, <2>4 DEF AgentCloses, InboxFields
  <2>5. CASE StepOfUnloaded
    BY <2>1, <2>5 DEF StepOfUnloaded, InboxFields
  <2> QED
    BY <2>2, <2>3, <2>4, <2>5
<1>3. Honest(inbox', copies, shown)
  BY <1>1, <1>2, SameClaims
<1> QED
  BY <1>1, <1>3, NoCopyMade DEF InboxInv

LEMMA InboxInvStep == InboxInv /\ [InboxNext]_inboxVars => InboxInv'
<1> SUFFICES ASSUME InboxInv, [InboxNext]_inboxVars
             PROVE  InboxInv'
  OBVIOUS
<1> DEFINE b == Adopted(inbox, agent)
<1>0. Honest(inbox, copies, shown) /\ Honest(b, copies, shown) /\ Honest(Acked(b), copies, shown)
  BY AdoptedHonest, AckedHonest DEF InboxInv
<1>1. CASE Poll
  <2>1. UNCHANGED <<arrived, shown>>
    BY <1>1 DEF Poll, Messages, Histories
  <2>2. CASE inbox' \in {b, Acked(b)} /\ UNCHANGED copies
    BY <2>1, <2>2, TurnsHonestly
  <2>3. CASE Enqueues("followup", Acked(b))
    BY <1>0, <2>1, <2>3, EnqueuesHonestly DEF Methods
  <2> QED
    BY <1>1, <2>2, <2>3 DEF Poll
<1>2. CASE Steer
  BY <1>0, <1>2, EnqueuesHonestly DEF Steer, Methods, Messages, Histories
<1>3. CASE \E take \in SUBSET agent.box : BeginTurn(take) \/ BeginStep(take)
  BY <1>3, TakesHonestly DEF BeginTurn, BeginStep
<1>4. CASE StepRefused
  BY <1>4, TurnsHonestly DEF StepRefused, Messages, Histories
<1>5. CASE \E kept \in SUBSET agent.proposed : StepWithWake(kept)
  BY <1>5, TurnsHonestly DEF StepWithWake, Messages, Histories
<1>6. CASE \E kept \in SUBSET agent.proposed : StepWithContext(kept)
  BY <1>6, ContextHonestly
<1>7. CASE \E c \in agent.entering, whole \in BOOLEAN : CommitCopy(c, whole)
  BY <1>7, CommitsHonestly
<1>8. CASE EndTurn
  BY <1>8, TurnsHonestly DEF EndTurn, Messages, Histories
<1>9. CASE \E c \in agent.box : UserDiscards(c)
  BY <1>9, TurnsHonestly DEF UserDiscards, Messages
<1>10. CASE Unload \/ Load \/ AgentCloses \/ StepOfUnloaded
  BY <1>10, ReloadsHonestly
<1>11. CASE AskHooks \/ EndStep \/ UserTypes \/ \E m \in Message : ReadWithTool(m)
  BY <1>11, TurnsHonestly DEF AskHooks, EndStep, UserTypes, ReadWithTool, Messages, Histories
<1>12. CASE MessageArrives
  BY <1>0, <1>12, NoCopyMade DEF MessageArrives, Histories, InboxInv
<1>13. CASE UNCHANGED inboxVars
  BY <1>13, TurnsHonestly DEF inboxVars
<1> QED
  BY <1>1, <1>2, <1>3, <1>4, <1>5, <1>6, <1>7, <1>8, <1>9, <1>10, <1>11, <1>12, <1>13
  DEF InboxNext

LEMMA InboxInvInit == InboxInit => InboxInv
  BY DEF InboxInit, InboxInv, Honest, InboxFields

\* However turns, alterations, refusals and reloads come about, the plugin
\* acknowledges only what was committed as it was made (commit, acknowledge).
THEOREM OnlyShownIsAcked == InboxSpec => []AckedWasShown
<1>1. InboxInv => AckedWasShown
  BY DEF InboxInv, Honest, AckedWasShown
<1> QED
  BY <1>1, InboxInvInit, InboxInvStep, PTL DEF InboxSpec

-----------------------------------------------------------------------------
(* What the plugin holds.                                                  *)

Plugin == [ loaded : BOOLEAN, pending : SUBSET Copy, wake : 0..MaxCopies,
            claimed : SUBSET Copy, carried : SUBSET Copy,
            blocked : [all : SUBSET Message, external : SUBSET Message],
            receipts : SUBSET Copy, acked : SUBSET Message ]

Session == [ status : {"idle", "running", "gone"}, box : SUBSET Copy, human : BOOLEAN,
             phase : {"none", "claimed", "asking", "entering"},
             proposed : SUBSET Copy, asked : 0..MaxLoads, entering : SUBSET Copy ]

Held(b) == b.pending \cup b.carried
IsWake(made, c) == made[c].method \in Wakes

\* A plugin under the copies made: it holds at most one wake, the one it knows
\* of, and what it was left by the plugin before it only while it has nothing.
Sound(b, made) ==
    /\ b \in Plugin
    /\ Held(b) \cup b.claimed \cup b.receipts \subseteq 1..Len(made)
    /\ \A c \in b.pending : IsWake(made, c) => c = b.wake
    /\ b.wake # NoCopy => b.wake \in b.pending /\ IsWake(made, b.wake)
    /\ b.pending = {} \/ b.carried = {}
    /\ \A c, d \in b.carried : IsWake(made, c) /\ IsWake(made, d) => c = d

\* The copies made, and how much has arrived.
CopiesOK(made, n) ==
    /\ n \in 0..MaxMessages /\ made \in Seq(CopyRecord) /\ Len(made) <= MaxCopies
    /\ \A c \in 1..Len(made) : made[c].messages # {} /\ made[c].messages \subseteq 1..n

SessionOK(a, made) ==
    a \in Session /\ a.box \cup a.proposed \cup a.entering \subseteq 1..Len(made)

InboxSound ==
    /\ CopiesOK(copies, arrived) /\ Sound(inbox, copies) /\ SessionOK(agent, copies)
    /\ ~inbox.loaded => inbox.pending = {}
    /\ readByTool \subseteq Message /\ shown \subseteq Message
    /\ lastTaken \in 0..Len(copies) /\ loads \in 1..MaxLoads
    /\ dropped \subseteq 1..Len(copies)

-----------------------------------------------------------------------------
(* The blocks the handlers are made of.                                    *)

LEMMA NewestIsThere ==
    ASSUME NEW N \in Nat, NEW S \in SUBSET (1..N), S # {}
    PROVE  NewestOf(S) \in S
<1>1. PICK m \in S : \A k \in S : m >= k
  BY GreatestExists
<1>2. \A d \in S : d <= m
  BY <1>1
<1> QED
  BY <1>1, <1>2 DEF NewestOf

LEMMA NewestOfOne ==
    ASSUME NEW c \in Int
    PROVE  NewestOf({c}) = c
  BY DEF NewestOf

LEMMA FingerprintType ==
    ASSUME CopiesOK(copies, arrived), NEW c \in 1..Len(copies)
    PROVE  /\ copies[c].messages \subseteq Message
           /\ Fingerprint(c) \in [all : SUBSET Message, external : SUBSET Message]
<1>1. 1..arrived \subseteq Message
  BY InboxAssumption DEF CopiesOK, Message
<1> QED
  BY <1>1 DEF CopiesOK, Fingerprint

LEMMA BlockedFields ==
    ASSUME CopiesOK(copies, arrived), NEW b, Sound(b, copies),
           NEW S \in SUBSET (1..Len(copies))
    PROVE  LET d == BlockedFor(b, S)
           IN  /\ d \in Plugin
               /\ d.loaded = b.loaded /\ d.receipts = b.receipts /\ d.acked = b.acked
               /\ d.carried = b.carried
               /\ d.pending = b.pending \ S /\ d.claimed = b.claimed \ S
               /\ d.wake = (IF b.wake \in S THEN NoCopy ELSE b.wake)
               /\ d.blocked = (IF S = {} THEN b.blocked ELSE Fingerprint(NewestOf(S)))
<1>0. b \in Plugin
  BY DEF Sound
<1>1. CASE S = {}
  <2>1. BlockedFor(b, S) = b
    BY <1>1 DEF BlockedFor
  <2> QED
    BY <1>0, <1>1, <2>1
<1>2. CASE S # {}
  <2> DEFINE w == IF b.wake \in S THEN NoCopy ELSE b.wake
             f == Fingerprint(NewestOf(S))
             d == [b EXCEPT !.pending = @ \ S, !.claimed = @ \ S, !.wake = w, !.blocked = f]
  <2>1. BlockedFor(b, S) = d
    BY <1>2 DEF BlockedFor
  <2>2. w \in 0..MaxCopies
    BY <1>0, InboxAssumption DEF Plugin, NoCopy
  <2>3. f \in [all : SUBSET Message, external : SUBSET Message]
    <3>1. Len(copies) \in Nat
      BY DEF CopiesOK
    <3>2. NewestOf(S) \in S
      BY <1>2, <3>1, NewestIsThere
    <3> QED
      BY <3>2, FingerprintType
  <2>4. w = (IF b.wake \in S THEN NoCopy ELSE b.wake) /\ f = Fingerprint(NewestOf(S))
    OBVIOUS
  <2> HIDE DEF w, f
  <2>5. /\ d \in Plugin
        /\ d.loaded = b.loaded /\ d.receipts = b.receipts /\ d.acked = b.acked
        /\ d.carried = b.carried /\ d.pending = b.pending \ S /\ d.claimed = b.claimed \ S
        /\ d.wake = w /\ d.blocked = f
    BY <1>0, <2>2, <2>3 DEF Plugin
  <2> HIDE DEF d
  <2> QED
    BY <1>2, <2>1, <2>4, <2>5
<1> QED
  BY <1>1, <1>2

LEMMA BlockedSound ==
    ASSUME CopiesOK(copies, arrived), NEW b, Sound(b, copies),
           NEW S \in SUBSET (1..Len(copies))
    PROVE  Sound(BlockedFor(b, S), copies)
<1> DEFINE d == BlockedFor(b, S)
<1>1. /\ d \in Plugin /\ d.receipts = b.receipts
      /\ d.carried = b.carried /\ d.pending = b.pending \ S /\ d.claimed = b.claimed \ S
      /\ d.wake = (IF b.wake \in S THEN NoCopy ELSE b.wake)
  BY BlockedFields
<1> HIDE DEF d
<1>2. Sound(d, copies)
  BY <1>1 DEF Sound, Held
<1> QED
  BY <1>2 DEF d

LEMMA AdoptedFields ==
    ASSUME CopiesOK(copies, arrived), NEW b, Sound(b, copies), NEW a
    PROVE  LET d == Adopted(b, a)
               S == Suspect(a, b.carried)
           IN  /\ Sound(d, copies)
               /\ d.loaded = b.loaded /\ d.receipts = b.receipts /\ d.acked = b.acked
               /\ d.carried = {} /\ S \subseteq b.carried
               /\ d.pending = Held(b) \ S /\ d.claimed = b.claimed \ S
               /\ d.blocked = (IF S = {} THEN b.blocked ELSE Fingerprint(NewestOf(S)))
<1> DEFINE queued == {c \in b.carried : copies[c].method \in Wakes}
           w == IF queued = {} THEN b.wake ELSE NewestOf(queued)
           d == [b EXCEPT !.pending = @ \cup b.carried, !.carried = {}, !.wake = w]
           S == Suspect(a, b.carried)
<1>1. Adopted(b, a) = BlockedFor(d, S)
  BY DEF Adopted
<1>2. S \subseteq b.carried /\ b.carried \subseteq 1..Len(copies) /\ b \in Plugin
  BY DEF Suspect, Sound, Held
<1>3. ASSUME queued = {} PROVE Sound(d, copies)
  <2>1. w = b.wake
    BY <1>3
  <2>2. \A c \in b.carried : ~IsWake(copies, c)
    BY <1>3 DEF IsWake
  <2> HIDE DEF w, queued
  <2>3. /\ d \in Plugin
        /\ d.loaded = b.loaded /\ d.receipts = b.receipts /\ d.acked = b.acked
        /\ d.carried = {} /\ d.pending = Held(b) /\ d.claimed = b.claimed
        /\ d.wake = b.wake /\ d.blocked = b.blocked
    BY <1>2, <2>1 DEF Plugin, Held
  <2> HIDE DEF d
  <2> QED
    BY <2>2, <2>3 DEF Sound, Held
<1>4. ASSUME queued # {} PROVE Sound(d, copies)
  <2>1. PICK c \in queued : TRUE
    BY <1>4
  <2>2. c \in b.carried /\ IsWake(copies, c) /\ c \in Copy
    BY <1>2, <2>1 DEF IsWake, Plugin
  <2>3. \A k \in b.carried : IsWake(copies, k) => k = c
    BY <2>2 DEF Sound
  <2>4. queued = {c}
    BY <2>1, <2>3 DEF IsWake
  <2>5. w = c
    <3>1. c \in Int
      BY <2>2, InboxAssumption DEF Copy
    <3> QED
      BY <2>4, <3>1, NewestOfOne
  <2>6. b.pending = {}
    BY <2>2 DEF Sound
  <2>7. c \in 0..MaxCopies /\ c # NoCopy
    BY <2>2, InboxAssumption DEF Copy, NoCopy
  <2> HIDE DEF w, queued
  <2>8. /\ d \in Plugin
        /\ d.loaded = b.loaded /\ d.receipts = b.receipts /\ d.acked = b.acked
        /\ d.carried = {} /\ d.pending = Held(b) /\ d.claimed = b.claimed
        /\ d.wake = c /\ d.blocked = b.blocked
    BY <1>2, <2>5, <2>7 DEF Plugin, Held
  <2> HIDE DEF d
  <2> QED
    BY <2>2, <2>3, <2>6, <2>8 DEF Sound, Held
<1>5. /\ Sound(d, copies)
      /\ d.loaded = b.loaded /\ d.receipts = b.receipts /\ d.acked = b.acked
      /\ d.carried = {} /\ d.pending = Held(b) /\ d.claimed = b.claimed
      /\ d.blocked = b.blocked
  <2>1. /\ d.loaded = b.loaded /\ d.receipts = b.receipts /\ d.acked = b.acked
        /\ d.carried = {} /\ d.pending = Held(b) /\ d.claimed = b.claimed
        /\ d.blocked = b.blocked
    <3> HIDE DEF w
    <3> QED
      BY <1>2 DEF Plugin, Held
  <2> HIDE DEF d
  <2> QED
    BY <1>3, <1>4, <2>1
<1> HIDE DEF d
<1>6. S \in SUBSET (1..Len(copies))
  BY <1>2
<1>7. Sound(BlockedFor(d, S), copies)
  BY <1>5, <1>6, BlockedSound
<1> DEFINE e == BlockedFor(d, S)
<1>8. /\ e.loaded = d.loaded /\ e.receipts = d.receipts /\ e.acked = d.acked
      /\ e.carried = d.carried
      /\ e.pending = d.pending \ S /\ e.claimed = d.claimed \ S
      /\ e.blocked = (IF S = {} THEN d.blocked ELSE Fingerprint(NewestOf(S)))
  BY <1>5, <1>6, BlockedFields
<1> HIDE DEF e, S
<1> QED
  BY <1>1, <1>2, <1>5, <1>7, <1>8 DEF e, S

LEMMA AckedFields ==
    ASSUME CopiesOK(copies, arrived), NEW b, Sound(b, copies)
    PROVE  LET d == Acked(b)
           IN  /\ Sound(d, copies)
               /\ d.loaded = b.loaded /\ d.carried = b.carried /\ d.pending = b.pending
               /\ d.claimed = b.claimed /\ d.wake = b.wake /\ d.blocked = b.blocked
               /\ d.receipts = {}
               /\ d.acked = b.acked \cup UNION {copies[c].messages : c \in b.receipts}
<1> DEFINE now == b.acked \cup UNION {copies[c].messages : c \in b.receipts}
           d == [b EXCEPT !.acked = now, !.receipts = {}]
<1>1. Acked(b) = d
  BY DEF Acked
<1>2. b \in Plugin
  BY DEF Sound
<1>3. now \subseteq Message
  <2>1. ASSUME NEW c \in b.receipts PROVE copies[c].messages \subseteq Message
    <3>1. c \in 1..Len(copies)
      BY DEF Sound
    <3> QED
      BY <3>1, FingerprintType
  <2> QED
    BY <1>2, <2>1 DEF Plugin
<1>4. now = b.acked \cup UNION {copies[c].messages : c \in b.receipts}
  OBVIOUS
<1> HIDE DEF now
<1>5. /\ d \in Plugin
      /\ d.loaded = b.loaded /\ d.carried = b.carried /\ d.pending = b.pending
      /\ d.claimed = b.claimed /\ d.wake = b.wake /\ d.blocked = b.blocked
      /\ d.receipts = {} /\ d.acked = now
  BY <1>2, <1>3 DEF Plugin
<1> HIDE DEF d
<1>6. Sound(d, copies)
  BY <1>5 DEF Sound, Held
<1> QED
  BY <1>1, <1>4, <1>5, <1>6

LEMMA ClearedFields ==
    ASSUME NEW b, Sound(b, copies)
    PROVE  LET d == Cleared(b)
           IN  /\ Sound(d, copies)
               /\ d.loaded = b.loaded /\ d.carried = b.carried
               /\ d.pending = {c \in b.pending : IsWake(copies, c)}
               /\ d.claimed = b.claimed /\ d.wake = b.wake /\ d.blocked = b.blocked
               /\ d.receipts = b.receipts /\ d.acked = b.acked
<1> DEFINE kept == {c \in b.pending : copies[c].method \in Wakes}
           d == [b EXCEPT !.pending = kept]
<1>1. Cleared(b) = d
  BY DEF Cleared
<1>2. b \in Plugin
  BY DEF Sound
<1>3. kept \subseteq b.pending /\ kept = {c \in b.pending : IsWake(copies, c)}
  BY DEF IsWake
<1> HIDE DEF kept
<1>4. /\ d \in Plugin
      /\ d.loaded = b.loaded /\ d.carried = b.carried /\ d.pending = kept
      /\ d.claimed = b.claimed /\ d.wake = b.wake /\ d.blocked = b.blocked
      /\ d.receipts = b.receipts /\ d.acked = b.acked
  BY <1>2, <1>3 DEF Plugin
<1> HIDE DEF d
<1>5. Sound(d, copies)
  <2>1. b.wake # NoCopy => b.wake \in kept
    BY <1>3 DEF Sound
  <2> QED
    BY <1>3, <1>4, <2>1 DEF Sound, Held
<1> QED
  BY <1>1, <1>3, <1>4, <1>5

\* One copy more.
LEMMA CopyAppended ==
    ASSUME CopiesOK(copies, arrived), Len(copies) < MaxCopies,
           NEW m, m # {}, m \subseteq 1..arrived, NEW method \in Methods,
           copies' = Append(copies, [messages |-> m, method |-> method])
    PROVE  /\ CopiesOK(copies', arrived) /\ Len(copies') = Len(copies) + 1
           /\ copies'[Len(copies) + 1].messages = m
           /\ copies'[Len(copies) + 1].method = method
           /\ \A c \in 1..Len(copies) : copies'[c] = copies[c]
<1> DEFINE r == [messages |-> m, method |-> method]
<1>1. r \in CopyRecord
  <2> m \in SUBSET Int
    BY DEF CopiesOK
  <2> QED
    BY DEF CopyRecord
<1>2. /\ copies' \in Seq(CopyRecord) /\ Len(copies') = Len(copies) + 1 /\ Len(copies) \in Nat
      /\ copies'[Len(copies) + 1] = r
      /\ \A c \in 1..Len(copies) : copies'[c] = copies[c]
  BY <1>1 DEF CopiesOK
<1>3. r.messages = m /\ r.method = method
  OBVIOUS
<1> HIDE DEF r
<1>4. CopiesOK(copies', arrived)
  <2>1. ASSUME NEW c \in 1..Len(copies')
        PROVE  copies'[c].messages # {} /\ copies'[c].messages \subseteq 1..arrived
    <3>1. CASE c \in 1..Len(copies)
      BY <1>2, <3>1 DEF CopiesOK
    <3>2. CASE c = Len(copies) + 1
      BY <1>2, <1>3, <3>2
    <3> QED
      BY <1>2, <3>1, <3>2
  <2> QED
    BY <1>2, <2>1, InboxAssumption DEF CopiesOK
<1> QED
  BY <1>2, <1>3, <1>4

\* A copy more, held by a plugin that has adopted and cleared: a wake, if it had
\* none, or context.
LEMMA CopyHeld ==
    ASSUME CopiesOK(copies, arrived), CopiesOK(copies', arrived),
           Len(copies') = Len(copies) + 1,
           \A c \in 1..Len(copies) : copies'[c] = copies[c],
           NEW b, Sound(b, copies), b.carried = {}, NEW w,
           \/ w = Len(copies) + 1 /\ IsWake(copies', Len(copies) + 1) /\ b.wake = NoCopy
           \/ w = b.wake /\ ~IsWake(copies', Len(copies) + 1),
           inbox' = [b EXCEPT !.pending = @ \cup {Len(copies) + 1}, !.wake = w]
    PROVE  /\ Sound(inbox', copies')
           /\ inbox'.loaded = b.loaded /\ inbox'.carried = {}
           /\ inbox'.pending = b.pending \cup {Len(copies) + 1} /\ inbox'.wake = w
           /\ inbox'.claimed = b.claimed /\ inbox'.blocked = b.blocked
           /\ inbox'.receipts = b.receipts /\ inbox'.acked = b.acked
<1> DEFINE c == Len(copies) + 1
           d == inbox'
<1>1. b \in Plugin /\ Len(copies) \in Nat /\ c <= MaxCopies
  BY DEF Sound, CopiesOK
<1>2. c \in Copy /\ w \in 0..MaxCopies
  BY <1>1, InboxAssumption DEF Copy, Plugin
<1>3. /\ d \in Plugin
      /\ d.loaded = b.loaded /\ d.carried = {}
      /\ d.pending = b.pending \cup {c} /\ d.wake = w
      /\ d.claimed = b.claimed /\ d.blocked = b.blocked
      /\ d.receipts = b.receipts /\ d.acked = b.acked
  BY <1>1, <1>2 DEF Plugin
<1>4. \A k \in b.pending : IsWake(copies', k) = IsWake(copies, k) /\ k \in 1..Len(copies)
  BY DEF Sound, Held, IsWake
<1>5. b.wake = NoCopy => \A k \in b.pending : ~IsWake(copies, k)
  BY <1>4 DEF Sound, NoCopy
<1>6. \A k \in d.pending : IsWake(copies', k) => k = d.wake
  BY <1>3, <1>4, <1>5 DEF Sound
<1>7. d.wake # NoCopy => d.wake \in d.pending /\ IsWake(copies', d.wake)
  BY <1>3, <1>4 DEF Sound
<1>8. Held(d) \cup d.claimed \cup d.receipts \subseteq 1..Len(copies')
  BY <1>1, <1>3 DEF Sound, Held
<1> QED
  BY <1>3, <1>6, <1>7, <1>8 DEF Sound

\* What a batch is.
LEMMA BatchIsUnread ==
    ASSUME arrived \in Nat, NEW b, NEW method
    PROVE  /\ BatchFor(b, method) \subseteq 1..arrived
           /\ BatchFor(b, method) \cap b.acked = {}
           /\ method = "followup" => BatchFor(b, method) \cap Own = {}
<1>1. \A S : Shown(S) \subseteq S
  BY DEF Shown
<1>2. Unread(b) \subseteq 1..arrived /\ Unread(b) \cap b.acked = {}
  BY DEF Unread
<1> QED
  BY <1>1, <1>2 DEF BatchFor

-----------------------------------------------------------------------------
(* What became of the wake that was taken or discarded last.               *)

\* What the plugin has acknowledged, or will.
Known(b) == b.acked \cup UNION {copies[c].messages : c \in b.receipts}

\* The plugin still holds it, and nothing else, until it can tell; or it holds
\* only what is queued again, and remembers the batch or knows it was shown.
Settled(k, b, box) ==
    \/ Held(b) = {k} /\ k \notin box /\ IsWake(copies, k)
    \/ /\ Held(b) \subseteq box
       /\ b.blocked = Fingerprint(k) \/ copies[k].messages \subseteq Known(b)

\* What is queued is a wake the plugin holds, not given to any step, but for
\* copies that an unloaded plugin took with it; of those nothing more is said.
Calm(b, a, k) ==
    /\ \A c \in a.box : c \in Held(b) \cup dropped /\ IsWake(copies, c)
    /\ a.box \cap (b.claimed \cup a.proposed \cup a.entering) = {}
    /\ a.status = "gone" => a.box = {}
    /\ k \notin dropped \cup {NoCopy} /\ a.status # "gone" => Settled(k, b, a.box)

InboxCalm == Calm(inbox, agent, lastTaken)

LEMMA CalmAdopted ==
    ASSUME CopiesOK(copies, arrived), NEW b, Sound(b, copies), NEW a, NEW k \in 0..Len(copies),
           Calm(b, a, k)
    PROVE  Calm(Adopted(b, a), a, k)
<1> DEFINE d == Adopted(b, a)
           S == Suspect(a, b.carried)
<1>1. /\ d.receipts = b.receipts /\ d.acked = b.acked
      /\ d.carried = {} /\ S \subseteq b.carried
      /\ d.pending = Held(b) \ S /\ d.claimed = b.claimed \ S
      /\ d.blocked = (IF S = {} THEN b.blocked ELSE Fingerprint(NewestOf(S)))
  BY AdoptedFields
<1>2. S \cap a.box = {}
  BY DEF Suspect
<1> HIDE DEF d, S
<1>3. Held(d) = Held(b) \ S /\ Known(d) = Known(b)
  BY <1>1 DEF Held, Known
<1>4. ASSUME k \notin dropped \cup {NoCopy}, a.status # "gone" PROVE Settled(k, d, a.box)
  <2>1. CASE Held(b) = {k} /\ k \notin a.box /\ IsWake(copies, k)
    <3>1. CASE S = {}
      BY <1>3, <2>1, <3>1 DEF Settled
    <3>2. CASE S # {}
      <4>1. S = {k}
        BY <1>1, <2>1, <3>2 DEF Held
      <4>2. NewestOf(S) = k
        <5>1. k \in Int
          BY DEF CopiesOK
        <5> QED
          BY <4>1, <5>1, NewestOfOne
      <4> QED
        BY <1>1, <1>3, <2>1, <4>1, <4>2 DEF Settled
    <3> QED
      BY <3>1, <3>2
  <2>2. CASE Held(b) \subseteq a.box /\ (b.blocked = Fingerprint(k) \/ copies[k].messages \subseteq Known(b))
    <3>1. S = {}
      BY <1>1, <1>2, <2>2 DEF Held
    <3> QED
      BY <1>1, <1>3, <2>2, <3>1 DEF Settled
  <2> QED
    BY <1>4, <2>1, <2>2 DEF Calm, Settled
<1>5. Calm(d, a, k)
  BY <1>1, <1>2, <1>3, <1>4 DEF Calm
<1> QED
  BY <1>5 DEF d

LEMMA CalmBlocked ==
    ASSUME CopiesOK(copies, arrived), NEW b, Sound(b, copies), NEW a, NEW k \in 0..Len(copies),
           Calm(b, a, k), NEW S, S \subseteq b.pending, S \cap a.box = {}
    PROVE  Calm(BlockedFor(b, S), a, k)
<1> DEFINE d == BlockedFor(b, S)
<1>1. S \in SUBSET (1..Len(copies))
  BY DEF Sound, Held
<1>2. /\ d.receipts = b.receipts /\ d.acked = b.acked /\ d.carried = b.carried
      /\ d.pending = b.pending \ S /\ d.claimed = b.claimed \ S
      /\ d.blocked = (IF S = {} THEN b.blocked ELSE Fingerprint(NewestOf(S)))
  BY <1>1, BlockedFields
<1> HIDE DEF d
<1>3. Held(d) = Held(b) \ S /\ Known(d) = Known(b)
  BY <1>2 DEF Held, Known, Sound
<1>4. ASSUME k \notin dropped \cup {NoCopy}, a.status # "gone" PROVE Settled(k, d, a.box)
  <2>1. CASE Held(b) = {k} /\ k \notin a.box /\ IsWake(copies, k)
    <3>1. CASE S = {}
      BY <1>3, <2>1, <3>1 DEF Settled
    <3>2. CASE S # {}
      <4>1. S = {k}
        BY <2>1, <3>2 DEF Held
      <4>2. NewestOf(S) = k
        <5>1. k \in Int
          BY DEF CopiesOK
        <5> QED
          BY <4>1, <5>1, NewestOfOne
      <4> QED
        BY <1>2, <1>3, <2>1, <4>1, <4>2 DEF Settled
    <3> QED
      BY <3>1, <3>2
  <2>2. CASE Held(b) \subseteq a.box /\ (b.blocked = Fingerprint(k) \/ copies[k].messages \subseteq Known(b))
    <3>1. S = {}
      BY <2>2 DEF Held
    <3> QED
      BY <1>2, <1>3, <2>2, <3>1 DEF Settled
  <2> QED
    BY <1>4, <2>1, <2>2 DEF Calm, Settled
<1>5. Calm(d, a, k)
  BY <1>2, <1>3, <1>4 DEF Calm
<1> QED
  BY <1>5 DEF d

LEMMA CalmAcked ==
    ASSUME CopiesOK(copies, arrived), NEW b, Sound(b, copies), NEW a, NEW k, Calm(b, a, k)
    PROVE  Calm(Acked(b), a, k)
<1> DEFINE d == Acked(b)
<1>1. /\ d.carried = b.carried /\ d.pending = b.pending
      /\ d.claimed = b.claimed /\ d.blocked = b.blocked
      /\ d.receipts = {} /\ d.acked = Known(b)
  BY AckedFields DEF Known
<1> HIDE DEF d
<1>2. Held(d) = Held(b) /\ Known(d) = Known(b)
  BY <1>1 DEF Held, Known
<1>3. Calm(d, a, k)
  BY <1>1, <1>2 DEF Calm, Settled
<1> QED
  BY <1>3 DEF d

LEMMA CalmCleared ==
    ASSUME NEW b, Sound(b, copies), NEW a, NEW k, Calm(b, a, k)
    PROVE  Calm(Cleared(b), a, k)
<1> DEFINE d == Cleared(b)
<1>1. /\ d.carried = b.carried
      /\ d.pending = {c \in b.pending : IsWake(copies, c)}
      /\ d.claimed = b.claimed /\ d.blocked = b.blocked
      /\ d.receipts = b.receipts /\ d.acked = b.acked
  BY ClearedFields
<1> HIDE DEF d
<1>2. /\ Held(d) \subseteq Held(b) /\ Known(d) = Known(b)
      /\ \A c \in Held(b) : IsWake(copies, c) => c \in Held(d)
  BY <1>1 DEF Held, Known
<1>3. Settled(k, b, a.box) => Settled(k, d, a.box)
  BY <1>1, <1>2 DEF Settled
<1>4. Calm(d, a, k)
  BY <1>1, <1>2, <1>3 DEF Calm
<1> QED
  BY <1>4 DEF d

-----------------------------------------------------------------------------
(* The steps.                                                              *)

\* A step that makes no copy.
LEMMA StaysSound ==
    ASSUME InboxSound, UNCHANGED <<copies, arrived>>,
           Sound(inbox', copies), ~inbox'.loaded => inbox'.pending = {},
           SessionOK(agent', copies), readByTool' \subseteq Message, shown' \subseteq Message,
           lastTaken' \in 0..Len(copies), loads' \in 1..MaxLoads,
           dropped' \subseteq 1..Len(copies)
    PROVE  InboxSound'
<1>1. Sound(inbox', copies') /\ SessionOK(agent', copies')
  OBVIOUS
<1>2. CopiesOK(copies', arrived')
  BY DEF InboxSound
<1> QED
  BY <1>1, <1>2 DEF InboxSound

LEMMA StaysCalm ==
    ASSUME UNCHANGED <<copies, dropped>>, Calm(inbox', agent', lastTaken')
    PROVE  InboxCalm'
<1>1. Calm(inbox, agent, lastTaken)'
  BY DEF Calm, Settled, Held, IsWake, Known, Fingerprint
<1> QED
  BY <1>1 DEF InboxCalm

\* enqueue() puts a copy in.
LEMMA SendsSoundly ==
    ASSUME InboxSound, NEW b, Sound(b, copies), b.carried = {}, b.loaded, b.wake = NoCopy,
           agent.status # "gone", NEW method \in Wakes, Sends(method, b),
           UNCHANGED <<Messages, loads, Histories>>
    PROVE  /\ InboxSound'
           /\ Calm(b, agent, lastTaken) => InboxCalm'
<1> DEFINE m == BatchFor(b, method)
           c == Len(copies) + 1
<1>0. UNCHANGED <<arrived, readByTool, loads, shown, lastTaken, dropped>>
  BY DEF Messages, Histories
<1>1. /\ Len(copies) < MaxCopies /\ m # {}
      /\ copies' = Append(copies, [messages |-> m, method |-> method])
      /\ inbox' = [b EXCEPT !.pending = @ \cup {c}, !.wake = c]
      /\ agent' = [agent EXCEPT !.box = @ \cup {c}]
  BY DEF Sends
<1>2. /\ CopiesOK(copies, arrived) /\ SessionOK(agent, copies)
      /\ arrived \in Nat /\ Len(copies) \in Nat
  BY DEF InboxSound, CopiesOK
<1>3. m \subseteq 1..arrived
  BY <1>2, BatchIsUnread
<1>4. method \in Methods
  BY DEF Methods, Wakes
<1> HIDE DEF m
<1>5. /\ CopiesOK(copies', arrived) /\ Len(copies') = c
      /\ copies'[c].method = method
      /\ \A k \in 1..Len(copies) : copies'[k] = copies[k]
  BY <1>1, <1>2, <1>3, <1>4, CopyAppended
<1>6. IsWake(copies', c)
  BY <1>5 DEF IsWake
<1>7. /\ Sound(inbox', copies')
      /\ inbox'.loaded /\ inbox'.carried = {}
      /\ inbox'.pending = b.pending \cup {c} /\ inbox'.wake = c
      /\ inbox'.claimed = b.claimed /\ inbox'.blocked = b.blocked
      /\ inbox'.receipts = b.receipts /\ inbox'.acked = b.acked
  BY <1>1, <1>2, <1>5, <1>6, CopyHeld
<1>8. /\ agent' \in Session /\ agent'.box = agent.box \cup {c} /\ agent'.status = agent.status
      /\ agent'.proposed = agent.proposed /\ agent'.entering = agent.entering
      /\ agent'.phase = agent.phase /\ agent'.asked = agent.asked
  <2>1. c \in Copy /\ agent \in Session
    BY <1>1, <1>2, InboxAssumption DEF Copy, SessionOK
  <2> QED
    BY <1>1, <2>1 DEF Session
<1>9. SessionOK(agent', copies')
  BY <1>1, <1>2, <1>5, <1>8 DEF SessionOK
<1>10. InboxSound'
  BY <1>0, <1>2, <1>5, <1>7, <1>9 DEF InboxSound
<1>11. ASSUME Calm(b, agent, lastTaken) PROVE Calm(inbox, agent, lastTaken)'
  <2>1. Held(inbox)' = Held(b) \cup {c} /\ Held(b) \subseteq 1..Len(copies)
    BY <1>7 DEF Held, Sound
  <2>2. \A k \in 1..Len(copies) : IsWake(copies', k) = IsWake(copies, k) /\ Fingerprint(k)' = Fingerprint(k)
    BY <1>5 DEF IsWake, Fingerprint
  <2>3. Known(inbox)' = Known(b)
    BY <1>5, <1>7 DEF Known, Sound
  <2>4. ASSUME lastTaken \notin dropped \cup {NoCopy}
        PROVE  Settled(lastTaken, inbox, agent.box)'
    <3>1. lastTaken \in 1..Len(copies)
      BY <1>2, <2>4 DEF InboxSound, NoCopy
    <3>2. ~(Held(b) = {lastTaken} /\ IsWake(copies, lastTaken))
      BY <2>4 DEF Sound, Held
    <3>3. /\ Held(b) \subseteq agent.box
          /\ b.blocked = Fingerprint(lastTaken) \/ copies[lastTaken].messages \subseteq Known(b)
      BY <1>11, <2>4, <3>2 DEF Calm, Settled
    <3>4. copies'[lastTaken] = copies[lastTaken] /\ Fingerprint(lastTaken)' = Fingerprint(lastTaken)
      BY <1>0, <1>5, <3>1 DEF Fingerprint
    <3>5. (Held(inbox) \subseteq agent.box)'
      BY <1>8, <2>1, <3>3
    <3>6. inbox'.blocked = Fingerprint(lastTaken)' \/ copies'[lastTaken].messages \subseteq Known(inbox)'
      BY <1>7, <2>3, <3>3, <3>4
    <3> QED
      BY <1>0, <3>5, <3>6 DEF Settled
  <2>5. \A k \in agent'.box : k \in Held(inbox)' \cup dropped /\ IsWake(copies', k)
    BY <1>2, <1>6, <1>8, <1>11, <2>1, <2>2 DEF Calm, SessionOK
  <2>6. agent'.box \cap (inbox'.claimed \cup agent'.proposed \cup agent'.entering) = {}
    BY <1>2, <1>7, <1>8, <1>11 DEF Calm, Sound, SessionOK
  <2>7. (\A k \in agent.box : k \in Held(inbox) \cup dropped /\ IsWake(copies, k))'
    BY <1>0, <2>5 DEF IsWake
  <2>8. agent'.status # "gone"
    BY <1>8
  <2>9. lastTaken' \notin dropped' \cup {NoCopy} => Settled(lastTaken, inbox, agent.box)'
    BY <1>0, <2>4
  <2> QED
    BY <2>6, <2>7, <2>8, <2>9 DEF Calm
<1> QED
  BY <1>10, <1>11 DEF InboxCalm

\* A step of the loaded plugin that makes no copy.
LEMMA PluginMoves ==
    ASSUME InboxSound, NEW d, Sound(d, copies), d.loaded, inbox' = d,
           UNCHANGED <<Messages, copies, loads, dropped>>, SessionOK(agent', copies),
           shown' \subseteq Message, lastTaken' \in 0..Len(copies)
    PROVE  /\ InboxSound'
           /\ Calm(d, agent', lastTaken') => InboxCalm'
<1>1. UNCHANGED <<arrived, readByTool, copies, loads, dropped>> /\ inbox'.loaded
  BY DEF Messages
<1>2. InboxSound'
  BY <1>1, StaysSound DEF InboxSound
<1> QED
  BY <1>1, <1>2, StaysCalm

LEMMA CalmOther ==
    ASSUME NEW b, NEW a, NEW k, Calm(b, a, k), NEW e, e.box = a.box,
           e.proposed \cup e.entering \subseteq a.proposed \cup a.entering,
           (e.status = "gone") = (a.status = "gone")
    PROVE  Calm(b, e, k)
  BY DEF Calm

LEMMA StepDoneFields ==
    ASSUME NEW a \in Session
    PROVE  LET e == StepDone(a)
           IN  /\ e \in Session /\ e.box = a.box /\ e.status = a.status /\ e.human = a.human
               /\ e.phase = "none" /\ e.proposed = {} /\ e.entering = {}
<1> 0 \in 0..MaxLoads
  BY InboxAssumption
<1> QED
  BY DEF StepDone, Session

LEMMA EnteredFields ==
    ASSUME agent \in Session, NEW kept, kept \subseteq Copy
    PROVE  LET e == Entered(kept)
           IN  /\ e \in Session /\ e.box = agent.box /\ e.status = agent.status
               /\ e.phase = "entering" /\ e.proposed = agent.proposed /\ e.entering = kept
<1> 0 \in 0..MaxLoads
  BY InboxAssumption
<1> QED
  BY DEF Entered, Session

LEMMA EnqueuesSoundly ==
    ASSUME InboxSound, NEW b, Sound(b, copies), b.carried = {}, b.loaded,
           agent.status # "gone", NEW method \in Wakes, Enqueues(method, b),
           UNCHANGED <<Messages, loads, Histories>>
    PROVE  /\ InboxSound'
           /\ Calm(b, agent, lastTaken) => InboxCalm'
<1> DEFINE c == Cleared(b)
           d == Acked(c)
<1>0. CopiesOK(copies, arrived) /\ SessionOK(agent, copies)
      /\ shown \subseteq Message /\ lastTaken \in 0..Len(copies)
  BY DEF InboxSound
<1>1. Sound(c, copies) /\ c.loaded /\ c.carried = {} /\ c.wake = b.wake
  BY ClearedFields
<1>2. Calm(b, agent, lastTaken) => Calm(c, agent, lastTaken)
  BY CalmCleared
<1> HIDE DEF c
<1>3. Sound(d, copies) /\ d.loaded /\ d.carried = {} /\ d.wake = b.wake
  BY <1>0, <1>1, AckedFields
<1>4. Calm(c, agent, lastTaken) => Calm(d, agent, lastTaken)
  BY <1>0, <1>1, CalmAcked
<1> HIDE DEF d
<1>5. ASSUME UNCHANGED <<copies, agent>>, inbox' \in {b, c, d}
      PROVE  /\ InboxSound'
             /\ Calm(b, agent, lastTaken) => InboxCalm'
  <2>1. Sound(inbox', copies) /\ inbox'.loaded
    BY <1>1, <1>3, <1>5
  <2>2. SessionOK(agent', copies) /\ shown' \subseteq Message /\ lastTaken' \in 0..Len(copies)
    BY <1>0, <1>5 DEF Histories
  <2>3. Calm(b, agent, lastTaken) => Calm(inbox', agent', lastTaken')
    BY <1>2, <1>4, <1>5 DEF Histories
  <2> QED
    BY <1>5, <2>1, <2>2, <2>3, PluginMoves DEF Histories
<1>6. CASE b.wake = NoCopy /\ Sends(method, d)
  BY <1>2, <1>3, <1>4, <1>6, SendsSoundly
<1>7. \/ UNCHANGED <<copies, agent>> /\ inbox' \in {b, c, d}
      \/ b.wake = NoCopy /\ Sends(method, d)
  BY DEF Enqueues, c, d
<1> QED
  BY <1>5, <1>6, <1>7

\* What a handler starts from: the plugin has adopted, and perhaps acknowledged.
LEMMA AdoptsSoundly ==
    ASSUME InboxSound, NEW a
    PROVE  LET b == Adopted(inbox, a)
               d == Acked(b)
           IN  /\ Sound(b, copies) /\ b.carried = {} /\ b.loaded = inbox.loaded
               /\ Sound(d, copies) /\ d.carried = {} /\ d.loaded = inbox.loaded
               /\ b.pending \subseteq Held(inbox) /\ b.claimed \subseteq inbox.claimed
               /\ d.pending = b.pending /\ d.wake = b.wake /\ d.claimed = b.claimed
               /\ Calm(inbox, a, lastTaken) => Calm(b, a, lastTaken) /\ Calm(d, a, lastTaken)
<1> DEFINE b == Adopted(inbox, a)
           d == Acked(b)
<1>0. CopiesOK(copies, arrived) /\ Sound(inbox, copies) /\ lastTaken \in 0..Len(copies)
  BY DEF InboxSound
<1>1. /\ Sound(b, copies) /\ b.carried = {} /\ b.loaded = inbox.loaded
      /\ b.pending \subseteq Held(inbox) /\ b.claimed \subseteq inbox.claimed
  BY <1>0, AdoptedFields
<1>2. Calm(inbox, a, lastTaken) => Calm(b, a, lastTaken)
  BY <1>0, CalmAdopted
<1> HIDE DEF b
<1>3. /\ Sound(d, copies) /\ d.carried = b.carried /\ d.loaded = b.loaded
      /\ d.pending = b.pending /\ d.wake = b.wake /\ d.claimed = b.claimed
  BY <1>0, <1>1, AckedFields
<1>4. Calm(b, a, lastTaken) => Calm(d, a, lastTaken)
  BY <1>0, <1>1, CalmAcked
<1> HIDE DEF d
<1> QED
  BY <1>1, <1>2, <1>3, <1>4 DEF b, d

LEMMA PollSteps ==
    ASSUME InboxSound, Poll
    PROVE  InboxSound' /\ (InboxCalm => InboxCalm')
<1> DEFINE b == Adopted(inbox, agent)
           d == Acked(b)
<1>1. /\ Sound(b, copies) /\ b.carried = {} /\ b.loaded
      /\ Sound(d, copies) /\ d.carried = {} /\ d.loaded
      /\ Calm(inbox, agent, lastTaken) => Calm(b, agent, lastTaken) /\ Calm(d, agent, lastTaken)
  BY AdoptsSoundly DEF Poll
<1>2. /\ \/ inbox' \in {b, d} /\ UNCHANGED <<copies, agent>>
         \/ Enqueues("followup", d)
      /\ UNCHANGED <<Messages, loads, Histories>> /\ agent.status # "gone"
  BY DEF Poll
<1> HIDE DEF b, d
<1>3. CASE inbox' \in {b, d} /\ UNCHANGED <<copies, agent>>
  <2>1. Sound(inbox', copies) /\ inbox'.loaded
    BY <1>1, <1>3
  <2>2. SessionOK(agent', copies) /\ shown' \subseteq Message /\ lastTaken' \in 0..Len(copies)
    BY <1>2, <1>3 DEF Histories, InboxSound
  <2>3. InboxCalm => Calm(inbox', agent', lastTaken')
    BY <1>1, <1>2, <1>3, <2>1 DEF Histories, InboxCalm
  <2> QED
    BY <1>2, <1>3, <2>1, <2>2, <2>3, PluginMoves DEF Histories
<1>4. CASE Enqueues("followup", d)
  BY <1>1, <1>2, <1>4, EnqueuesSoundly DEF Wakes, InboxCalm
<1> QED
  BY <1>2, <1>3, <1>4

LEMMA SteerSteps ==
    ASSUME InboxSound, Steer
    PROVE  InboxSound' /\ (InboxCalm => InboxCalm')
<1> DEFINE b == Adopted(inbox, agent)
<1>1. /\ Sound(b, copies) /\ b.carried = {} /\ b.loaded
      /\ Calm(inbox, agent, lastTaken) => Calm(b, agent, lastTaken)
  BY AdoptsSoundly DEF Steer
<1>2. Enqueues("steer", b) /\ UNCHANGED <<Messages, loads, Histories>> /\ agent.status # "gone"
  BY DEF Steer
<1> HIDE DEF b
<1> QED
  BY <1>1, <1>2, EnqueuesSoundly DEF Wakes, InboxCalm

\* If it was alone, a wake that leaves the inbox is all the plugin holds, or the
\* plugin no longer knows of it.
LEMMA AloneIsCalm ==
    ASSUME InboxSound, InboxCalm, NEW S, S \subseteq agent.box, NEW c \in S,
           NEW a, a.box = agent.box \ S,
           a.box \cap (inbox.claimed \cup a.proposed \cup a.entering) = {},
           a.status # "gone"
    PROVE  Calm(inbox, a, Alone(c))
<1>1. c \in Held(inbox) \cup dropped /\ IsWake(copies, c) /\ c \notin a.box
  BY DEF InboxCalm, Calm
<1>2. CASE Held(inbox) = {c}
  <2>1. Alone(c) = c
    BY <1>2 DEF Alone, Held
  <2> QED
    BY <1>1, <1>2, <2>1 DEF InboxCalm, Calm, Settled
<1>3. CASE c \in dropped
  <2>1. Alone(c) \in dropped \cup {NoCopy}
    BY <1>3 DEF Alone
  <2> QED
    BY <2>1 DEF InboxCalm, Calm
<1>4. CASE Held(inbox) # {c} /\ c \notin dropped
  <2>1. Alone(c) = NoCopy
    BY <1>1, <1>4 DEF Alone, Held
  <2> QED
    BY <2>1 DEF InboxCalm, Calm
<1> QED
  BY <1>2, <1>3, <1>4

LEMMA TakesSteps ==
    ASSUME InboxSound, NEW take \in SUBSET agent.box, Takes(take), agent.status # "gone",
           agent.phase = "none" \/ agent.status = "idle"
    PROVE  InboxSound' /\ (InboxCalm => InboxCalm')
<1> DEFINE a == [agent EXCEPT !.status = "running", !.box = @ \ take, !.human = FALSE,
                              !.phase = "claimed", !.proposed = take]
           b == Adopted(inbox, a)
           k == b.claimed \cup (take \cap b.pending)
           d == [b EXCEPT !.claimed = k]
           l == IF take # {} THEN Alone(NewestOf(take))
                ELSE IF agent.human THEN NoCopy ELSE lastTaken
<1>1. /\ agent' = a /\ lastTaken' = l
      /\ UNCHANGED <<Messages, copies, loads, shown, dropped>>
      /\ inbox' = (IF inbox.loaded /\ (take # {} \/ agent.human) THEN d ELSE inbox)
  BY DEF Takes
<1>2. /\ a.box = agent.box \ take /\ a.status = "running" /\ a.phase = "claimed"
      /\ a.proposed = take /\ a.entering = agent.entering /\ a \in Session
      /\ SessionOK(a, copies)
  BY DEF InboxSound, SessionOK, Session
<1> HIDE DEF a
<1>3. CopiesOK(copies, arrived) /\ Sound(inbox, copies) /\ lastTaken \in 0..Len(copies)
      /\ shown \subseteq Message /\ Len(copies) \in Nat /\ take \in SUBSET (1..Len(copies))
  BY DEF InboxSound, CopiesOK, SessionOK
<1>4. /\ Sound(b, copies) /\ b.loaded = inbox.loaded
      /\ b.pending \subseteq Held(inbox) /\ b.claimed \subseteq inbox.claimed
  BY AdoptsSoundly
<1>5. l \in 0..Len(copies)
  <2>1. ASSUME take # {} PROVE NewestOf(take) \in 1..Len(copies)
    <3>1. NewestOf(take) \in take
      BY <1>3, <2>1, NewestIsThere
    <3> QED
      BY <1>3, <3>1
  <2> QED
    BY <1>3, <2>1 DEF Alone, NoCopy
<1>6. ASSUME InboxCalm PROVE Calm(inbox, a, l)
  <2>1. a.box \cap (inbox.claimed \cup a.proposed \cup a.entering) = {}
    BY <1>2, <1>6 DEF InboxCalm, Calm
  <2>2. CASE take # {}
    <3>1. NewestOf(take) \in take
      BY <1>3, <2>2, NewestIsThere
    <3>2. Calm(inbox, a, Alone(NewestOf(take)))
      BY <1>2, <1>6, <2>1, <3>1, AloneIsCalm
    <3> QED
      BY <2>2, <3>2
  <2>3. CASE take = {} /\ agent.human
    BY <1>2, <1>6, <2>1, <2>3 DEF InboxCalm, Calm
  <2>4. CASE take = {} /\ ~agent.human
    BY <1>2, <1>6, <2>1, <2>4 DEF InboxCalm, Calm
  <2> QED
    BY <2>2, <2>3, <2>4
<1>7. ASSUME InboxCalm PROVE Calm(b, a, l)
  BY <1>3, <1>5, <1>6, <1>7, CalmAdopted
<1>8. k \subseteq 1..Len(copies) /\ k \subseteq Copy
  BY <1>3, <1>4 DEF Sound, Plugin
<1> HIDE DEF b, l
<1>9. k \cap a.box = {} \/ ~Calm(b, a, l)
  BY <1>2 DEF Calm
<1> HIDE DEF k
<1>10. /\ d \in Plugin /\ d.loaded = inbox.loaded /\ d.claimed = k
       /\ d.pending = b.pending /\ d.carried = b.carried /\ d.wake = b.wake
       /\ d.receipts = b.receipts /\ d.acked = b.acked /\ d.blocked = b.blocked
  BY <1>4, <1>8 DEF Sound, Plugin
<1> HIDE DEF d
<1>11. Sound(d, copies)
  BY <1>4, <1>8, <1>10 DEF Sound, Held
<1>12. InboxCalm => Calm(d, a, l)
  BY <1>7, <1>9, <1>10 DEF Calm, Settled, Held, Known
<1>13. Sound(inbox', copies) /\ inbox'.loaded = inbox.loaded
       /\ (~inbox'.loaded => inbox'.pending = {})
  BY <1>1, <1>3, <1>10, <1>11 DEF InboxSound
<1>14. InboxSound'
  BY <1>1, <1>2, <1>3, <1>5, <1>13, StaysSound DEF InboxSound, Messages
<1>15. InboxCalm => Calm(inbox', agent', lastTaken')
  BY <1>1, <1>6, <1>12
<1> QED
  BY <1>1, <1>14, <1>15, StaysCalm

\* The plugin is left as it is, or adopts; the Agent's inbox stays.
LEMMA HooksStep ==
    ASSUME InboxSound, AskHooks \/ EndStep \/ UserTypes \/ \E m \in Message : ReadWithTool(m)
    PROVE  InboxSound' /\ (InboxCalm => InboxCalm')
<1>1. UNCHANGED <<arrived, copies, inbox, loads, shown, lastTaken, dropped>>
  BY DEF AskHooks, EndStep, UserTypes, ReadWithTool, Messages, Histories
<1>2. readByTool' \subseteq Message
  BY DEF InboxSound, AskHooks, EndStep, UserTypes, ReadWithTool, Messages, Histories
<1>3. /\ SessionOK(agent', copies) /\ agent'.box = agent.box
      /\ agent'.proposed \cup agent'.entering \subseteq agent.proposed \cup agent.entering
      /\ agent'.status = agent.status
  <2>1. SessionOK(agent, copies) /\ agent \in Session /\ loads \in 0..MaxLoads
    BY InboxAssumption DEF InboxSound, SessionOK
  <2>2. CASE AskHooks
    BY <2>1, <2>2 DEF AskHooks, SessionOK, Session
  <2>3. CASE EndStep
    BY <2>1, <2>3, StepDoneFields DEF EndStep, SessionOK
  <2>4. CASE UserTypes
    BY <2>1, <2>4 DEF UserTypes, SessionOK, Session
  <2>5. CASE \E m \in Message : ReadWithTool(m)
    BY <2>1, <2>5 DEF ReadWithTool
  <2> QED
    BY <2>2, <2>3, <2>4, <2>5
<1>4. InboxSound'
  BY <1>1, <1>2, <1>3, StaysSound DEF InboxSound
<1>5. ASSUME InboxCalm PROVE InboxCalm'
  <2>1. Calm(inbox, agent', lastTaken)
    BY <1>3, <1>5, CalmOther DEF InboxCalm
  <2> QED
    BY <1>1, <2>1, StaysCalm
<1> QED
  BY <1>4, <1>5

\* step() refuses, or keeps or drops our wake.
LEMMA WakeSteps ==
    ASSUME InboxSound, StepRefused \/ \E kept \in SUBSET agent.proposed : StepWithWake(kept)
    PROVE  InboxSound' /\ (InboxCalm => InboxCalm')
<1> DEFINE b == Adopted(inbox, agent)
           d == Acked(b)
           S == {b.wake} \cap agent.proposed
<1>1. PICK kept \in SUBSET agent.proposed : StepRefused \/ StepWithWake(kept)
  OBVIOUS
<1>2. /\ inbox.loaded /\ UNCHANGED <<Messages, copies, loads, Histories>>
      /\ inbox' \in {b, d, BlockedFor(b, S), BlockedFor(d, S)}
      /\ agent' \in {StepDone(agent), Entered(kept)}
  <2>1. CASE StepRefused
    BY <2>1 DEF StepRefused, AskedByThis
  <2>2. CASE StepWithWake(kept)
    <3>1. b.wake \in agent.proposed => S = {b.wake}
      OBVIOUS
    <3> QED
      BY <2>2, <3>1 DEF StepWithWake, AskedByThis
  <2> QED
    BY <1>1, <2>1, <2>2
<1>3. /\ Sound(b, copies) /\ b.loaded /\ Sound(d, copies) /\ d.loaded
      /\ d.pending = b.pending /\ d.wake = b.wake
      /\ Calm(inbox, agent, lastTaken) => Calm(b, agent, lastTaken) /\ Calm(d, agent, lastTaken)
  BY <1>2, AdoptsSoundly
<1>4. /\ CopiesOK(copies, arrived) /\ SessionOK(agent, copies) /\ agent \in Session
      /\ shown \subseteq Message /\ lastTaken \in 0..Len(copies)
  BY DEF InboxSound, SessionOK
<1>5. S \subseteq b.pending /\ S \subseteq 1..Len(copies)
  BY <1>3, <1>4 DEF Sound, Held, SessionOK, NoCopy
<1>6. Calm(b, agent, lastTaken) => S \cap agent.box = {}
  BY DEF Calm
<1> HIDE DEF b, S
<1>7. /\ Sound(BlockedFor(b, S), copies) /\ BlockedFor(b, S).loaded
      /\ Calm(b, agent, lastTaken) => Calm(BlockedFor(b, S), agent, lastTaken)
  BY <1>3, <1>4, <1>5, <1>6, BlockedSound, BlockedFields, CalmBlocked
<1> HIDE DEF d
<1>8. /\ Sound(BlockedFor(d, S), copies) /\ BlockedFor(d, S).loaded
      /\ Calm(b, agent, lastTaken) /\ Calm(d, agent, lastTaken)
         => Calm(BlockedFor(d, S), agent, lastTaken)
  BY <1>3, <1>4, <1>5, <1>6, BlockedSound, BlockedFields, CalmBlocked
<1>9. /\ Sound(inbox', copies) /\ inbox'.loaded
      /\ Calm(inbox, agent, lastTaken) => Calm(inbox', agent, lastTaken)
  BY <1>2, <1>3, <1>7, <1>8
<1>10. /\ agent' \in Session /\ agent'.box = agent.box /\ agent'.status = agent.status
       /\ agent'.phase # "asking"
       /\ agent'.proposed \cup agent'.entering \subseteq agent.proposed \cup agent.entering
  <2>1. kept \subseteq Copy
    BY <1>4 DEF Session
  <2> QED
    BY <1>2, <1>4, <2>1, StepDoneFields, EnteredFields
<1>11. SessionOK(agent', copies)
  BY <1>4, <1>10 DEF SessionOK
<1>12. InboxCalm => Calm(inbox', agent', lastTaken')
  BY <1>2, <1>9, <1>10, CalmOther DEF InboxCalm, Histories
<1> QED
  BY <1>2, <1>4, <1>9, <1>11, <1>12, PluginMoves DEF Histories

\* step() puts in what is unread as context.
LEMMA ContextSteps ==
    ASSUME InboxSound, NEW kept \in SUBSET agent.proposed, StepWithContext(kept)
    PROVE  InboxSound' /\ (InboxCalm => InboxCalm')
<1> DEFINE b == Adopted(inbox, agent)
           d == Acked(b)
           f == Cleared(d)
           c == Len(copies) + 1
           m == BatchFor(d, "context")
<1>1. /\ inbox.loaded /\ UNCHANGED <<Messages, loads, shown, dropped>>
      /\ \/ /\ inbox' \in {b, f} /\ UNCHANGED <<copies, lastTaken>>
            /\ agent' \in {StepDone(agent), Entered(kept)}
         \/ /\ m # {} /\ c <= MaxCopies
            /\ copies' = Append(copies, [messages |-> m, method |-> "context"])
            /\ inbox' = [f EXCEPT !.pending = @ \cup {c}]
            /\ agent' = Entered(kept \cup {c}) /\ lastTaken' = NoCopy
  BY DEF StepWithContext, AskedByThis
<1>2. /\ Sound(b, copies) /\ b.loaded /\ Sound(d, copies) /\ d.loaded /\ d.carried = {}
      /\ Calm(inbox, agent, lastTaken) => Calm(b, agent, lastTaken) /\ Calm(d, agent, lastTaken)
  BY <1>1, AdoptsSoundly
<1>3. /\ CopiesOK(copies, arrived) /\ SessionOK(agent, copies) /\ agent \in Session
      /\ shown \subseteq Message /\ lastTaken \in 0..Len(copies) /\ Len(copies) \in Nat
      /\ arrived \in Nat /\ kept \subseteq Copy /\ kept \subseteq 1..Len(copies)
  BY DEF InboxSound, SessionOK, CopiesOK, Session
<1>4. agent \in Session /\ kept \subseteq Copy
  BY <1>3
<1>5. "context" \in Methods
  BY DEF Methods
<1>6. m \subseteq 1..arrived
  BY <1>3, BatchIsUnread
<1> HIDE DEF b, d, m
<1>7. /\ Sound(f, copies) /\ f.loaded /\ f.carried = {}
      /\ Calm(d, agent, lastTaken) => Calm(f, agent, lastTaken)
  BY <1>2, ClearedFields, CalmCleared
<1> HIDE DEF f
<1>8. CASE /\ inbox' \in {b, f} /\ UNCHANGED <<copies, lastTaken>>
           /\ agent' \in {StepDone(agent), Entered(kept)}
  <2>1. /\ Sound(inbox', copies) /\ inbox'.loaded
        /\ Calm(inbox, agent, lastTaken) => Calm(inbox', agent, lastTaken)
    BY <1>2, <1>7, <1>8
  <2>2. /\ agent' \in Session /\ agent'.box = agent.box /\ agent'.status = agent.status
        /\ agent'.phase # "asking"
        /\ agent'.proposed \cup agent'.entering \subseteq agent.proposed \cup agent.entering
    BY <1>4, <1>8, StepDoneFields, EnteredFields
  <2>3. SessionOK(agent', copies)
    BY <1>3, <2>2 DEF SessionOK
  <2>4. InboxCalm => Calm(inbox', agent', lastTaken')
    BY <1>8, <2>1, <2>2, CalmOther DEF InboxCalm
  <2> QED
    BY <1>1, <1>3, <1>8, <2>1, <2>3, <2>4, PluginMoves
<1>9. CASE /\ m # {} /\ c <= MaxCopies
           /\ copies' = Append(copies, [messages |-> m, method |-> "context"])
           /\ inbox' = [f EXCEPT !.pending = @ \cup {c}]
           /\ agent' = Entered(kept \cup {c}) /\ lastTaken' = NoCopy
  <2>1. /\ CopiesOK(copies', arrived) /\ Len(copies') = c /\ copies'[c].method = "context"
        /\ \A k \in 1..Len(copies) : copies'[k] = copies[k]
    BY <1>5, <1>3, <1>6, <1>9, InboxAssumption, CopyAppended
  <2>2. ~IsWake(copies', c)
    BY <2>1 DEF IsWake, Wakes
  <2>3. inbox' = [f EXCEPT !.pending = @ \cup {c}, !.wake = f.wake]
    BY <1>7, <1>9 DEF Sound, Plugin
  <2>4. /\ Sound(inbox', copies') /\ inbox'.loaded /\ inbox'.carried = {}
        /\ inbox'.pending = f.pending \cup {c} /\ inbox'.claimed = f.claimed
    BY <1>3, <1>7, <2>1, <2>2, <2>3, CopyHeld
  <2>5. c \in Copy /\ kept \cup {c} \subseteq Copy
    BY <1>3, <1>9, InboxAssumption DEF Copy
  <2>6. /\ agent' \in Session /\ agent'.box = agent.box /\ agent'.status = agent.status
        /\ agent'.phase = "entering" /\ agent'.proposed = agent.proposed
        /\ agent'.entering = kept \cup {c}
    <3> DEFINE n == kept \cup {c}
    <3>1. n \subseteq Copy /\ agent' = Entered(n)
      BY <1>9, <2>5
    <3> HIDE DEF n
    <3>2. /\ agent' \in Session /\ agent'.box = agent.box /\ agent'.status = agent.status
          /\ agent'.phase = "entering" /\ agent'.proposed = agent.proposed
          /\ agent'.entering = n
      BY <1>4, <3>1, EnteredFields
    <3> QED
      BY <3>2 DEF n
  <2>7. SessionOK(agent', copies')
    <3>1. 1..Len(copies') = 1..Len(copies) \cup {c}
      BY <1>3, <2>1
    <3>2. agent.box \cup agent.proposed \subseteq 1..Len(copies)
      BY <1>3 DEF SessionOK
    <3> QED
      BY <1>3, <2>6, <3>1, <3>2 DEF SessionOK
  <2>8. InboxSound'
    BY <1>1, <1>3, <1>9, <2>1, <2>4, <2>7 DEF InboxSound, Messages, NoCopy
  <2>9. ASSUME InboxCalm PROVE InboxCalm'
    <3>1. Calm(f, agent, lastTaken) /\ agent.box \subseteq 1..Len(copies)
      BY <1>2, <1>3, <1>7, <2>9 DEF InboxCalm, SessionOK
    <3>2. \A k \in agent'.box : k \in Held(inbox') \cup dropped /\ IsWake(copies', k)
      BY <1>7, <2>1, <2>4, <2>6, <3>1 DEF Calm, Held, IsWake
    <3>3. agent'.box \cap (inbox'.claimed \cup agent'.proposed \cup agent'.entering) = {}
      BY <1>3, <2>4, <2>6, <3>1 DEF Calm
    <3>4. agent'.status = "gone" => agent'.box = {}
      BY <2>6, <3>1 DEF Calm
    <3>5. Calm(inbox, agent, lastTaken)'
      <4>1. (\A k \in agent.box : k \in Held(inbox) \cup dropped /\ IsWake(copies, k))'
        BY <1>1, <3>2 DEF Held, IsWake
      <4> QED
        BY <1>9, <3>3, <3>4, <4>1 DEF Calm
    <3> QED
      BY <3>5 DEF InboxCalm
  <2> QED
    BY <2>8, <2>9
<1> QED
  BY <1>1, <1>8, <1>9

LEMMA CommitSteps ==
    ASSUME InboxSound, NEW c \in agent.entering, NEW whole \in BOOLEAN, CommitCopy(c, whole)
    PROVE  InboxSound' /\ (InboxCalm => InboxCalm')
<1> DEFINE b == IF c \in inbox.pending THEN inbox ELSE Adopted(inbox, agent)
           w == IF b.wake = c THEN NoCopy ELSE b.wake
           r == [b EXCEPT !.pending = @ \ {c}, !.claimed = @ \ {c}, !.wake = w,
                          !.blocked = NoFingerprint, !.receipts = @ \cup {c}]
           d == Acked(r)
<1>1. /\ UNCHANGED <<arrived, readByTool, copies, loads, lastTaken, dropped>>
      /\ agent' = [agent EXCEPT !.entering = @ \ {c}]
      /\ shown' = IF whole THEN shown \cup copies[c].messages ELSE shown
      /\ \/ inbox' = inbox
         \/ inbox.loaded /\ inbox' = b
         \/ inbox.loaded /\ c \in b.pending /\ inbox' \in {r, d}
  <2>1. Committed(c, whole) =
          IF ~inbox.loaded THEN {inbox}
          ELSE IF SameContents(b, c, whole) THEN {r, Acked(r)} ELSE {b}
    BY DEF Committed
  <2>2. /\ inbox' \in Committed(c, whole)
        /\ UNCHANGED <<Messages, copies, loads, lastTaken, dropped>>
        /\ agent' = [agent EXCEPT !.entering = @ \ {c}]
        /\ shown' = IF whole THEN shown \cup copies[c].messages ELSE shown
    BY DEF CommitCopy
  <2> HIDE DEF b, r
  <2> QED
    BY <2>1, <2>2 DEF SameContents, Messages
<1>2. /\ CopiesOK(copies, arrived) /\ Sound(inbox, copies) /\ lastTaken \in 0..Len(copies)
      /\ SessionOK(agent, copies) /\ agent \in Session /\ c \in 1..Len(copies) /\ c \in Copy
      /\ shown \subseteq Message /\ Len(copies) \in Nat
  BY DEF InboxSound, SessionOK, Session, CopiesOK
<1>3. /\ agent' \in Session /\ agent'.box = agent.box /\ agent'.status = agent.status
      /\ agent'.phase = agent.phase /\ agent'.asked = agent.asked
      /\ agent'.proposed = agent.proposed /\ agent'.entering \subseteq agent.entering
      /\ SessionOK(agent', copies)
  <2>1. /\ agent' \in Session /\ agent'.box = agent.box /\ agent'.status = agent.status
        /\ agent'.phase = agent.phase /\ agent'.asked = agent.asked
        /\ agent'.proposed = agent.proposed /\ agent'.entering \subseteq agent.entering
    BY <1>1, <1>2 DEF Session
  <2> QED
    BY <1>2, <2>1 DEF SessionOK
<1>4. shown' \subseteq Message
  <2>1. copies[c].messages \subseteq Message
    BY <1>2, FingerprintType
  <2> QED
    BY <1>1, <1>2, <2>1
<1>5. /\ Sound(b, copies) /\ b.loaded = inbox.loaded
      /\ Calm(inbox, agent, lastTaken) => Calm(b, agent, lastTaken)
  BY <1>2, AdoptsSoundly
<1>6. InboxCalm => c \notin agent.box
  BY DEF InboxCalm, Calm
<1> HIDE DEF b
<1>7. ASSUME c \in b.pending
      PROVE  /\ Sound(r, copies) /\ r.loaded = b.loaded
             /\ Calm(b, agent, lastTaken) /\ c \notin agent.box => Calm(r, agent, lastTaken)
  <2>1. w \in 0..MaxCopies /\ (w # NoCopy => w = b.wake /\ w # c) /\ (b.wake # c => w = b.wake)
    BY <1>5, InboxAssumption DEF Sound, Plugin, NoCopy
  <2>2. NoFingerprint \in [all : SUBSET Message, external : SUBSET Message]
    BY DEF NoFingerprint
  <2> HIDE DEF w
  <2>3. /\ r \in Plugin /\ r.loaded = b.loaded /\ r.pending = b.pending \ {c}
        /\ r.carried = b.carried /\ r.claimed = b.claimed \ {c} /\ r.wake = w
        /\ r.receipts = b.receipts \cup {c} /\ r.acked = b.acked
    BY <1>2, <1>5, <2>1, <2>2 DEF Sound, Plugin
  <2> HIDE DEF r
  <2>4. Sound(r, copies)
    BY <1>2, <1>5, <2>1, <2>3 DEF Sound, Held
  <2>5. ASSUME Calm(b, agent, lastTaken), c \notin agent.box
        PROVE  Calm(r, agent, lastTaken)
    <3>1. Held(r) = Held(b) \ {c}
      BY <1>5, <1>7, <2>3 DEF Held, Sound
    <3>2. ASSUME lastTaken \notin dropped \cup {NoCopy}, agent.status # "gone"
          PROVE  Settled(lastTaken, r, agent.box)
      <4>1. c \in Held(b)
        BY <1>7 DEF Held
      <4>2. Held(b) = {lastTaken}
        BY <2>5, <3>2, <4>1 DEF Calm, Settled
      <4>3. c = lastTaken /\ Held(r) = {}
        BY <3>1, <4>1, <4>2
      <4>4. copies[c].messages \subseteq Known(r)
        BY <2>3 DEF Known
      <4> QED
        BY <4>3, <4>4 DEF Settled
    <3> QED
      BY <2>3, <2>5, <3>1, <3>2 DEF Calm
  <2> QED
    BY <2>3, <2>4, <2>5
<1> HIDE DEF r
<1>8. ASSUME c \in b.pending
      PROVE  /\ Sound(d, copies) /\ d.loaded = b.loaded
             /\ Calm(b, agent, lastTaken) /\ c \notin agent.box => Calm(d, agent, lastTaken)
  BY <1>2, <1>7, <1>8, AckedFields, CalmAcked
<1> HIDE DEF d
<1>9. /\ Sound(inbox', copies) /\ inbox'.loaded = inbox.loaded
      /\ ~inbox'.loaded => inbox'.pending = {}
      /\ InboxCalm => Calm(inbox', agent, lastTaken)
  BY <1>1, <1>2, <1>5, <1>6, <1>7, <1>8 DEF InboxSound, InboxCalm
<1>10. InboxSound'
  BY <1>1, <1>2, <1>3, <1>4, <1>9, StaysSound DEF InboxSound
<1>11. InboxCalm => Calm(inbox', agent', lastTaken')
  BY <1>1, <1>3, <1>9, CalmOther
<1> QED
  BY <1>1, <1>10, <1>11, StaysCalm

LEMMA EndTurnSteps ==
    ASSUME InboxSound, EndTurn
    PROVE  InboxSound' /\ (InboxCalm => InboxCalm')
<1> DEFINE a == [agent EXCEPT !.status = "idle"]
           b == Adopted(inbox, a)
           S == GivenUp(b)
           d == BlockedFor(b, S)
<1>1. /\ agent' = a /\ agent.status = "running" /\ agent.phase = "none"
      /\ UNCHANGED <<Messages, copies, loads, Histories>>
      /\ inbox' = (IF inbox.loaded THEN d ELSE inbox)
  BY DEF EndTurn
<1>2. /\ CopiesOK(copies, arrived) /\ Sound(inbox, copies) /\ SessionOK(agent, copies)
      /\ shown \subseteq Message /\ lastTaken \in 0..Len(copies)
  BY DEF InboxSound
<1>3. /\ a.box = agent.box /\ a.status = "idle" /\ a.phase = "none"
      /\ a.proposed = agent.proposed /\ a.entering = agent.entering /\ SessionOK(a, copies)
  BY <1>1, <1>2 DEF SessionOK, Session
<1> HIDE DEF a
<1>4. Calm(inbox, agent, lastTaken) => Calm(inbox, a, lastTaken)
  BY <1>1, <1>3, CalmOther
<1>5. /\ Sound(b, copies) /\ b.loaded = inbox.loaded
      /\ Calm(inbox, a, lastTaken) => Calm(b, a, lastTaken)
  BY AdoptsSoundly
<1> HIDE DEF b
<1>6. S \subseteq b.pending /\ (Calm(b, a, lastTaken) => S \cap a.box = {})
  BY DEF GivenUp, Calm, IsWake
<1>7. S \in SUBSET (1..Len(copies))
  BY <1>5, <1>6 DEF Sound, Held
<1> HIDE DEF S
<1>8. /\ Sound(d, copies) /\ d.loaded = inbox.loaded
      /\ Calm(inbox, agent, lastTaken) => Calm(d, a, lastTaken)
  <2>1. Sound(d, copies)
    BY <1>2, <1>5, <1>7, BlockedSound
  <2>2. d.loaded = b.loaded
    BY <1>2, <1>5, <1>7, BlockedFields
  <2>3. Calm(b, a, lastTaken) => Calm(d, a, lastTaken)
    BY <1>2, <1>5, <1>6, CalmBlocked
  <2> QED
    BY <1>4, <1>5, <2>1, <2>2, <2>3
<1> HIDE DEF d
<1>9. InboxSound'
  BY <1>1, <1>2, <1>3, <1>8, StaysSound DEF InboxSound, Messages, Histories
<1>10. InboxCalm => InboxCalm'
  <2>1. InboxCalm => Calm(inbox', agent', lastTaken')
    BY <1>1, <1>4, <1>8 DEF InboxCalm, Histories
  <2> QED
    BY <1>1, <2>1, StaysCalm DEF Histories
<1> QED
  BY <1>9, <1>10

LEMMA DiscardSteps ==
    ASSUME InboxSound, NEW c \in agent.box, UserDiscards(c)
    PROVE  InboxSound' /\ (InboxCalm => InboxCalm')
<1> DEFINE a == [agent EXCEPT !.box = @ \ {c}]
           b == Adopted(inbox, a)
           S == {c} \cap b.pending
           d == BlockedFor(b, S)
           l == Alone(c)
<1>1. /\ agent' = a /\ lastTaken' = l
      /\ UNCHANGED <<Messages, copies, loads, shown, dropped>>
      /\ inbox' = (IF inbox.loaded THEN d ELSE inbox)
  BY DEF UserDiscards
<1>2. /\ CopiesOK(copies, arrived) /\ Sound(inbox, copies) /\ SessionOK(agent, copies)
      /\ shown \subseteq Message /\ c \in 1..Len(copies) /\ Len(copies) \in Nat
  BY DEF InboxSound, SessionOK, CopiesOK
<1>3. /\ a.box = agent.box \ {c} /\ a.status = agent.status /\ a.phase = agent.phase
      /\ a.asked = agent.asked
      /\ a.proposed = agent.proposed /\ a.entering = agent.entering /\ SessionOK(a, copies)
  BY <1>2 DEF SessionOK, Session
<1> HIDE DEF a
<1>4. l \in 0..Len(copies)
  BY <1>2 DEF Alone, NoCopy
<1>5. ASSUME InboxCalm PROVE Calm(inbox, a, l)
  <2>1. a.status # "gone" /\ a.box \cap (inbox.claimed \cup a.proposed \cup a.entering) = {}
    BY <1>3, <1>5 DEF InboxCalm, Calm
  <2> QED
    BY <1>3, <1>5, <2>1, AloneIsCalm
<1> HIDE DEF l
<1>6. Sound(b, copies) /\ b.loaded = inbox.loaded
  BY AdoptsSoundly
<1>7. InboxCalm => Calm(b, a, l)
  BY <1>2, <1>4, <1>5, CalmAdopted
<1> HIDE DEF b
<1>8. S \subseteq b.pending /\ S \cap a.box = {} /\ S \in SUBSET (1..Len(copies))
  BY <1>2, <1>3
<1> HIDE DEF S
<1>9. /\ Sound(d, copies) /\ d.loaded = inbox.loaded /\ (InboxCalm => Calm(d, a, l))
  <2>1. Sound(d, copies)
    BY <1>2, <1>6, <1>8, BlockedSound
  <2>2. d.loaded = b.loaded
    BY <1>2, <1>6, <1>8, BlockedFields
  <2>3. Calm(b, a, l) => Calm(d, a, l)
    BY <1>2, <1>4, <1>6, <1>8, CalmBlocked
  <2> QED
    BY <1>6, <1>7, <2>1, <2>2, <2>3
<1> HIDE DEF d
<1>10. Sound(inbox', copies) /\ inbox'.loaded = inbox.loaded
       /\ (~inbox'.loaded => inbox'.pending = {})
  BY <1>1, <1>2, <1>9 DEF InboxSound
<1>11. InboxSound'
  BY <1>1, <1>2, <1>3, <1>4, <1>10, StaysSound DEF InboxSound, Messages
<1>12. InboxCalm => InboxCalm'
  <2>1. InboxCalm => Calm(inbox', agent', lastTaken')
    BY <1>1, <1>5, <1>9
  <2> QED
    BY <1>1, <2>1, StaysCalm
<1> QED
  BY <1>11, <1>12

\* dispose(), createDshInbox(), forget(), and the dead plugin's last step.
LEMMA UnloadSteps ==
    ASSUME InboxSound, Unload
    PROVE  InboxSound' /\ (InboxCalm => InboxCalm')
<1>1. PICK back \in {{}, {inbox.wake} \cap agent.box} :
        /\ agent' = [agent EXCEPT !.box = @ \ back]
        /\ inbox' = [inbox EXCEPT !.loaded = FALSE, !.pending = {}, !.wake = NoCopy,
                                  !.carried = @ \cup (inbox.pending \ back)]
  BY DEF Unload
<1>2. /\ inbox \in Plugin /\ Sound(inbox, copies) /\ SessionOK(agent, copies)
      /\ agent \in Session /\ back \subseteq agent.box
      /\ UNCHANGED <<arrived, readByTool, copies, loads, shown, lastTaken, dropped>>
  BY <1>1 DEF InboxSound, Sound, SessionOK, Unload, Messages, Histories
<1>3. /\ inbox' \in Plugin /\ ~inbox'.loaded /\ inbox'.pending = {} /\ inbox'.wake = NoCopy
      /\ inbox'.carried = inbox.carried \cup (inbox.pending \ back)
      /\ inbox'.claimed = inbox.claimed /\ inbox'.blocked = inbox.blocked
      /\ inbox'.receipts = inbox.receipts /\ inbox'.acked = inbox.acked
  <2>1. NoCopy \in 0..MaxCopies
    BY InboxAssumption DEF NoCopy
  <2> QED
    BY <1>1, <1>2, <2>1 DEF Plugin
<1>4. /\ agent'.box = agent.box \ back /\ agent'.status = agent.status
      /\ agent'.phase = agent.phase /\ agent'.proposed = agent.proposed
      /\ agent'.entering = agent.entering /\ SessionOK(agent', copies)
  BY <1>1, <1>2 DEF SessionOK, Session
<1>5. Sound(inbox', copies)
  BY <1>2, <1>3 DEF Sound, Held
<1>6. InboxSound'
  BY <1>2, <1>3, <1>4, <1>5, StaysSound DEF InboxSound
<1>7. ASSUME InboxCalm PROVE InboxCalm'
  <2>2. Held(inbox') = Held(inbox) \ (back \ inbox.carried) /\ Known(inbox') = Known(inbox)
    BY <1>2, <1>3 DEF Held, Known
  <2>3. back \cap inbox.carried = {}
    <3>1. inbox.wake # NoCopy => inbox.carried = {}
      BY <1>2 DEF Sound
    <3>2. NoCopy \notin agent.box
      BY <1>2 DEF SessionOK, NoCopy
    <3> QED
      BY <1>1, <3>1, <3>2
  <2>4. Settled(lastTaken, inbox, agent.box) => Settled(lastTaken, inbox', agent'.box)
    BY <1>2, <1>3, <1>4, <2>2, <2>3 DEF Settled
  <2>5. Calm(inbox', agent', lastTaken)
    BY <1>3, <1>4, <1>7, <2>2, <2>3, <2>4 DEF InboxCalm, Calm
  <2> QED
    BY <1>2, <2>5, StaysCalm
<1> QED
  BY <1>6, <1>7

LEMMA LoadSteps ==
    ASSUME InboxSound, Load
    PROVE  InboxSound' /\ (InboxCalm => InboxCalm')
<1>1. /\ inbox \in Plugin /\ Sound(inbox, copies) /\ ~inbox.loaded /\ loads' \in 1..MaxLoads
      /\ UNCHANGED <<arrived, readByTool, copies, agent, shown, lastTaken, dropped>>
  BY InboxAssumption DEF InboxSound, Sound, Load, Messages, Histories
<1>2. /\ inbox' \in Plugin /\ inbox'.loaded /\ inbox'.pending = inbox.pending
      /\ inbox'.wake = inbox.wake /\ inbox'.carried = inbox.carried
      /\ inbox'.claimed = inbox.claimed /\ inbox'.blocked = inbox.blocked
      /\ inbox'.receipts = inbox.receipts /\ inbox'.acked = inbox.acked
  BY <1>1 DEF Load, Plugin
<1>3. Sound(inbox', copies)
  BY <1>1, <1>2 DEF Sound, Held
<1>4. InboxSound'
  BY <1>1, <1>2, <1>3, StaysSound DEF InboxSound
<1>5. InboxCalm => InboxCalm'
  <2>1. InboxCalm => Calm(inbox', agent', lastTaken')
    BY <1>1, <1>2 DEF InboxCalm, Calm, Settled, Held, Known
  <2> QED
    BY <1>1, <2>1, StaysCalm
<1> QED
  BY <1>4, <1>5

LEMMA CloseSteps ==
    ASSUME InboxSound, AgentCloses
    PROVE  InboxSound' /\ (InboxCalm => InboxCalm')
<1>1. /\ inbox \in Plugin /\ Sound(inbox, copies) /\ SessionOK(agent, copies)
      /\ agent \in Session
      /\ UNCHANGED <<arrived, readByTool, copies, loads, shown, lastTaken, dropped>>
  BY DEF InboxSound, Sound, SessionOK, AgentCloses, Messages, Histories
<1>2. /\ StepDone(agent) \in Session /\ StepDone(agent).phase = "none"
      /\ StepDone(agent).proposed = {} /\ StepDone(agent).entering = {}
  BY <1>1, StepDoneFields
<1>3. /\ SessionOK(agent', copies) /\ agent'.box = {} /\ agent'.status = "gone"
      /\ agent'.phase = "none"
  <2>1. agent' = [StepDone(agent) EXCEPT !.status = "gone", !.box = {}, !.human = FALSE]
    BY DEF AgentCloses
  <2>2. /\ agent' \in Session /\ agent'.box = {} /\ agent'.status = "gone"
        /\ agent'.phase = "none" /\ agent'.proposed = {} /\ agent'.entering = {}
    BY <1>2, <2>1 DEF Session
  <2> QED
    BY <2>2 DEF SessionOK
<1>4. Sound(inbox', copies) /\ inbox'.loaded = inbox.loaded
      /\ (~inbox'.loaded => inbox'.pending = {})
  <2>1. CASE ~inbox.loaded
    BY <1>1, <2>1 DEF AgentCloses, InboxSound
  <2>2. CASE inbox.loaded
    <3>1. NoFingerprint \in [all : SUBSET Message, external : SUBSET Message]
          /\ NoCopy \in 0..MaxCopies
      BY InboxAssumption DEF NoFingerprint, NoCopy
    <3>2. /\ inbox' \in Plugin /\ inbox'.loaded /\ inbox'.pending = {}
          /\ inbox'.wake = NoCopy /\ inbox'.carried = {}
          /\ inbox'.claimed = inbox.claimed /\ inbox'.receipts = inbox.receipts
      BY <1>1, <2>2, <3>1 DEF AgentCloses, Plugin
    <3> QED
      BY <1>1, <2>2, <3>2 DEF Sound, Held
  <2> QED
    BY <2>1, <2>2
<1>5. InboxSound'
  BY <1>1, <1>3, <1>4, StaysSound DEF InboxSound
<1>6. InboxCalm'
  BY <1>1, <1>3, StaysCalm DEF Calm
<1> QED
  BY <1>5, <1>6

\* The dead plugin's step: what was kept goes, and counts as dropped.
LEMMA DeadStepSteps ==
    ASSUME InboxSound, StepOfUnloaded
    PROVE  InboxSound' /\ (InboxCalm => InboxCalm')
<1>1. /\ inbox \in Plugin /\ Sound(inbox, copies) /\ SessionOK(agent, copies)
      /\ agent \in Session
      /\ UNCHANGED <<arrived, readByTool, copies, loads, shown, lastTaken>>
      /\ agent' = StepDone(agent) /\ inbox' = [inbox EXCEPT !.carried = {}]
      /\ dropped' = dropped \cup inbox.carried
  BY DEF InboxSound, Sound, SessionOK, StepOfUnloaded, Messages
<1>2. /\ SessionOK(agent', copies) /\ agent'.box = agent.box /\ agent'.status = agent.status
      /\ agent'.proposed = {} /\ agent'.entering = {}
  BY <1>1, StepDoneFields DEF SessionOK
<1>3. /\ inbox' \in Plugin /\ inbox'.loaded = inbox.loaded /\ inbox'.carried = {}
      /\ inbox'.pending = inbox.pending /\ inbox'.wake = inbox.wake
      /\ inbox'.claimed = inbox.claimed /\ inbox'.receipts = inbox.receipts
      /\ inbox'.blocked = inbox.blocked /\ inbox'.acked = inbox.acked
  BY <1>1 DEF Plugin
<1>4. Sound(inbox', copies)
  BY <1>1, <1>3 DEF Sound, Held
<1>5. InboxSound'
  <2>1. dropped' \subseteq 1..Len(copies)
    BY <1>1 DEF InboxSound, Sound, Held
  <2> QED
    BY <1>1, <1>2, <1>3, <1>4, <2>1, StaysSound DEF InboxSound
<1>6. ASSUME InboxCalm PROVE InboxCalm'
  <2>1. /\ Held(inbox)' = inbox.pending /\ Held(inbox) = inbox.pending \cup inbox.carried
        /\ Known(inbox)' = Known(inbox)
    BY <1>1, <1>3 DEF Held, Known
  <2>2. ASSUME lastTaken \notin dropped' \cup {NoCopy}, agent.status # "gone"
        PROVE  Settled(lastTaken, inbox, agent.box)'
    <3>1. Settled(lastTaken, inbox, agent.box)
      BY <1>1, <1>6, <2>2 DEF InboxCalm, Calm
    <3>2. Held(inbox) = {lastTaken} => Held(inbox)' = {lastTaken}
      BY <1>1, <2>1, <2>2
    <3>3. Fingerprint(lastTaken)' = Fingerprint(lastTaken)
          /\ IsWake(copies, lastTaken)' = IsWake(copies, lastTaken)
      BY <1>1 DEF Fingerprint, IsWake
    <3> QED
      BY <1>1, <1>2, <1>3, <2>1, <3>1, <3>2, <3>3 DEF Settled
  <2>3. (\A c \in agent.box : c \in Held(inbox) \cup dropped /\ IsWake(copies, c))'
    BY <1>1, <1>2, <1>6, <2>1 DEF InboxCalm, Calm, IsWake
  <2>4. (agent.box \cap (inbox.claimed \cup agent.proposed \cup agent.entering) = {})'
    BY <1>2, <1>3, <1>6 DEF InboxCalm, Calm
  <2>5. (agent.status = "gone" => agent.box = {})'
    BY <1>2, <1>6 DEF InboxCalm, Calm
  <2> QED
    BY <1>1, <1>2, <2>2, <2>3, <2>4, <2>5 DEF InboxCalm, Calm
<1> QED
  BY <1>5, <1>6

LEMMA ArrivalSteps ==
    ASSUME InboxSound, MessageArrives
    PROVE  InboxSound' /\ (InboxCalm => InboxCalm')
<1>1. /\ arrived' = arrived + 1 /\ arrived < MaxMessages /\ arrived \in Nat
      /\ UNCHANGED <<readByTool, copies, inbox, loads, agent, shown, lastTaken, dropped>>
      /\ CopiesOK(copies, arrived)
  BY DEF InboxSound, CopiesOK, MessageArrives, Histories
<1>2. CopiesOK(copies', arrived')
  <2>1. arrived' \in 0..MaxMessages /\ 1..arrived \subseteq 1..arrived'
    BY <1>1, InboxAssumption
  <2> QED
    BY <1>1, <2>1 DEF CopiesOK
<1>3. InboxSound'
  BY <1>1, <1>2 DEF InboxSound
<1>4. InboxCalm => InboxCalm'
  BY <1>1, StaysCalm DEF InboxCalm
<1> QED
  BY <1>3, <1>4

LEMMA InboxSteps ==
    ASSUME InboxSound, [InboxNext]_inboxVars
    PROVE  InboxSound' /\ (InboxCalm => InboxCalm')
<1>1. CASE Poll \/ Steer
  BY <1>1, PollSteps, SteerSteps
<1>2. CASE \E take \in SUBSET agent.box : BeginTurn(take) \/ BeginStep(take)
  BY <1>2, TakesSteps DEF BeginTurn, BeginStep
<1>3. CASE AskHooks \/ EndStep \/ UserTypes \/ \E m \in Message : ReadWithTool(m)
  BY <1>3, HooksStep
<1>4. CASE StepRefused \/ \E kept \in SUBSET agent.proposed : StepWithWake(kept)
  BY <1>4, WakeSteps
<1>5. CASE \E kept \in SUBSET agent.proposed : StepWithContext(kept)
  BY <1>5, ContextSteps
<1>6. CASE \E c \in agent.entering, whole \in BOOLEAN : CommitCopy(c, whole)
  BY <1>6, CommitSteps
<1>7. CASE EndTurn \/ \E c \in agent.box : UserDiscards(c)
  BY <1>7, EndTurnSteps, DiscardSteps
<1>8. CASE Unload \/ Load \/ AgentCloses \/ StepOfUnloaded \/ MessageArrives
  BY <1>8, UnloadSteps, LoadSteps, CloseSteps, DeadStepSteps, ArrivalSteps
<1>9. CASE UNCHANGED inboxVars
  <2>1. InboxSound'
    BY <1>9 DEF inboxVars, InboxSound
  <2> QED
    BY <1>9, <2>1, StaysCalm DEF inboxVars, InboxCalm
<1> QED
  BY <1>1, <1>2, <1>3, <1>4, <1>5, <1>6, <1>7, <1>8, <1>9 DEF InboxNext

LEMMA InboxSoundInit ==
    ASSUME InboxInit
    PROVE  InboxSound /\ InboxCalm
<1>1. CopiesOK(copies, arrived)
  BY InboxAssumption DEF InboxInit, CopiesOK
<1>2. Sound(inbox, copies)
  BY InboxAssumption DEF InboxInit, Sound, Plugin, Held, NoCopy, NoFingerprint
<1>3. SessionOK(agent, copies)
  BY InboxAssumption DEF InboxInit, SessionOK, Session
<1>4. InboxSound
  BY <1>1, <1>2, <1>3, InboxAssumption DEF InboxInit, InboxSound, NoCopy
<1>5. InboxCalm
  BY DEF InboxInit, InboxCalm, Calm, NoCopy
<1> QED
  BY <1>4, <1>5

LEMMA InboxSoundAlways == InboxSpec => []InboxSound
<1>1. InboxInit => InboxSound
  BY InboxSoundInit
<1>2. InboxSound /\ [InboxNext]_inboxVars => InboxSound'
  BY InboxSteps
<1> QED
  BY <1>1, <1>2, PTL DEF InboxSpec

LEMMA InboxCalmAlways == InboxSpec => []InboxCalm
<1>1. InboxInit => InboxCalm
  BY InboxSoundInit
<1>2. InboxSound /\ InboxCalm /\ [InboxNext]_inboxVars => InboxCalm'
  BY InboxSteps
<1> QED
  BY <1>1, <1>2, InboxSoundAlways, PTL DEF InboxSpec

-----------------------------------------------------------------------------
(* Theorems.                                                               *)

\* The inbox's variables keep their types, and the plugin knows of the one wake
\* it holds: the types of createDshInbox()'s state, over reloads too.
THEOREM InboxTypeCorrect == InboxSpec => []InboxTypeOK
<1>1. ASSUME InboxSound PROVE InboxTypeOK
  <2>1. CopiesOK(copies, arrived) /\ Sound(inbox, copies) /\ SessionOK(agent, copies)
    BY <1>1 DEF InboxSound
  <2>2. {c \in inbox.pending : copies[c].method \in Wakes} = {inbox.wake} \ {NoCopy}
    BY <2>1 DEF Sound, IsWake, NoCopy, Plugin, Copy
  <2>3. inbox \in Plugin /\ agent \in Session
    BY <2>1 DEF Sound, SessionOK
  <2>4. /\ arrived \in 0..MaxMessages /\ Len(copies) <= MaxCopies
        /\ \A c \in 1..Len(copies) :
              copies[c].messages # {} /\ copies[c].messages \subseteq 1..arrived
    BY <2>1 DEF CopiesOK
  <2> QED
    BY <1>1, <2>2, <2>3, <2>4 DEF InboxTypeOK, InboxSound, Plugin, Session
<1> QED
  BY <1>1, InboxSoundAlways, PTL

\* Only the poll makes a followup; what it would send of others is then neither
\* the batch it remembers nor, if that was shown, anything unread.
LEMMA PollsAnew ==
    ASSUME InboxSound, InboxCalm, [InboxNext]_inboxVars
    PROVE  Resends => lastTaken \in dropped
<1> SUFFICES ASSUME Resends, lastTaken \notin dropped PROVE FALSE
  OBVIOUS
<1>1. /\ Len(copies') > Len(copies) /\ lastTaken # NoCopy
      /\ copies'[Len(copies')].method = "followup"
      /\ copies'[Len(copies')].messages \ Own = copies[lastTaken].messages \ Own
  BY DEF Resends
<1>2. CopiesOK(copies, arrived) /\ Len(copies) \in Nat /\ arrived \in Nat
  BY DEF InboxSound, CopiesOK
<1> DEFINE b == Adopted(inbox, agent)
           d == Acked(b)
           e == Cleared(d)
           f == Acked(e)
<1>3. ASSUME NEW m, NEW method, copies' = Append(copies, [messages |-> m, method |-> method])
      PROVE  copies'[Len(copies')].messages = m /\ copies'[Len(copies')].method = method
  BY <1>2, <1>3 DEF CopiesOK
<1>4. copies' # copies
  BY <1>1, <1>2
<1>5. Poll /\ inbox.loaded /\ b.wake = NoCopy /\ Sends("followup", f)
  <2>1. CASE Poll
    <3>1. /\ Enqueues("followup", d) /\ inbox.loaded
      BY <1>4, <2>1 DEF Poll
    <3>2. d.wake = b.wake
      BY AdoptsSoundly
    <3> HIDE DEF b, d
    <3> QED
      BY <1>4, <2>1, <3>1, <3>2 DEF Enqueues
  <2>2. CASE Steer
    <3>1. Sends("steer", Acked(Cleared(b)))
      BY <1>4, <2>2 DEF Steer, Enqueues
    <3> QED
      BY <1>1, <1>3, <3>1 DEF Sends
  <2>3. CASE \E kept \in SUBSET agent.proposed : StepWithContext(kept)
    <3>1. copies' = Append(copies, [messages |-> BatchFor(d, "context"), method |-> "context"])
      BY <1>4, <2>3 DEF StepWithContext
    <3> QED
      BY <1>1, <1>3, <3>1
  <2>4. Poll \/ Steer \/ \E kept \in SUBSET agent.proposed : StepWithContext(kept)
    BY <1>4 DEF InboxNext, BeginTurn, BeginStep, Takes, AskHooks, StepRefused, StepOfUnloaded,
       StepWithWake, CommitCopy, EndStep, EndTurn, MessageArrives, UserTypes, Unload, Load,
       AgentCloses, ReadWithTool, UserDiscards, inboxVars
  <2> QED
    BY <2>1, <2>2, <2>3, <2>4
<1>6. /\ Sound(d, copies) /\ Calm(d, agent, lastTaken) /\ d.wake = NoCopy /\ d.carried = {}
      /\ agent.status # "gone"
  BY <1>5, AdoptsSoundly DEF InboxCalm, Poll
<1> HIDE DEF b, d
<1>7. /\ Sound(e, copies) /\ Calm(e, agent, lastTaken) /\ e.wake = NoCopy /\ e.carried = {}
  BY <1>6, ClearedFields, CalmCleared
<1> HIDE DEF e
<1>8. /\ Sound(f, copies) /\ Calm(f, agent, lastTaken) /\ f.wake = NoCopy /\ f.carried = {}
      /\ f.receipts = {}
  BY <1>2, <1>7, AckedFields, CalmAcked
<1> HIDE DEF f
<1> DEFINE m == BatchFor(f, "followup")
<1>9. m # {} /\ ~Repeats(f, "followup")
      /\ copies' = Append(copies, [messages |-> m, method |-> "followup"])
  BY <1>5 DEF Sends
<1>10. m \cap f.acked = {} /\ m \cap Own = {}
  BY <1>2, BatchIsUnread
<1>11. f.blocked.external # m
  BY <1>9 DEF Repeats
<1> HIDE DEF m
<1>12. m = copies[lastTaken].messages \ Own
  BY <1>1, <1>3, <1>9, <1>10
<1>13. ~(Held(f) = {lastTaken} /\ IsWake(copies, lastTaken))
  BY <1>1, <1>8 DEF Held, Sound
<1>14. f.blocked = Fingerprint(lastTaken) \/ copies[lastTaken].messages \subseteq f.acked
  BY <1>1, <1>6, <1>8, <1>13 DEF Calm, Settled, Known
<1> QED
  BY <1>9, <1>10, <1>11, <1>12, <1>14 DEF Fingerprint

\* The same batch of others' messages does not wake the Agent again by itself:
\* over cancelled turns, refused steps, discarded copies and reloads at any
\* moment (block, adopt, idle).  Only a copy that an unloaded plugin took with it
\* when it came back from the other hooks (dsh-cordis.mjs) is not remembered.
THEOREM BatchesAreSentOnce == InboxSpec => NotSentAgain
<1>1. InboxSound /\ InboxCalm /\ [InboxNext]_inboxVars
        => [Resends => lastTaken \in dropped]_inboxVars
  BY PollsAnew
<1> QED
  BY <1>1, InboxSoundAlways, InboxCalmAlways, PTL DEF InboxSpec, NotSentAgain
=============================================================================
