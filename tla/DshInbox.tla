------------------------------- MODULE DshInbox -------------------------------
(***************************************************************************)
(* The inbox of one dsh Agent (lib/integrations/dsh-inbox.mjs) under the   *)
(* hooks that drive it (dsh-cordis.mjs).  The plugin copies unread messages*)
(* of the project into the Agent's own inbox when it is idle, or into a    *)
(* step that is about to begin, and acknowledges them when the Harness has *)
(* committed that very copy.  A copy whose end it cannot see is suspect,   *)
(* and the same batch is not sent by itself again.                         *)
(*                                                                         *)
(* The Harness runs turns, changes or refuses what it is given, and may    *)
(* unload the plugin and load it again at any time; what must outlive that *)
(* is kept beside the plugin.  A handler that finds the database or its    *)
(* authority gone throws where it stands.                                  *)
(***************************************************************************)
EXTENDS Integers, FiniteSets, Sequences

CONSTANTS
    MaxMessages,    \* bound on messages to the Agent
    Own,            \* those it has sent itself, to everybody
    PerSnapshot,    \* messages one snapshot shows
    MaxCopies,      \* bound on copies that carry messages
    MaxLoads        \* bound on how often the plugin is loaded

ASSUME InboxAssumption ==
    /\ MaxMessages \in Nat /\ MaxCopies \in Nat /\ MaxLoads \in Nat \ {0}
    /\ Own \subseteq 1..MaxMessages
    /\ PerSnapshot \in Nat \ {0}

VARIABLES
    arrived,    \* messages 1..arrived are in the project's database
    readByTool, \* those the Agent has read with a tool
    copies,     \* the copies made so far: what each carries and how it was given
    inbox,      \* the plugin, and what is kept beside it
    loads,      \* how often the plugin has been loaded
    agent,      \* the Agent in the Harness
    shown,      \* history: messages of copies that were committed as they were
    lastTaken,  \* history: the wake taken or discarded last, if nothing else was
                \* given to the Agent then or since
    dropped     \* history: copies that went with an unloaded plugin's step

inboxVars == <<arrived, readByTool, copies, inbox, loads, agent, shown, lastTaken, dropped>>

Message == 1..MaxMessages
Copy == 1..MaxCopies
NoCopy == 0
Wakes == {"followup", "steer"}

\* What a copy carries; block() remembers both, against snapshots of both kinds.
Fingerprint(c) ==
    [all |-> copies[c].messages, external |-> copies[c].messages \ Own]
NoFingerprint == [all |-> {}, external |-> {}]

InboxInit ==
    /\ arrived = 0 /\ readByTool = {} /\ copies = <<>>
    /\ inbox = [ loaded |-> TRUE, pending |-> {}, wake |-> NoCopy, claimed |-> {},
                 carried |-> {}, blocked |-> NoFingerprint, receipts |-> {}, acked |-> {} ]
    /\ loads = 1
    /\ agent = [ status |-> "idle", box |-> {}, human |-> FALSE, phase |-> "none",
                 proposed |-> {}, asked |-> 0, entering |-> {} ]
    /\ shown = {} /\ lastTaken = NoCopy /\ dropped = {}

NewestOf(S) == CHOOSE c \in S : \A d \in S : d <= c

-----------------------------------------------------------------------------
(* The steps the handlers are made of: the plugin b after each of them.    *)

\* Faulty variant of BlockedFor: what was given up is only forgotten.
BlockedForgotten(b, S) ==
    IF S = {} THEN b
    ELSE [b EXCEPT !.pending = @ \ S, !.claimed = @ \ S,
                   !.wake = IF @ \in S THEN NoCopy ELSE @]

\* block(), for each in turn.
BlockedFor(b, S) ==
    IF S = {} THEN b
    ELSE [b EXCEPT !.pending = @ \ S, !.claimed = @ \ S,
                   !.wake = IF @ \in S THEN NoCopy ELSE @, !.blocked = Fingerprint(NewestOf(S))]

\* Nobody can tell whether a copy that left the inbox unseen was committed.
Suspect(a, kept) == IF a.status = "idle" THEN kept \ a.box ELSE {}

\* adopt(), under the Agent a: what the plugin before this one left pending.
Adopted(b, a) ==
    LET kept == b.carried
        queued == {c \in kept : copies[c].method \in Wakes}
    IN  BlockedFor([b EXCEPT !.pending = @ \cup kept, !.carried = {},
                             !.wake = IF queued = {} THEN @ ELSE NewestOf(queued)],
                   Suspect(a, kept))

\* acknowledge(), when the database takes it.
Acked(b) ==
    [b EXCEPT !.acked = @ \cup UNION {copies[c].messages : c \in b.receipts},
              !.receipts = {}]

\* It throws while there are receipts and the database refuses them.
AckFails(b) == b.receipts # {}

Cleared(b) == [b EXCEPT !.pending = {c \in @ : copies[c].method \in Wakes}]

Unread(b) == (1..arrived) \ (b.acked \cup readByTool)

\* What a snapshot shows: the oldest.
Shown(S) == {m \in S : Cardinality({n \in S : n <= m}) <= PerSnapshot}

BatchFor(b, method) ==
    Shown(IF method = "followup" THEN Unread(b) \ Own ELSE Unread(b))

\* A followup is compared by what others have sent, any other copy as a whole.
Repeats(b, method) ==
    IF method = "followup" THEN b.blocked.external = BatchFor(b, method)
    ELSE b.blocked.all = BatchFor(b, method)

AtRest(a) == a.status = "idle" /\ a.box = {} /\ ~a.human

\* enqueue() after its preparations: the copy is in the Agent's inbox, though
\* putting it there may have thrown.
Sends(method, b) ==
    /\ BatchFor(b, method) # {} /\ ~Repeats(b, method)
    /\ Len(copies) < MaxCopies
    /\ LET c == Len(copies) + 1 IN
       /\ copies' = Append(copies, [messages |-> BatchFor(b, method), method |-> method])
       /\ inbox' = [b EXCEPT !.pending = @ \cup {c}, !.wake = c]
       /\ agent' = [agent EXCEPT !.box = @ \cup {c}]

\* enqueue() for a plugin that has adopted.  It waits for an outstanding wake;
\* cannot acknowledge first; has no complete snapshot, or nothing to send; or sends.
Enqueues(method, b) ==
    \/ b.wake # NoCopy /\ inbox' = b /\ UNCHANGED <<copies, agent>>
    \/ b.wake = NoCopy /\ AckFails(b) /\ inbox' = Cleared(b) /\ UNCHANGED <<copies, agent>>
    \/ b.wake = NoCopy /\ inbox' = Acked(Cleared(b)) /\ UNCHANGED <<copies, agent>>
    \/ b.wake = NoCopy /\ Sends(method, Acked(Cleared(b)))

Messages == <<arrived, readByTool>>
Histories == <<shown, lastTaken, dropped>>

-----------------------------------------------------------------------------
(* The plugin: its timer, and its hook at the end of the Agent's work.     *)

Poll ==
    /\ inbox.loaded /\ agent.status # "gone"
    /\ LET b == Adopted(inbox, agent) IN
       \/ AckFails(b) /\ inbox' = b /\ UNCHANGED <<copies, agent>>
       \/ ~AtRest(agent) /\ inbox' = Acked(b) /\ UNCHANGED <<copies, agent>>
       \/ AtRest(agent) /\ Enqueues("followup", Acked(b))
    /\ UNCHANGED <<Messages, loads, Histories>>

Steer ==
    /\ inbox.loaded /\ agent.status = "running" /\ agent.phase = "none"
    /\ Enqueues("steer", Adopted(inbox, agent))
    /\ UNCHANGED <<Messages, loads, Histories>>

-----------------------------------------------------------------------------
(* A turn of the Agent, step by step.                                      *)

Alone(c) == IF (inbox.pending \cup inbox.carried) \ {c} = {} THEN c ELSE NoCopy

\* The Harness takes input, ours or not, and the claimed hook runs.
Takes(take) ==
    LET a == [agent EXCEPT !.status = "running", !.box = @ \ take, !.human = FALSE,
                           !.phase = "claimed", !.proposed = take]
        b == Adopted(inbox, a)
    IN  /\ agent' = a
        /\ inbox' = IF inbox.loaded /\ (take # {} \/ agent.human)
                    THEN [b EXCEPT !.claimed = @ \cup (take \cap b.pending)] ELSE inbox
        /\ lastTaken' = IF take # {} THEN Alone(NewestOf(take))
                        ELSE IF agent.human THEN NoCopy ELSE lastTaken
        /\ UNCHANGED <<Messages, copies, loads, shown, dropped>>

BeginTurn(take) ==
    /\ agent.status = "idle" /\ (take # {} \/ agent.human)
    /\ Takes(take)

BeginStep(take) ==
    /\ agent.status = "running" /\ agent.phase = "none"
    /\ Takes(take)

\* The pre-step hook awaits the hooks after it; without it they alone decide.
AskHooks ==
    /\ agent.phase = "claimed"
    /\ \/ /\ inbox.loaded
          /\ agent' = [agent EXCEPT !.phase = "asking", !.asked = loads]
       \/ /\ ~inbox.loaded
          /\ \E kept \in SUBSET agent.proposed :
                agent' = [agent EXCEPT !.phase = "entering", !.entering = kept]
    /\ UNCHANGED <<Messages, copies, inbox, loads, Histories>>

StepDone(a) == [a EXCEPT !.phase = "none", !.proposed = {}, !.entering = {}, !.asked = 0]
Entered(kept) == [agent EXCEPT !.phase = "entering", !.entering = kept, !.asked = 0]

AskedByThis == agent.phase = "asking" /\ inbox.loaded /\ agent.asked = loads

\* step() when the step may not begin; its authority may be gone by then.
StepRefused ==
    /\ AskedByThis
    /\ LET b == Adopted(inbox, agent) IN
       inbox' \in {b, BlockedFor(b, {b.wake} \cap agent.proposed)}
    /\ agent' = StepDone(agent)
    /\ UNCHANGED <<Messages, copies, loads, Histories>>

\* step() with our wake among the input: it stays, if it was left as it was.
StepWithWake(kept) ==
    /\ AskedByThis /\ kept \subseteq agent.proposed
    /\ LET b == Adopted(inbox, agent) IN
       /\ b.wake \in agent.proposed
       /\ \/ AckFails(b) /\ inbox' = b /\ agent' = StepDone(agent)
          \/ b.wake \in kept /\ inbox' = Acked(b) /\ agent' \in {Entered(kept), StepDone(agent)}
          \/ b.wake \notin kept /\ inbox' = BlockedFor(Acked(b), {b.wake}) /\ agent' = Entered(kept)
    /\ UNCHANGED <<Messages, copies, loads, Histories>>

\* step() without it: what is unread goes in as context, if it can be shown whole.
StepWithContext(kept) ==
    /\ AskedByThis /\ kept \subseteq agent.proposed
    /\ LET b == Adopted(inbox, agent)
           c == Len(copies) + 1
           batch == BatchFor(Acked(b), "context")
       IN
       /\ b.wake \notin agent.proposed
       /\ \/ /\ AckFails(b)
             /\ inbox' = b /\ agent' = StepDone(agent) /\ UNCHANGED <<copies, lastTaken>>
          \/ /\ inbox' = Cleared(Acked(b)) /\ agent' \in {Entered(kept), StepDone(agent)}
             /\ UNCHANGED <<copies, lastTaken>>
          \/ /\ batch # {} /\ c <= MaxCopies
             /\ copies' = Append(copies, [messages |-> batch, method |-> "context"])
             /\ inbox' = [Cleared(Acked(b)) EXCEPT !.pending = @ \cup {c}]
             /\ agent' = Entered(kept \cup {c})
             /\ lastTaken' = NoCopy
    /\ UNCHANGED <<Messages, loads, shown, dropped>>

\* step() of a plugin unloaded meanwhile: it adopts once more, what was kept for
\* its successor too, and then throws; nobody holds that any longer.
StepOfUnloaded ==
    /\ agent.phase = "asking" /\ ~AskedByThis
    /\ inbox' = [inbox EXCEPT !.carried = {}]
    /\ agent' = StepDone(agent)
    /\ dropped' = dropped \cup inbox.carried
    /\ UNCHANGED <<Messages, copies, loads, shown, lastTaken>>

\* Faulty variant of SameContents: the id alone is compared.
SameId(b, c, whole) == c \in b.pending

SameContents(b, c, whole) == c \in b.pending /\ whole

\* commit(): the copy c was committed, as a whole or altered by another hook.
Committed(c, whole) ==
    LET b == IF c \in inbox.pending THEN inbox ELSE Adopted(inbox, agent)
        r == [b EXCEPT !.pending = @ \ {c}, !.claimed = @ \ {c},
                       !.wake = IF @ = c THEN NoCopy ELSE @,
                       !.blocked = NoFingerprint, !.receipts = @ \cup {c}]
    IN  IF ~inbox.loaded THEN {inbox}
        ELSE IF SameContents(b, c, whole) THEN {r, Acked(r)} ELSE {b}

CommitCopy(c, whole) ==
    /\ agent.phase = "entering" /\ c \in agent.entering
    /\ agent' = [agent EXCEPT !.entering = @ \ {c}]
    /\ inbox' \in Committed(c, whole)
    /\ shown' = IF whole THEN shown \cup copies[c].messages ELSE shown
    /\ UNCHANGED <<Messages, copies, loads, lastTaken, dropped>>

\* All is committed and the model has answered, or the step has failed before.
EndStep ==
    /\ agent.phase \in {"claimed", "asking", "entering"}
    /\ agent' = StepDone(agent)
    /\ UNCHANGED <<Messages, copies, inbox, loads, Histories>>

\* Taken and not committed, or context that was not.
GivenUp(b) == {c \in b.pending : c \in b.claimed \/ copies[c].method \notin Wakes}

\* The turn is over, done or cancelled, and the status hook runs.
EndTurn ==
    /\ agent.status = "running" /\ agent.phase = "none"
    /\ agent' = [agent EXCEPT !.status = "idle"]
    /\ LET b == Adopted(inbox, agent') IN
       inbox' = IF inbox.loaded THEN BlockedFor(b, GivenUp(b)) ELSE inbox
    /\ UNCHANGED <<Messages, copies, loads, Histories>>

-----------------------------------------------------------------------------
(* What happens around it.                                                 *)

MessageArrives ==
    /\ arrived < MaxMessages /\ arrived' = arrived + 1
    /\ UNCHANGED <<readByTool, copies, inbox, loads, agent, Histories>>

ReadWithTool(m) ==
    /\ agent.status = "running" /\ m \in Unread(inbox)
    /\ readByTool' = readByTool \cup {m}
    /\ UNCHANGED <<arrived, copies, inbox, loads, agent, Histories>>

UserTypes ==
    /\ agent.status # "gone" /\ ~agent.human
    /\ agent' = [agent EXCEPT !.human = TRUE]
    /\ UNCHANGED <<Messages, copies, inbox, loads, Histories>>

\* The user takes a queued copy out of the Agent's inbox.
UserDiscards(c) ==
    /\ c \in agent.box
    /\ agent' = [agent EXCEPT !.box = @ \ {c}]
    /\ LET b == Adopted(inbox, agent') IN
       inbox' = IF inbox.loaded THEN BlockedFor(b, {c} \cap b.pending) ELSE inbox
    /\ lastTaken' = Alone(c)
    /\ UNCHANGED <<Messages, copies, loads, shown, dropped>>

\* dispose(): a queued wake is taken back, unless the Harness fails to.
Unload ==
    /\ inbox.loaded /\ agent.status # "gone"
    /\ \E back \in {{}, {inbox.wake} \cap agent.box} :
        /\ agent' = [agent EXCEPT !.box = @ \ back]
        /\ inbox' = [inbox EXCEPT !.loaded = FALSE, !.pending = {}, !.wake = NoCopy,
                                  !.carried = @ \cup (inbox.pending \ back)]
    /\ UNCHANGED <<Messages, copies, loads, Histories>>

Load ==
    /\ ~inbox.loaded /\ loads < MaxLoads
    /\ inbox' = [inbox EXCEPT !.loaded = TRUE]
    /\ loads' = loads + 1
    /\ UNCHANGED <<Messages, copies, agent, Histories>>

\* forget()
AgentCloses ==
    /\ agent.status # "gone"
    /\ agent' = [StepDone(agent) EXCEPT !.status = "gone", !.box = {}, !.human = FALSE]
    /\ inbox' = IF inbox.loaded
                THEN [inbox EXCEPT !.pending = {}, !.wake = NoCopy, !.carried = {},
                                   !.blocked = NoFingerprint]
                ELSE inbox
    /\ UNCHANGED <<Messages, copies, loads, Histories>>

InboxNext ==
    \/ Poll \/ Steer
    \/ \E take \in SUBSET agent.box : BeginTurn(take) \/ BeginStep(take)
    \/ AskHooks \/ StepRefused \/ StepOfUnloaded
    \/ \E kept \in SUBSET agent.proposed : StepWithWake(kept) \/ StepWithContext(kept)
    \/ \E c \in agent.entering, whole \in BOOLEAN : CommitCopy(c, whole)
    \/ EndStep \/ EndTurn
    \/ MessageArrives \/ UserTypes \/ Unload \/ Load \/ AgentCloses
    \/ \E m \in Message : ReadWithTool(m)
    \/ \E c \in agent.box : UserDiscards(c)

InboxSpec == InboxInit /\ [][InboxNext]_inboxVars

-----------------------------------------------------------------------------
InboxTypeOK ==
    /\ arrived \in 0..MaxMessages /\ readByTool \subseteq Message /\ shown \subseteq Message
    /\ Len(copies) <= MaxCopies /\ lastTaken \in 0..Len(copies) /\ loads \in 1..MaxLoads
    /\ dropped \subseteq 1..Len(copies)
    /\ \A c \in 1..Len(copies) :
        copies[c].messages # {} /\ copies[c].messages \subseteq 1..arrived
    /\ inbox \in [ loaded : BOOLEAN, pending : SUBSET Copy, wake : 0..MaxCopies,
                   claimed : SUBSET Copy, carried : SUBSET Copy,
                   blocked : [all : SUBSET Message, external : SUBSET Message],
                   receipts : SUBSET Copy, acked : SUBSET Message ]
    /\ agent \in [ status : {"idle", "running", "gone"}, box : SUBSET Copy, human : BOOLEAN,
                   phase : {"none", "claimed", "asking", "entering"},
                   proposed : SUBSET Copy, asked : 0..MaxLoads, entering : SUBSET Copy ]
    \* A wake is outstanding exactly while it is pending.
    /\ {c \in inbox.pending : copies[c].method \in Wakes} = {inbox.wake} \ {NoCopy}

\* "A queued wake is not a read receipt": what the plugin acknowledges was in a
\* copy that was committed as it was made, whatever other hooks changed or
\* refused, and however often the plugin was loaded in between.
AckedWasShown == inbox.acked \subseteq shown

\* Once the Harness has taken a wake, or the user has thrown it away, the same
\* batch of others' messages does not wake the Agent again: it was cancelled or
\* refused, or committed while nobody saw it, and waits for somebody's own work
\* or for another batch, also over a reload (block(), adopt(), idle()).  The
\* plugin remembers one batch only, so nothing is said once another copy was
\* given to the Agent in between.  One reload is excepted: a plugin unloaded
\* while it awaits the hooks after it (dsh-cordis.mjs, "await next()") comes
\* back to step(), takes what was kept for its successor and throws.  The batch
\* of such a copy (dropped) can be sent again: CommittedIsNotReplayed fails.
Resends ==
    /\ Len(copies') > Len(copies)
    /\ lastTaken # NoCopy
    /\ copies'[Len(copies')].method = "followup"
    /\ copies'[Len(copies')].messages \ Own = copies[lastTaken].messages \ Own

NotSentAgain == [][Resends => lastTaken \in dropped]_inboxVars

\* A batch the Agent has been shown, but whose commit fell into a reload and was
\* not seen, is not sent again: "Ambiguous commits across a reload gap are not
\* automatically replayed" (docs/app-bridge.md, adopt()).
CommittedIsNotReplayed ==
    [][Resends => ~(copies[lastTaken].messages \subseteq shown)]_inboxVars

\* A new message of another peer need not wait for the Agent's own work: the
\* next poll of an Agent at rest may send it ("different unread batch", idle()).
Fresh == Unread(inbox) \ (Own \cup UNION {copies[c].messages : c \in 1..Len(copies)})

FreshMessageMayWake ==
    inbox.loaded /\ inbox.carried = {} /\ AtRest(agent) /\ Fresh # {} =>
        inbox.wake = NoCopy /\ ~Repeats(Acked(inbox), "followup")
=============================================================================
