-------------------------------- MODULE MCParts --------------------------------
(* Parts of one project that keep to themselves: who may own the native     *)
(* runtime, the file lock it takes, the journal of the commands that address*)
(* it, the mail of an App session, the sessions run for a peer, and the     *)
(* inbox of a dsh Agent.  They share no variable, so a behaviour moves one  *)
(* of them, and the states are the sum of theirs.                           *)
EXTENDS NativeOwner, SocketLock, CliSubmissions, AppMail, RunSession, DshInbox

VARIABLE part   \* the one that moves

partVars == <<ownerVars, lockVars, journalVars, mailVars, runVars, inboxVars, part>>

Init ==
    /\ OwnerInit /\ LockInit /\ JournalInit /\ MailInit /\ RunInit /\ InboxInit
    /\ part \in {"owner", "lock", "journal", "mail", "run", "inbox"}

OwnerMoves ==
    /\ part = "owner" /\ OwnerNext
    /\ UNCHANGED <<lockVars, journalVars, mailVars, runVars, inboxVars, part>>
LockMoves ==
    /\ part = "lock" /\ LockNext
    /\ UNCHANGED <<ownerVars, journalVars, mailVars, runVars, inboxVars, part>>
JournalMoves ==
    /\ part = "journal" /\ JournalNext
    /\ UNCHANGED <<ownerVars, lockVars, mailVars, runVars, inboxVars, part>>
MailMoves ==
    /\ part = "mail" /\ MailNext
    /\ UNCHANGED <<ownerVars, lockVars, journalVars, runVars, inboxVars, part>>
RunMoves ==
    /\ part = "run" /\ RunNext
    /\ UNCHANGED <<ownerVars, lockVars, journalVars, mailVars, inboxVars, part>>

InboxMoves ==
    /\ part = "inbox" /\ InboxNext
    /\ UNCHANGED <<ownerVars, lockVars, journalVars, mailVars, runVars, part>>

Next == OwnerMoves \/ LockMoves \/ JournalMoves \/ MailMoves \/ RunMoves \/ InboxMoves

Spec == Init /\ [][Next]_partVars

\* The types of each (see the modules).
PartsTypeOK ==
    OwnerTypeOK /\ LockTypeOK /\ JournalTypeOK /\ MailTypeOK /\ RunTypeOK /\ InboxTypeOK
=============================================================================
