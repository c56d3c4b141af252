----------------------------- MODULE CliSubmissions -----------------------------
(***************************************************************************)
(* The journal of `hcc native send` (runtime/native/cli-submissions.mjs and*)
(* the command in cli/commands/native.mjs): a record is saved before the   *)
(* daemon is asked, a receipt after it answered, and a command that lost   *)
(* its answer is run again with the same submission id.                    *)
(*                                                                         *)
(* A record is published without ever showing half of it: it is written to *)
(* a temporary file, synced, linked to its name, the temporary link        *)
(* removed and the directory synced.  A writer may be killed in between,   *)
(* readers of the name repair what they find, and a power failure loses    *)
(* the links that were not yet synced.                                     *)
(*                                                                         *)
(* One submission: a command that prepares it and others that retry it or  *)
(* list the journal.  What the daemon does with a submission it has seen   *)
(* is in NativeDelivery; here it answers, or the answer is lost.           *)
(***************************************************************************)
EXTENDS Naturals, FiniteSets

CONSTANTS
    First,          \* the command that prepares the submission
    Retry,          \* commands run again with its id
    Lister,         \* `hcc native submissions`
    MaxPowerLoss    \* bound on power failures

Process == {First} \cup Retry \cup Lister
Name == {"submission", "receipt"}
NoFile == "none"

\* Only the command that makes the id up saves the submission.
ASSUME JournalAssumption ==
    /\ First \notin Retry \cup Lister
    /\ NoFile \notin Process
    /\ MaxPowerLoss \in Nat

VARIABLES
    published,  \* the file each name links to, by the process that wrote it
    temp,       \* temporary links, <<process, name>>
    synced,     \* names whose link survives a power failure
    process,    \* where each command is, and the name it works on
    asked,      \* history: commands that asked the daemon to queue the message
    power       \* power failures so far

journalVars == <<published, temp, synced, process, asked, power>>

At(step, name) == [step |-> step, name |-> name]

JournalInit ==
    /\ published = [n \in Name |-> NoFile]
    /\ temp = {} /\ synced = {}
    /\ process = [p \in Process |-> At("idle", "submission")]
    /\ asked = {}
    /\ power = 0

Step(p) == process[p].step
Record(p) == process[p].name
Goes(p, step) == process' = [process EXCEPT ![p] = At(step, Record(p))]

Exists(n) == published[n] # NoFile
TempLink(n) == <<published[n], n>>
Links(n) == IF TempLink(n) \in temp THEN 2 ELSE 1

-----------------------------------------------------------------------------
(* writeRecord                                                             *)

\* The temporary file, complete and synced.
WriteTemp(p) ==
    /\ Step(p) = "writing"
    /\ temp' = temp \cup {<<p, Record(p)>>}
    /\ Goes(p, "written")
    /\ UNCHANGED <<published, synced, asked, power>>

LinkName(p) ==
    /\ Step(p) = "written" /\ ~Exists(Record(p))
    /\ published' = [published EXCEPT ![Record(p)] = p]
    /\ Goes(p, "linked")
    /\ UNCHANGED <<temp, synced, asked, power>>

\* EEXIST: another command saved this receipt; its own file is removed and
\* the winner's read.
LoseRace(p) ==
    /\ Step(p) = "written" /\ Exists(Record(p))
    /\ temp' = temp \ {<<p, Record(p)>>}
    /\ Goes(p, "stat")
    /\ UNCHANGED <<published, synced, asked, power>>

\* A reader may have removed it first.
UnlinkTemp(p) ==
    /\ Step(p) = "linked"
    /\ temp' = temp \ {<<p, Record(p)>>}
    /\ Goes(p, "unlinked")
    /\ UNCHANGED <<published, synced, asked, power>>

\* Faulty variant of AfterLink: the record counts as saved without a sync.
AfterLinkUnsynced == {"linked", "unlinked", "synced"}

\* Where the record counts as saved.
AfterLink == {"synced"}

SyncDirectory(p) ==
    /\ Step(p) = "unlinked"
    /\ synced' = synced \cup { n \in Name : Exists(n) }
    /\ Goes(p, "synced")
    /\ UNCHANGED <<published, temp, asked, power>>

\* The name must link to this very file, and nothing else to it.
CheckPublished(p) ==
    /\ Step(p) \in AfterLink
    /\ published[Record(p)] = p /\ Links(Record(p)) = 1
    /\ Goes(p, IF Record(p) = "submission" THEN "saved" ELSE "done")
    /\ UNCHANGED <<published, temp, synced, asked, power>>

\* Any step fails: the temporary file goes, and the command ends with it.
WriteFails(p) ==
    /\ Step(p) \in {"written", "linked", "unlinked", "synced"}
    /\ temp' = temp \ {<<p, Record(p)>>}
    /\ Goes(p, "done")
    /\ UNCHANGED <<published, synced, asked, power>>

-----------------------------------------------------------------------------
(* optionalRecord, readRecord and repairPublishedLink                      *)

\* What a reader does once it has read a record, or found none.
Then(p, found) ==
    process' = [process EXCEPT ![p] =
        CASE Record(p) = "submission" /\ p \in Lister ->
                At(IF found THEN "stat" ELSE "done", "receipt")
          [] Record(p) = "submission" /\ p \notin Lister ->
                At(IF found THEN "saved" ELSE "done", "submission")
          [] OTHER -> At(IF found \/ p \in Lister THEN "done" ELSE "writing", "receipt")]

StatMissing(p) ==
    /\ Step(p) = "stat" /\ ~Exists(Record(p))
    /\ Then(p, FALSE)
    /\ UNCHANGED <<published, temp, synced, asked, power>>

StatSingle(p) ==
    /\ Step(p) = "stat" /\ Exists(Record(p)) /\ Links(Record(p)) = 1
    /\ Then(p, TRUE)
    /\ UNCHANGED <<published, temp, synced, asked, power>>

StatDouble(p) ==
    /\ Step(p) = "stat" /\ Exists(Record(p)) /\ Links(Record(p)) = 2
    /\ Goes(p, "repairing")
    /\ UNCHANGED <<published, temp, synced, asked, power>>

\* The matching temporary link is in the directory: removed, and synced.
RepairLink(p) ==
    /\ Step(p) = "repairing" /\ Links(Record(p)) = 2
    /\ temp' = temp \ {TempLink(Record(p))}
    /\ synced' = synced \cup { n \in Name : Exists(n) }
    /\ Then(p, TRUE)
    /\ UNCHANGED <<published, asked, power>>

\* Faulty variant of Repaired: a link that went without this reader is not
\* looked at again.
RepairedByMe(n) == FALSE

\* The second look, when the directory held no matching link.
Repaired(n) == Links(n) = 1

FindNoLink(p) ==
    /\ Step(p) = "repairing" /\ Links(Record(p)) = 1
    /\ \/ Repaired(Record(p)) /\ Then(p, TRUE)
       \/ ~Repaired(Record(p)) /\ Goes(p, "invalid")
    /\ UNCHANGED <<published, temp, synced, asked, power>>

-----------------------------------------------------------------------------
(* The commands                                                            *)

\* A retry needs the id, which the journal shows once the name is there.
Run(p) ==
    /\ Step(p) = "idle"
    /\ p \in Retry => Exists("submission")
    /\ Goes(p, IF p = First THEN "writing" ELSE "stat")
    /\ UNCHANGED <<published, temp, synced, asked, power>>

\* POST /send: the message is queued once, whoever asks.
Post(p) ==
    /\ Step(p) = "saved"
    /\ asked' = asked \cup {p}
    /\ Goes(p, "posted")
    /\ UNCHANGED <<published, temp, synced, power>>

\* The daemon was not reached, or refused.
PostFails(p) ==
    /\ Step(p) = "saved"
    /\ Goes(p, "done")
    /\ UNCHANGED <<published, temp, synced, asked, power>>

Answered(p) ==
    /\ Step(p) = "posted"
    /\ process' = [process EXCEPT ![p] = At("stat", "receipt")]
    /\ UNCHANGED <<published, temp, synced, asked, power>>

\* The answer is lost, or the command killed; its temporary file stays.
Killed(p) ==
    /\ Step(p) \notin {"idle", "done", "invalid"}
    /\ Goes(p, "done")
    /\ UNCHANGED <<published, temp, synced, asked, power>>

\* Every process ends; of the links not synced any may be missing.
PowerFails ==
    /\ power < MaxPowerLoss
    /\ power' = power + 1
    /\ \E lost \in SUBSET ({ n \in Name : Exists(n) } \ synced), kept \in SUBSET temp :
         /\ published' = [n \in Name |-> IF n \in lost THEN NoFile ELSE published[n]]
         /\ temp' = kept
    /\ process' = [p \in Process |-> IF Step(p) = "idle" THEN process[p] ELSE At("done", Record(p))]
    /\ synced' = { n \in Name : published'[n] # NoFile }
    /\ UNCHANGED asked

ProcessStep(p) ==
    \/ WriteTemp(p) \/ LinkName(p) \/ LoseRace(p) \/ UnlinkTemp(p)
    \/ SyncDirectory(p) \/ CheckPublished(p) \/ WriteFails(p)
    \/ StatMissing(p) \/ StatSingle(p) \/ StatDouble(p) \/ RepairLink(p) \/ FindNoLink(p)
    \/ Run(p) \/ Post(p) \/ PostFails(p) \/ Answered(p) \/ Killed(p)

JournalNext == (\E p \in Process : ProcessStep(p)) \/ PowerFails

JournalSpec == JournalInit /\ [][JournalNext]_journalVars

-----------------------------------------------------------------------------
(* Each variable has its type, and only a file that exists is synced.      *)
JournalTypeOK ==
    /\ published \in [Name -> Process \cup {NoFile}]
    /\ temp \subseteq Process \X Name
    /\ synced \subseteq { n \in Name : Exists(n) }
    /\ process \in [Process -> [step : {"idle", "writing", "written", "linked", "unlinked",
                                        "synced", "saved", "posted", "stat", "repairing",
                                        "invalid", "done"}, name : Name]]
    /\ asked \subseteq Process
    /\ power \in 0..MaxPowerLoss

(* No reader is ever turned away by a record of this program: a hard link  *)
(* that its writer, or another reader, removes while it looks does not     *)
(* make the record count as invalid (repairPublishedLink).                 *)
JournalIsReadable == \A p \in Process : Step(p) # "invalid"

(* A send without an id of its own leaves a record that outlasts a power   *)
(* failure: once the command has asked the daemon, the journal names the   *)
(* submission for ever, so a lost answer can be retried (writeRecord: the  *)
(* failed write must never authorize a send).                              *)
SendIsOnRecord == First \in asked => Exists("submission") /\ "submission" \in synced
=============================================================================
