--------------------------- MODULE DeliveryPromise ---------------------------
(***************************************************************************)
(* What a sender is promised about a message to a native peer, without     *)
(* workers, daemons or databases: its receipt moves one way only, it is    *)
(* handed to the provider at most once and answered at most once, and a    *)
(* receipt that says completed stands for an answer.  Where a daemon died  *)
(* or could not save, the receipt may say less than happened ("uncertain"),*)
(* never more.  NativeDelivery implements this.                            *)
(***************************************************************************)
EXTENDS Naturals

CONSTANT Message

VARIABLES
    receipt,    \* what the receipt of each message says
    handed,     \* how often the message was handed to the provider
    replies     \* how often it was answered

Init ==
    /\ receipt = [m \in Message |-> "none"]
    /\ handed = [m \in Message |-> 0]
    /\ replies = [m \in Message |-> 0]

From(m, old, new) == receipt[m] \in old /\ receipt'[m] \in new
Handed(m, by) == handed'[m] = handed[m] + by
Replies(m, by) == replies'[m] = replies[m] + by

Waiting == {"none", "queued"}

Stays(m) == receipt'[m] = receipt[m] /\ Handed(m, 0) /\ Replies(m, 0)

Queues(m) == From(m, {"none"}, {"queued"}) /\ Handed(m, 0) /\ Replies(m, 0)

\* Taken from the queue; the worker may find it cannot hand it over.
Takes(m) ==
    /\ From(m, Waiting, {"working"})
    /\ handed[m] = 0 /\ handed'[m] \in {0, 1}
    /\ Replies(m, 0)

\* Refused: the message is gone, or the provider did not take it or failed.
Fails(m) ==
    /\ From(m, Waiting \cup {"working"}, {"failed"})
    /\ Handed(m, 0)
    /\ replies[m] = 0 /\ Replies(m, 0)

\* Answered; the receipt may be left behind.
Answers(m) ==
    /\ From(m, {"working"}, {"working", "completed"})
    /\ Handed(m, 0)
    /\ replies[m] = 0 /\ Replies(m, 1)

GivesUp(m) == From(m, {"working"}, {"uncertain"}) /\ Handed(m, 0) /\ Replies(m, 0)

\* A poll or a restart may move several messages at once.
Next ==
    \A m \in Message :
        Stays(m) \/ Queues(m) \/ Takes(m) \/ Fails(m) \/ Answers(m) \/ GivesUp(m)

Spec == Init /\ [][Next]_<<receipt, handed, replies>>

=============================================================================
