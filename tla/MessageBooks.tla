---------------------------- MODULE MessageBooks ----------------------------
(***************************************************************************)
(* What is known of WhatsApp messages: their rows in notification_outbox,  *)
(* and what Meta has really accepted, for which senders and bounds, and    *)
(* what must hold of the two.  Outbox says when they change.               *)
(***************************************************************************)
EXTENDS Naturals

CONSTANTS
  Messages,     \* dedupe keys
  NoMessage,
  Pods,         \* API instances
  BatchSize,    \* 20 in the code
  MaxAttempts,  \* 5 in the code
  Receipts,     \* statuses Meta reports (bound)
  MaxFaults     \* restarts, failed statements and stalls (bound)

ASSUME NoMessageAssumption == NoMessage \notin Messages
ASSUME SizeAssumption == BatchSize \in Nat \ {0} /\ MaxAttempts \in Nat \ {0}
ASSUME ReceiptsAssumption == Receipts \subseteq {"sent", "delivered", "read", "failed"}
ASSUME FaultsAssumption == MaxFaults \in Nat

VARIABLES
  row,       \* notification_outbox, by dedupe key
  accepted,  \* how many times Meta has accepted each message
  doubt      \* history variable: Meta may have a message the row knows nothing of

Rank == [sent |-> 1, delivered |-> 2, read |-> 3, failed |-> 4]

\* A row says sent, delivered or read only if Meta accepted its message.
SentWasAccepted ==
  \A m \in Messages : row[m].status \in {"sent", "delivered", "read"} => accepted[m] > 0

\* "Several API instances can run it at once": unless an answer was lost, an
\* instance stalled or died with a message accepted, it is accepted once.
OnceUnlessInDoubt == \A m \in Messages : accepted[m] > 1 => doubt[m]

\* "Statuses only move forward", in whichever order receipts come, unless an
\* instance whose message is in doubt overwrites them.
StatusForward ==
  [][\A m \in Messages :
       row[m].status \in DOMAIN Rank /\ ~ doubt[m] =>
         /\ row'[m].status \in DOMAIN Rank
         /\ Rank[row'[m].status] >= Rank[row[m].status]]_row
=============================================================================
