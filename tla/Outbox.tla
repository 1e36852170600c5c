------------------------------- MODULE Outbox -------------------------------
(***************************************************************************)
(* The WhatsApp outbox.  Handlers insert messages; every API instance runs *)
(* a sender that claims due rows in batches, posts them to Meta one by     *)
(* one and stores what came back.  Instances restart and stall, Meta's     *)
(* answer may be lost on the way, and its receipts come in any order.      *)
(*                                                                         *)
(* A claim is one statement with SKIP LOCKED.  Time is abstract: a back-   *)
(* off passes, and a row being sent becomes five minutes old, by a step.   *)
(* A batch of twenty posts of ten seconds at most stays below that, so a   *)
(* row in the hands of an instance ages only when the instance stalls.     *)
(***************************************************************************)
EXTENDS MessageBooks, FiniteSets

VARIABLES
  pod,       \* the flush of each instance and its local variables
  faults     \* faults so far

vars == <<row, pod, accepted, faults, doubt>>

Settled == DOMAIN Rank \cup {"skipped"}

Row == [status : Settled \cup {"absent", "pending", "sending"},
        attempts : Nat,
        due : BOOLEAN,      \* next_try_at <= now
        stale : BOOLEAN,    \* updated_at is more than five minutes ago
        known : BOOLEAN]    \* provider_id is set

Absent == [status |-> "absent", attempts |-> 0, due |-> TRUE, stale |-> FALSE, known |-> FALSE]

Answers == {"none", "ok", "permanent", "retry"}

Flush == [pc : {"idle", "claiming", "sending", "storing"},
          batch : [Messages -> Nat],   \* attempts of the rows yet to deliver, else 0
          hand : Messages \cup {NoMessage},
          answer : Answers]

NoBatch == [m \in Messages |-> 0]

Asleep == [pc |-> "idle", batch |-> NoBatch, hand |-> NoMessage, answer |-> "none"]

Holds(p, m) == pod[p].batch[m] # 0

----------------------------------------------------------------------------
\* INSERT ... ON CONFLICT DO NOTHING: a repeated key takes no step.
Enqueue(m) ==
  /\ row[m].status = "absent"
  /\ row' = [row EXCEPT ![m].status = "pending"]
  /\ UNCHANGED <<pod, accepted, faults, doubt>>

\* The wait before the next try is over.
ComeDue(m) ==
  /\ row[m].status = "pending" /\ ~ row[m].due
  /\ row' = [row EXCEPT ![m].due = TRUE]
  /\ UNCHANGED <<pod, accepted, faults, doubt>>

\* A row nobody is sending any more becomes five minutes old ...
Age(m) ==
  /\ row[m].status = "sending" /\ ~ row[m].stale
  /\ \A p \in Pods : ~ Holds(p, m)
  /\ row' = [row EXCEPT ![m].stale = TRUE]
  /\ UNCHANGED <<pod, accepted, faults, doubt>>

\* ... and so do all rows of an instance that stalls.
Stall(p) ==
  /\ faults < MaxFaults
  /\ \E m \in Messages : Holds(p, m)
  /\ faults' = faults + 1
  /\ row' = [m \in Messages |-> [row[m] EXCEPT !.stale = @ \/ Holds(p, m)]]
  /\ doubt' = [m \in Messages |-> doubt[m] \/ Holds(p, m)]
  /\ UNCHANGED <<pod, accepted>>

----------------------------------------------------------------------------
(* flush.                                                                  *)

\* A flush that forgets what a dead instance was sending.
BugNoRequeue(r) == r

\* UPDATE ... SET status = 'pending' WHERE status = 'sending' AND stale.
Requeued(r) ==
  IF r.status = "sending" /\ r.stale THEN [r EXCEPT !.status = "pending", !.stale = FALSE] ELSE r

\* The timer, or a message just queued; one flush at a time per instance.
BeginFlush(p) ==
  /\ pod[p].pc = "idle"
  /\ row' = [m \in Messages |-> Requeued(row[m])]
  /\ pod' = [pod EXCEPT ![p].pc = "claiming"]
  /\ UNCHANGED <<accepted, faults, doubt>>

\* A claim that a row already being sent does not escape.
BugClaimable(m) == row[m].status \in {"pending", "sending"} /\ row[m].due

Claimable(m) == row[m].status = "pending" /\ row[m].due

\* One claim.  Ids are not modelled, so any rows up to the batch size.
Claim(p) ==
  /\ pod[p].pc = "claiming"
  /\ \E B \in SUBSET {m \in Messages : Claimable(m)} :
       /\ B # {} /\ Cardinality(B) <= BatchSize
       /\ row' = [m \in Messages |-> IF m \in B
                    THEN [row[m] EXCEPT !.status = "sending", !.attempts = @ + 1, !.stale = FALSE]
                    ELSE row[m]]
       /\ pod' = [pod EXCEPT ![p].pc = "sending",
                    ![p].batch = [m \in Messages |-> IF m \in B THEN row[m].attempts + 1 ELSE 0]]
  /\ UNCHANGED <<accepted, faults, doubt>>

\* Nothing is due: the flush ends.
EndFlush(p) ==
  /\ pod[p].pc = "claiming"
  /\ ~ \E m \in Messages : Claimable(m)
  /\ pod' = [pod EXCEPT ![p].pc = "idle"]
  /\ UNCHANGED <<row, accepted, faults, doubt>>

----------------------------------------------------------------------------
(* deliver.  The rows of a batch are delivered one after another.          *)

\* A loop that forgets to let go of the row it has just delivered.
BugDone(p, m) ==
  pod' = [pod EXCEPT ![p].batch[m] = 0,
            ![p].pc = IF [pod[p].batch EXCEPT ![m] = 0] = NoBatch THEN "claiming" ELSE "sending"]

\* The rest of the batch, and after the last row the next claim.
Done(p, m) ==
  LET rest == [pod[p].batch EXCEPT ![m] = 0] IN
    pod' = [pod EXCEPT ![p] = [Asleep EXCEPT !.batch = rest,
                                 !.pc = IF rest = NoBatch THEN "claiming" ELSE "sending"]]

\* The server has no credentials; whether it has is not modelled.
Skip(p, m) ==
  /\ pod[p].pc = "sending" /\ Holds(p, m)
  /\ row' = [row EXCEPT ![m].status = "skipped", ![m].stale = FALSE]
  /\ Done(p, m)
  /\ UNCHANGED <<accepted, faults, doubt>>

\* Meta takes the message and says so ...
PostAccepted(p, m) ==
  /\ pod[p].pc = "sending" /\ Holds(p, m)
  /\ accepted' = [accepted EXCEPT ![m] = @ + 1]
  /\ pod' = [pod EXCEPT ![p].pc = "storing", ![p].hand = m, ![p].answer = "ok"]
  /\ UNCHANGED <<row, faults, doubt>>

\* ... or its answer is too late for the ten seconds of post ...
PostLost(p, m) ==
  /\ pod[p].pc = "sending" /\ Holds(p, m)
  /\ accepted' = [accepted EXCEPT ![m] = @ + 1]
  /\ doubt' = [doubt EXCEPT ![m] = TRUE]
  /\ pod' = [pod EXCEPT ![p].pc = "storing", ![p].hand = m, ![p].answer = "retry"]
  /\ UNCHANGED <<row, faults>>

\* ... or it refuses, for good or for now.
PostRefused(p, m) ==
  /\ pod[p].pc = "sending" /\ Holds(p, m)
  /\ \E answer \in {"permanent", "retry"} :
       pod' = [pod EXCEPT ![p].pc = "storing", ![p].hand = m, ![p].answer = answer]
  /\ UNCHANGED <<row, accepted, faults, doubt>>

\* A limit that is never reached, and an answer that is not looked at.
BugNeverGivesUp(p) == pod[p].answer = "permanent"
BugAnyAnswer(p) == pod[p].answer # "permanent"

GiveUp(p) ==
  pod[p].answer = "permanent" \/ pod[p].batch[pod[p].hand] >= MaxAttempts

WasSent(p) == pod[p].answer = "ok"

\* The UPDATE names the row by its id alone, whatever has become of it.
Store(p) ==
  /\ pod[p].pc = "storing"
  /\ LET m == pod[p].hand IN
       /\ \/ WasSent(p)
             /\ row' = [row EXCEPT ![m].status = "sent", ![m].known = TRUE, ![m].stale = FALSE]
          \/ ~ WasSent(p) /\ GiveUp(p)
             /\ row' = [row EXCEPT ![m].status = "failed", ![m].stale = FALSE]
          \/ ~ WasSent(p) /\ ~ GiveUp(p)
             /\ row' = [row EXCEPT ![m].status = "pending", ![m].due = FALSE, ![m].stale = FALSE]
       /\ Done(p, m)
  /\ UNCHANGED <<accepted, faults, doubt>>

----------------------------------------------------------------------------
\* The instance restarts, or a statement fails and ends the flush.
Cut(p) ==
  /\ faults < MaxFaults
  /\ pod[p].pc # "idle"
  /\ faults' = faults + 1
  /\ doubt' = [m \in Messages |-> doubt[m] \/ (pod[p].hand = m /\ pod[p].answer = "ok")]
  /\ pod' = [pod EXCEPT ![p] = Asleep]
  /\ UNCHANGED <<row, accepted>>

\* A webhook that believes the latest receipt.
BugLatestReceipt(m, status) == TRUE

\* COALESCE(array_position(...), 0) < rank
Newer(m, status) ==
  row[m].status \in DOMAIN Rank => Rank[row[m].status] < Rank[status]

\* A receipt names a provider id; before that is stored it finds no row.
Receipt(m, status) ==
  /\ row[m].known
  /\ Newer(m, status)
  /\ row' = [row EXCEPT ![m].status = status, ![m].stale = FALSE]
  /\ UNCHANGED <<pod, accepted, faults, doubt>>

Init ==
  /\ row = [m \in Messages |-> Absent]
  /\ pod = [p \in Pods |-> Asleep]
  /\ accepted = [m \in Messages |-> 0]
  /\ faults = 0
  /\ doubt = [m \in Messages |-> FALSE]

Deliver(p) ==
  \/ \E m \in Messages : Skip(p, m) \/ PostAccepted(p, m) \/ PostLost(p, m) \/ PostRefused(p, m)
  \/ Store(p)

Work(p) == BeginFlush(p) \/ Claim(p) \/ EndFlush(p) \/ Deliver(p)

Next ==
  \/ \E m \in Messages :
       \/ Enqueue(m) \/ ComeDue(m) \/ Age(m)
       \/ \E status \in Receipts : Receipt(m, status)
  \/ \E p \in Pods : Work(p) \/ Stall(p) \/ Cut(p)

Spec == Init /\ [][Next]_vars

\* The timer of every instance fires every fifteen seconds, post times out
\* after ten, and the clock moves on.  Nothing is assumed of handlers, of
\* Meta's answers or of its receipts.
Fairness ==
  /\ \A p \in Pods : WF_vars(Work(p))
  /\ \A m \in Messages : WF_vars(ComeDue(m) \/ Age(m))

FairSpec == Spec /\ Fairness

----------------------------------------------------------------------------
\* Rows, flushes and counts have their types; an instance has a row in hand
\* exactly while it stores what Meta answered for it.
TypeOK ==
  /\ row \in [Messages -> Row]
  /\ pod \in [Pods -> Flush]
  /\ \A p \in Pods : (pod[p].pc = "storing") = (pod[p].hand # NoMessage)
  /\ accepted \in [Messages -> Nat]
  /\ faults \in 0 .. MaxFaults
  /\ doubt \in [Messages -> BOOLEAN]

\* A message is tried MaxAttempts times, and once more per fault.
TriesBounded == \A m \in Messages : row[m].attempts <= MaxAttempts + faults

\* Every queued message is sent, skipped or given up: neither errors, nor
\* deploys in the middle of a send, nor races of senders strand one.
MessagesSettle ==
  \A m \in Messages : row[m].status \in {"pending", "sending"} ~> row[m].status \in Settled
=============================================================================
