-------------------------- MODULE Messages_proofs --------------------------
(***************************************************************************)
(* Proofs about what is sent to customers: Blast for any number of         *)
(* customers and requests, Outbox for any number of messages, instances    *)
(* and faults.                                                             *)
(*                                                                         *)
(* "Never twice" of Blast is not inductive: it needs to know that a        *)
(* customer without a row has no mail and is at no request's mail          *)
(* (Carried), so that the row the table lets in once goes with one mail    *)
(* (Once).  That a request runs into a row only where two had read the     *)
(* same customer needs Alone: a customer one request has read but not      *)
(* written has no row and no second reader.                                *)
(*                                                                         *)
(* OnceUnlessInDoubt of Outbox is not inductive either.  It needs to know  *)
(* that a message out of doubt is in the hands of one instance at most,    *)
(* that its row then says sending and is not old enough to be taken away,  *)
(* and that once Meta has accepted it the row is settled or about to be:   *)
(* Sole and Witnessed.  Receipts join in because they write rows too: a    *)
(* row they can find is settled, so they never move one being sent.        *)
(***************************************************************************)
EXTENDS Blast, MessageBooks, WellFoundedInduction, TLAPS

VARIABLES pod, faults

O == INSTANCE Outbox

\* The request is about to mail the customer.
Mailing(k, u) == batch[k].step = "mail" /\ At(k) = u

\* Who was read once at a time has no row until the reader writes it.
Alone(u) ==
  \A k \in Clicks : u \in Unwritten(k) =>
    gift[u] = "none" /\ hand.to # u /\ \A j \in Clicks \ {k} : u \notin Unwritten(j)

\* A customer no row was taken from is mailed on a row, and once.
Once(u) ==
  /\ mails[u] <= 1
  /\ \A k \in Clicks : Mailing(k, u) =>
       mails[u] = 0 /\ \A j \in Clicks \ {k} : ~ Mailing(j, u)

\* No mail without a row, as long as no row is taken.
Carried(u) ==
  gift[u] = "none" => mails[u] = 0 /\ \A k \in Clicks : ~ Mailing(k, u)

\* A row without a mail is somebody's business.
Minded(u) ==
  gift[u] # "none" /\ mails[u] = 0 /\ u \notin told \cup lost \cup dropped =>
    \E k \in Clicks : u \in batch[k].failed \/ Mailing(k, u)

Inv ==
  /\ TypeOK
  /\ \A k \in Clicks : batch[k].step = "mail" => batch[k].left # {}
  /\ \A u \in Users \ crossed : Alone(u)
  /\ \A u \in Users \ taken : Once(u) /\ Carried(u)
  /\ \A u \in Users : Minded(u)
  /\ dropped # {} => crossed # {}

----------------------------------------------------------------------------
(* Helpers.                                                                *)

\* The least customer of a batch is one of the batch.
LEMMA AtIsLeft ==
  ASSUME NEW S \in SUBSET Users, S # {}
  PROVE  Min(S) \in S
<1>1. S \subseteq Nat
  BY BlastAssumption DEF Users
<1>2. PICK x \in S : \A y \in S : ~ (<<y, x>> \in OpToRel(<, Nat))
  BY <1>1, NatLessThanWellFounded, WFMin
<1>3. ASSUME NEW y \in S PROVE x <= y
  <2>1. x \in Nat /\ y \in Nat
    BY <1>1
  <2>2. <<y, x>> \in Nat \X Nat /\ ~ (<<y, x>> \in OpToRel(<, Nat))
    BY <1>2, <2>1
  <2>3. y < x => <<y, x>> \in OpToRel(<, Nat)
    BY <2>2 DEF OpToRel
  <2>4. ~ (y < x)
    BY <2>2, <2>3, Zenon
  <2> QED
    BY <2>1, <2>4
<1> QED
  BY <1>3 DEF Min

LEMMA MailCount ==
  ASSUME NEW a \in 0..2
  PROVE  Min({2, a + 1}) = IF a = 0 THEN 1 ELSE 2
BY DEF Min

Batches == [step : {"idle", "assign", "mail"}, left : SUBSET Users, failed : SUBSET Users]

\* A step of one request leaves the others' batches.
LEMMA OthersKeep ==
  ASSUME TypeOK, NEW k \in Clicks, NEW b \in Batches, batch' = [batch EXCEPT ![k] = b]
  PROVE  /\ batch' \in [Clicks -> Batches] /\ batch'[k] = b
         /\ \A j \in Clicks \ {k} :
              /\ batch'[j] = batch[j] /\ Unwritten(j)' = Unwritten(j)
              /\ \A u \in Users : Mailing(j, u)' <=> Mailing(j, u)
<1>1. batch \in [Clicks -> Batches]
  BY DEF TypeOK, Batches
<1>2. \A j \in Clicks \ {k} : batch'[j] = batch[j]
  BY <1>1
<1> QED
  BY <1>1, <1>2 DEF Unwritten, Mailing, At

LEMMA PendingIs ==
  ASSUME NEW u \in Users
  PROVE  u \in Pending <=> hand.to = u \/ \E k \in Clicks : u \in Unwritten(k)
<1> DEFINE readers == UNION {Unwritten(k) : k \in Clicks}
<1>1. u \in readers <=> \E k \in Clicks : u \in Unwritten(k)
  OBVIOUS
<1>2. u \in {hand.to} \cap Users <=> hand.to = u
  OBVIOUS
<1>3. Pending = ({hand.to} \cap Users) \cup readers
  BY DEF Pending
<1> HIDE DEF readers
<1> QED
  BY <1>1, <1>2, <1>3

LEMMA InitInv == Init => Inv
<1> SUFFICES ASSUME Init PROVE Inv
  OBVIOUS
<1>1. TypeOK
  BY BlastAssumption DEF Init, TypeOK, Idle
<1>2. \A k \in Clicks : batch[k].step = "idle" /\ Unwritten(k) = {}
  BY DEF Init, Idle, Unwritten
<1>3. \A u \in Users : gift[u] = "none" /\ mails[u] = 0
  BY DEF Init
<1>4. dropped = {}
  BY DEF Init
<1> QED
  BY <1>1, <1>2, <1>3, <1>4 DEF Inv, Alone, Once, Carried, Minded, Mailing

----------------------------------------------------------------------------
(* One lemma per kind of step.                                             *)

\* Reading customers who have no row: whoever else had read them is crossed.
LEMMA ClickStep ==
  ASSUME Inv, NEW k \in Clicks, ClickAny(k)
  PROVE  Inv'
<1> USE DEF Inv
<1> PICK segment \in Segments, asked \in Asked : Click(k, segment, asked)
  BY DEF ClickAny
<1> DEFINE users == Picked(segment, asked)
<1>1. users \subseteq Users /\ \A u \in users : gift[u] = "none"
  BY DEF Picked, Remaining
<1>2. /\ batch' = [batch EXCEPT ![k] = [step |-> "assign", left |-> users, failed |-> {}]]
      /\ crossed' = crossed \cup (users \cap Pending) /\ batch[k] = Idle
      /\ UNCHANGED <<active, gift, orders, hand, mails, told, lost, dropped, taken, events>>
  BY DEF Click
<1> HIDE DEF users
<1>3. /\ batch' \in [Clicks -> Batches]
      /\ batch'[k] = [step |-> "assign", left |-> users, failed |-> {}]
      /\ \A j \in Clicks \ {k} :
           /\ batch'[j] = batch[j] /\ Unwritten(j)' = Unwritten(j)
           /\ \A u \in Users : Mailing(j, u)' <=> Mailing(j, u)
  <2> [step |-> "assign", left |-> users, failed |-> {}] \in Batches
    BY <1>1 DEF Batches
  <2> QED
    BY <1>2, OthersKeep
<1>4. /\ Unwritten(k)' = users
      /\ \A u \in Users : ~ Mailing(k, u)' /\ ~ Mailing(k, u) /\ u \notin batch[k].failed
      /\ Unwritten(k) = {}
  BY <1>2, <1>3 DEF Unwritten, Mailing, Idle
<1>5. \A u \in users \ crossed' : hand.to # u /\ \A j \in Clicks : u \notin Unwritten(j)
  <2>1. ASSUME NEW u \in users, u \notin crossed' PROVE u \in Users /\ u \notin Pending
    BY <1>1, <1>2, <2>1
  <2> QED
    BY <2>1, PendingIs
<1>6. TypeOK'
  BY <1>1, <1>2, <1>3 DEF TypeOK, Batches
<1>7. \A j \in Clicks : batch'[j].step = "mail" => batch'[j].left # {}
  BY <1>3
<1>8. ASSUME NEW u \in Users \ crossed' PROVE Alone(u)'
  <2>1. Alone(u)
    BY <1>2, <1>8
  <2>2. CASE u \in users
    BY <1>1, <1>2, <1>3, <1>4, <1>5, <2>1, <2>2 DEF Alone
  <2>3. CASE u \notin users
    BY <1>2, <1>3, <1>4, <2>1, <2>3 DEF Alone
  <2> QED
    BY <2>2, <2>3
<1>9. \A u \in Users \ taken' : Once(u)' /\ Carried(u)'
  BY <1>2, <1>3, <1>4 DEF Once, Carried
<1>10. \A u \in Users : Minded(u)'
  BY <1>2, <1>3, <1>4 DEF Minded
<1>11. dropped' # {} => crossed' # {}
  BY <1>2
<1> QED
  BY <1>6, <1>7, <1>8, <1>9, <1>10, <1>11

\* The row of the next customer of a batch: he had none, so no mail either.
LEMMA InsertStep ==
  ASSUME Inv, NEW k \in Clicks, Assign(k), Insert(k)
  PROVE  Inv'
<1> USE DEF Inv
<1> DEFINE v == At(k)
           b == [batch[k] EXCEPT !.step = "mail"]
<1>1. batch[k] \in Batches /\ batch[k].step = "assign" /\ batch[k].left # {}
  BY DEF Assign, TypeOK, Batches
<1>2. v \in batch[k].left /\ v \in Users
  BY <1>1, AtIsLeft DEF At, Batches
<1>3. /\ batch' = [batch EXCEPT ![k] = b]
      /\ gift[v] = "none" /\ gift' = [gift EXCEPT ![v] = "unused"]
      /\ UNCHANGED <<active, orders, hand, mails, told, lost, dropped, taken, crossed, events>>
  BY DEF Assign, Insert
<1>4. b \in Batches /\ b.step = "mail" /\ b.left = batch[k].left /\ b.failed = batch[k].failed
  BY <1>1 DEF Batches
<1> HIDE DEF b, v
<1>5. /\ batch' \in [Clicks -> Batches] /\ batch'[k] = b
      /\ \A j \in Clicks \ {k} :
           /\ batch'[j] = batch[j] /\ Unwritten(j)' = Unwritten(j)
           /\ \A u \in Users : Mailing(j, u)' <=> Mailing(j, u)
  BY <1>3, <1>4, OthersKeep
<1>6. At(k)' = v
  BY <1>4, <1>5 DEF At, v
<1>7. /\ v \in Unwritten(k) /\ Unwritten(k)' = Unwritten(k) \ {v}
      /\ \A u \in Users : (Mailing(k, u)' <=> u = v) /\ ~ Mailing(k, u)
  BY <1>1, <1>2, <1>4, <1>5, <1>6 DEF Unwritten, Mailing
<1>8. /\ gift' \in [Users -> {"none", "unused", "used"}]
      /\ \A u \in Users \ {v} : gift'[u] = gift[u]
      /\ gift'[v] = "unused"
  BY <1>2, <1>3 DEF TypeOK
<1>9. TypeOK'
  BY <1>3, <1>5, <1>8 DEF TypeOK, Batches
<1>10. \A j \in Clicks : batch'[j].step = "mail" => batch'[j].left # {}
  BY <1>1, <1>4, <1>5
<1>11. ASSUME NEW u \in Users \ crossed' PROVE Alone(u)'
  <2>1. Alone(u)
    BY <1>3, <1>11
  <2>2. CASE u = v
    BY <1>3, <1>5, <1>7, <2>1, <2>2 DEF Alone
  <2>3. CASE u # v
    BY <1>3, <1>5, <1>7, <1>8, <2>1, <2>3 DEF Alone
  <2> QED
    BY <2>2, <2>3
<1>12. ASSUME NEW u \in Users \ taken' PROVE Once(u)' /\ Carried(u)'
  <2>1. Once(u) /\ Carried(u)
    BY <1>3, <1>12
  <2>2. CASE u = v
    BY <1>3, <1>5, <1>7, <1>8, <2>1, <2>2 DEF Once, Carried
  <2>3. CASE u # v
    BY <1>3, <1>5, <1>7, <1>8, <2>1, <2>3 DEF Once, Carried
  <2> QED
    BY <2>2, <2>3
<1>13. ASSUME NEW u \in Users PROVE Minded(u)'
  <2>1. CASE u = v
    BY <1>7, <2>1 DEF Minded
  <2>2. CASE u # v
    BY <1>3, <1>4, <1>5, <1>7, <1>8, <2>2 DEF Minded
  <2> QED
    BY <2>1, <2>2
<1>14. dropped' # {} => crossed' # {}
  BY <1>3
<1> QED
  BY <1>9, <1>10, <1>11, <1>12, <1>13, <1>14

\* The mail arrives, or the customer is noted as failed.
LEMMA MailStep ==
  ASSUME Inv, NEW k \in Clicks, Mail(k)
  PROVE  Inv'
<1> USE DEF Inv
<1> PICK outcome \in Outcomes :
      /\ batch' = [batch EXCEPT ![k] = [step |-> "assign", left |-> Unwritten(k),
                                        failed |-> FailedAfter(k, outcome)]]
      /\ mails' = [mails EXCEPT ![At(k)] =
                     IF outcome.arrived THEN Min({2, @ + 1}) ELSE @]
  BY DEF Mail
<1> DEFINE v == At(k)
           b == [step |-> "assign", left |-> Unwritten(k), failed |-> FailedAfter(k, outcome)]
<1>1. batch[k] \in Batches /\ batch[k].step = "mail" /\ batch[k].left # {}
  BY DEF Mail, TypeOK, Batches
<1>2. v \in Users
  BY <1>1, AtIsLeft DEF At, Batches
<1>3. UNCHANGED <<active, gift, orders, hand, told, lost, dropped, taken, crossed, events>>
  BY DEF Mail, history
<1>4. /\ b \in Batches /\ batch[k].failed \subseteq b.failed
      /\ outcome.arrived \/ v \in b.failed
  BY <1>1, <1>2 DEF Batches, Unwritten, FailedAfter, Outcomes
<1>5. /\ batch' \in [Clicks -> Batches] /\ batch'[k] = b
      /\ \A j \in Clicks \ {k} :
           /\ batch'[j] = batch[j] /\ Unwritten(j)' = Unwritten(j)
           /\ \A u \in Users : Mailing(j, u)' <=> Mailing(j, u)
  BY <1>4, OthersKeep
<1>6. /\ Unwritten(k)' = Unwritten(k)
      /\ \A u \in Users : ~ Mailing(k, u)' /\ (Mailing(k, u) <=> u = v)
  BY <1>1, <1>5 DEF Unwritten, Mailing
<1>7. /\ mails' \in [Users -> 0..2]
      /\ \A u \in Users \ {v} : mails'[u] = mails[u]
      /\ mails[v] = 0 => mails'[v] <= 1
      /\ mails[v] > 0 \/ outcome.arrived => mails'[v] > 0
  <2>1. mails[v] \in 0..2 /\ mails \in [Users -> 0..2]
    BY <1>2 DEF TypeOK
  <2>2. Min({2, mails[v] + 1}) = IF mails[v] = 0 THEN 1 ELSE 2
    BY <2>1, MailCount
  <2>3. mails' = [mails EXCEPT ![v] = IF outcome.arrived THEN Min({2, mails[v] + 1})
                                      ELSE mails[v]]
    OBVIOUS
  <2> DEFINE n == IF outcome.arrived THEN Min({2, mails[v] + 1}) ELSE mails[v]
  <2>4. outcome.arrived \in BOOLEAN
    BY DEF Outcomes
  <2>5. /\ n \in 0..2 /\ (mails[v] = 0 => n <= 1)
        /\ mails[v] > 0 \/ outcome.arrived => n > 0
    BY <2>1, <2>2, <2>4
  <2>6. mails' = [mails EXCEPT ![v] = n]
    BY <2>3
  <2> HIDE DEF v, n
  <2>7. mails'[v] = n
    BY <1>2, <2>1, <2>6
  <2> QED
    BY <1>2, <2>1, <2>5, <2>6, <2>7
<1> HIDE DEF b, v
<1>8. TypeOK'
  BY <1>3, <1>5, <1>7 DEF TypeOK, Batches
<1>9. \A j \in Clicks : batch'[j].step = "mail" => batch'[j].left # {}
  BY <1>5 DEF b
<1>10. \A u \in Users \ crossed' : Alone(u)'
  BY <1>3, <1>5, <1>6 DEF Alone
<1>11. ASSUME NEW u \in Users \ taken' PROVE Once(u)' /\ Carried(u)'
  <2>1. Once(u) /\ Carried(u)
    BY <1>3, <1>11
  <2>2. CASE u = v
    <3>1. mails'[u] <= 1 /\ gift'[u] # "none"
      BY <1>3, <1>6, <1>7, <2>1, <2>2 DEF Once, Carried
    <3>2. \A j \in Clicks : ~ Mailing(j, u)'
      BY <1>5, <1>6, <2>1, <2>2 DEF Once
    <3> QED
      BY <3>1, <3>2 DEF Once, Carried
  <2>3. CASE u # v
    <3>1. mails'[u] = mails[u]
      BY <1>7, <2>3
    <3>2. \A j \in Clicks : Mailing(j, u)' <=> Mailing(j, u)
      BY <1>5, <1>6, <2>3
    <3> QED
      BY <1>3, <2>1, <3>1, <3>2 DEF Once, Carried
  <2> QED
    BY <2>2, <2>3
<1>12. ASSUME NEW u \in Users PROVE Minded(u)'
  <2>1. CASE u = v
    BY <1>4, <1>5, <1>7, <2>1 DEF Minded, TypeOK
  <2>2. CASE u # v
    BY <1>3, <1>4, <1>5, <1>6, <1>7, <2>2 DEF Minded
  <2> QED
    BY <2>1, <2>2
<1>13. dropped' # {} => crossed' # {}
  BY <1>3
<1> QED
  BY <1>8, <1>9, <1>10, <1>11, <1>12, <1>13

\* A request runs into a row only where somebody else had read its customer.
LEMMA CollideCrosses ==
  ASSUME Inv, NEW k \in Clicks, Assign(k), Collide(k)
  PROVE  crossed # {}
<1>1. batch[k] \in Batches /\ batch[k].step = "assign" /\ batch[k].left # {}
  BY DEF Inv, Assign, TypeOK, Batches
<1>2. At(k) \in Unwritten(k) /\ At(k) \in Users
  BY <1>1, AtIsLeft DEF At, Unwritten, Batches
<1>3. gift[At(k)] # "none"
  BY DEF Collide
<1>4. ~ Alone(At(k))
  BY <1>2, <1>3 DEF Alone
<1> QED
  BY <1>2, <1>4 DEF Inv

\* A request that ends, is cut off or runs into a row.
LEMMA EndStep ==
  ASSUME Inv, NEW k \in Clicks, Answer(k) \/ Cut(k) \/ (Assign(k) /\ Collide(k))
  PROVE  Inv'
<1> USE DEF Inv
<1>1. /\ batch' = [batch EXCEPT ![k] = Idle]
      /\ UNCHANGED <<active, gift, orders, hand, mails, taken, crossed>>
  BY DEF Answer, Cut, Assign, Collide
<1>2. Idle \in Batches
  BY DEF Idle, Batches
<1>3. /\ batch' \in [Clicks -> Batches] /\ batch'[k] = Idle
      /\ \A j \in Clicks \ {k} :
           /\ batch'[j] = batch[j] /\ Unwritten(j)' = Unwritten(j)
           /\ \A u \in Users : Mailing(j, u)' <=> Mailing(j, u)
  BY <1>1, <1>2, OthersKeep
<1>4. Unwritten(k)' = {} /\ \A u \in Users : ~ Mailing(k, u)'
  BY <1>3 DEF Unwritten, Mailing, Idle
<1>5. \A u \in Users :
        u \in batch[k].failed \/ Mailing(k, u) => u \in told' \cup lost' \cup dropped'
  BY DEF Answer, Cut, Assign, Collide, Mailing
<1>6. batch[k] \in Batches
  BY DEF TypeOK, Batches
<1>7. /\ told' \subseteq Users /\ lost' \subseteq Users /\ dropped' \subseteq Users
      /\ told \subseteq told' /\ lost \subseteq lost' /\ dropped \subseteq dropped'
  <2>1. batch[k].step = "mail" => At(k) \in Users
    BY <1>6, AtIsLeft DEF At, Batches
  <2> QED
    BY <1>6, <2>1 DEF Answer, Cut, Assign, Collide, TypeOK, Batches
<1>8. TypeOK'
  <2>1. events' \in 0..MaxEvents
    BY BlastAssumption DEF Answer, Cut, Assign, Event, TypeOK
  <2> QED
    BY <1>1, <1>3, <1>7, <2>1 DEF TypeOK, Batches
<1>9. \A j \in Clicks : batch'[j].step = "mail" => batch'[j].left # {}
  BY <1>3 DEF Idle
<1>10. \A u \in Users \ crossed' : Alone(u)'
  BY <1>1, <1>3, <1>4 DEF Alone
<1>11. \A u \in Users \ taken' : Once(u)' /\ Carried(u)'
  BY <1>1, <1>3, <1>4 DEF Once, Carried
<1>12. \A u \in Users : Minded(u)'
  BY <1>1, <1>3, <1>4, <1>5, <1>7 DEF Minded
<1>13. dropped' # {} => crossed' # {}
  <2>1. CASE Answer(k) \/ Cut(k)
    BY <1>1, <2>1 DEF Answer, Cut
  <2>2. CASE Assign(k) /\ Collide(k)
    BY <1>1, <2>2, CollideCrosses
  <2> QED
    BY <2>1, <2>2
<1> QED
  BY <1>8, <1>9, <1>10, <1>11, <1>12, <1>13

\* Steps that leave the batches alone and move rows: what they must keep.
LEMMA RowsMove ==
  ASSUME Inv, TypeOK', UNCHANGED <<batch, mails, lost, dropped>>,
         taken \subseteq taken', told \subseteq told', crossed \subseteq crossed',
         \A u \in Users \ crossed' : Alone(u)',
         \A u \in Users \ taken' : gift[u] # "none" => gift'[u] # "none",
         \A u \in Users \ told' : gift'[u] # "none" => gift[u] # "none"
  PROVE  Inv'
<1> USE DEF Inv
<1>1. \A k \in Clicks : Unwritten(k)' = Unwritten(k) /\ \A u \in Users : Mailing(k, u)' <=> Mailing(k, u)
  BY DEF Unwritten, Mailing, At
<1>2. \A u \in Users \ taken' : Once(u)' /\ Carried(u)'
  BY <1>1 DEF Once, Carried
<1>3. \A u \in Users : Minded(u)'
  BY <1>1 DEF Minded
<1> QED
  BY <1>2, <1>3

\* A gift by hand looks first, and writes later.
LEMMA GiftStep ==
  ASSUME Inv, SaveGift \/ \E u \in Users : Give(u)
  PROVE  Inv'
<1> USE DEF Inv
<1>1. ASSUME NEW v \in Users, Give(v) PROVE Inv'
  <2>1. /\ UNCHANGED <<active, gift, orders, batch, mails, told, lost, dropped, taken>>
        /\ hand = NoGift
    BY <1>1 DEF Give
  <2>2. hand' \in [step : {"insert", "reset"}, to : Users] /\ hand'.to = v
    BY <1>1 DEF Give
  <2>3. crossed \subseteq crossed' /\ crossed' \subseteq Users
    BY <1>1 DEF Give, TypeOK
  <2>4. events' \in 0..MaxEvents
    BY <1>1, BlastAssumption DEF Give, TypeOK, Event
  <2>5. TypeOK'
    BY <2>1, <2>2, <2>3, <2>4 DEF TypeOK
  <2>6. \A k \in Clicks : Unwritten(k)' = Unwritten(k)
    BY <2>1 DEF Unwritten, At
  <2>7. ASSUME NEW u \in Users \ crossed' PROVE Alone(u)'
    <3>1. Alone(u)
      BY <2>3, <2>7
    <3>2. CASE u # v
      BY <2>1, <2>2, <2>6, <3>1, <3>2 DEF Alone
    <3>3. CASE u = v /\ crossed' = crossed \cup ({v} \cap Pending)
      <4>1. \A k \in Clicks : u \notin Unwritten(k)
        BY <2>7, <3>3, PendingIs
      <4> QED
        BY <2>6, <4>1 DEF Alone
    <3>4. CASE u = v /\ gift[v] = "used"
      <4>1. \A k \in Clicks : u \notin Unwritten(k)
        BY <3>1, <3>4 DEF Alone
      <4> QED
        BY <2>6, <4>1 DEF Alone
    <3> QED
      BY <1>1, <3>2, <3>3, <3>4 DEF Give
  <2> QED
    BY <2>1, <2>3, <2>5, <2>7, RowsMove
<1>2. CASE SaveGift
  <2> DEFINE v == hand.to
  <2>1. v \in Users /\ v = hand.to
    BY <1>2 DEF SaveGift, TypeOK
  <2>2. /\ hand' = NoGift
        /\ UNCHANGED <<active, orders, batch, mails, lost, dropped, taken, crossed, events>>
        /\ \/ gift' = [gift EXCEPT ![v] = "unused"] /\ told' = told \cup {v}
           \/ UNCHANGED <<gift, told>>
    BY <1>2 DEF SaveGift
  <2> HIDE DEF v
  <2>3. TypeOK'
    BY <2>1, <2>2 DEF TypeOK
  <2>4. /\ \A u \in Users \ {v} : gift'[u] = gift[u]
        /\ gift'[v] = gift[v] \/ (gift'[v] = "unused" /\ v \in told')
        /\ told \subseteq told'
    BY <2>1, <2>2 DEF TypeOK
  <2>5. \A k \in Clicks : Unwritten(k)' = Unwritten(k)
    BY <2>2 DEF Unwritten, At
  <2>6. \A u \in Users : hand'.to # u
    BY <2>2, BlastAssumption DEF NoGift, Users
  <2>7. ASSUME NEW u \in Users \ crossed' PROVE Alone(u)'
    <3>1. Alone(u)
      BY <2>2, <2>7
    <3>2. CASE u = v
      <4>1. \A k \in Clicks : u \notin Unwritten(k)
        BY <2>1, <3>1, <3>2 DEF Alone
      <4> QED
        BY <2>5, <4>1 DEF Alone
    <3>3. CASE u # v
      BY <2>4, <2>5, <2>6, <3>1, <3>3 DEF Alone
    <3> QED
      BY <3>2, <3>3
  <2>8. /\ \A u \in Users \ taken' : gift[u] # "none" => gift'[u] # "none"
        /\ \A u \in Users \ told' : gift'[u] # "none" => gift[u] # "none"
    BY <2>4
  <2> QED
    BY <2>2, <2>3, <2>4, <2>7, <2>8, RowsMove
<1> QED
  BY <1>1, <1>2

\* Rows taken back, rows used up, time and the coupon itself.
LEMMA ElseStep ==
  ASSUME Inv, \/ \E u \in Users : Take(u) \/ Order(u) \/ Lapse(u)
              \/ Retire
              \/ UNCHANGED vars
  PROVE  Inv'
<1> USE DEF Inv
<1>1. ASSUME NEW v \in Users, Take(v) PROVE Inv'
  <2>1. /\ UNCHANGED <<active, orders, batch, mails, told, lost, dropped, crossed>>
        /\ taken' = taken \cup {v} /\ gift' = [gift EXCEPT ![v] = "none"]
        /\ hand' = IF hand.to = v THEN [step |-> "insert", to |-> v] ELSE hand
    BY <1>1 DEF Take
  <2>2. events' \in 0..MaxEvents
    BY <1>1, BlastAssumption DEF Take, TypeOK, Event
  <2>3. TypeOK'
    BY <2>1, <2>2 DEF TypeOK
  <2>4. /\ \A u \in Users \ {v} : gift'[u] = gift[u]
        /\ gift'[v] = "none" /\ hand'.to = hand.to
    BY <2>1 DEF TypeOK
  <2>5. \A k \in Clicks : Unwritten(k)' = Unwritten(k)
    BY <2>1 DEF Unwritten, At
  <2>6. ASSUME NEW u \in Users \ crossed' PROVE Alone(u)'
    <3>1. Alone(u)
      BY <2>1, <2>6
    <3> QED
      BY <2>4, <2>5, <3>1 DEF Alone
  <2> QED
    BY <2>1, <2>3, <2>4, <2>6, RowsMove
<1>2. ASSUME NEW v \in Users, Order(v) PROVE Inv'
  <2>1. UNCHANGED <<active, batch, hand, mails, told, lost, dropped, taken, crossed>>
    BY <1>2 DEF Order, history
  <2>2. /\ events' \in 0..MaxEvents
        /\ orders' \in [Users -> {"none", "recent", "old"}]
    BY <1>2, BlastAssumption DEF Order, TypeOK, Event
  <2>3. /\ gift' \in [Users -> {"none", "unused", "used"}]
        /\ \A u \in Users : (gift'[u] = "none") = (gift[u] = "none")
    BY <1>2 DEF Order, TypeOK
  <2>4. TypeOK'
    BY <2>1, <2>2, <2>3 DEF TypeOK
  <2>5. \A k \in Clicks : Unwritten(k)' = Unwritten(k)
    BY <2>1 DEF Unwritten, At
  <2>6. \A u \in Users \ crossed' : Alone(u)'
    BY <2>1, <2>3, <2>5 DEF Alone
  <2> QED
    BY <2>1, <2>3, <2>4, <2>6, RowsMove
<1>3. CASE Retire \/ UNCHANGED vars \/ \E u \in Users : Lapse(u)
  <2>1. UNCHANGED <<gift, batch, hand, mails, told, lost, dropped, taken, crossed>>
    BY <1>3 DEF Retire, Lapse, vars, history
  <2>2. TypeOK'
    <3>1. active' \in BOOLEAN /\ events' \in 0..MaxEvents
      <4>1. CASE UNCHANGED vars
        BY <4>1 DEF vars, TypeOK
      <4>2. CASE Retire \/ \E u \in Users : Lapse(u)
        <5>1. Event /\ (active' = active \/ active' = FALSE)
          BY <4>2 DEF Retire, Lapse
        <5>2. active \in BOOLEAN /\ events \in 0..MaxEvents
          BY DEF TypeOK
        <5>3. events' \in 0..MaxEvents
          BY <5>1, <5>2, BlastAssumption DEF Event
        <5>4. active' \in BOOLEAN
          BY <5>1, <5>2
        <5> QED
          BY <5>3, <5>4
      <4> QED
        BY <1>3, <4>1, <4>2
    <3>2. orders' \in [Users -> {"none", "recent", "old"}]
      BY <1>3 DEF Retire, Lapse, vars, TypeOK
    <3> QED
      BY <2>1, <3>1, <3>2 DEF TypeOK
  <2>3. \A k \in Clicks : Unwritten(k)' = Unwritten(k)
    BY <2>1 DEF Unwritten, At
  <2>4. \A u \in Users \ crossed' : Alone(u)'
    BY <2>1, <2>3 DEF Alone
  <2> QED
    BY <2>1, <2>2, <2>4, RowsMove
<1> QED
  BY <1>1, <1>2, <1>3

LEMMA Invariance == Spec => []Inv
<1>1. Init => Inv
  BY InitInv
<1>2. Inv /\ [Next]_vars => Inv'
  <2>1. ASSUME Inv, NEW k \in Clicks, Assign(k) PROVE Inv'
    BY <2>1, InsertStep, EndStep DEF Assign
  <2> QED
    BY <2>1, ClickStep, MailStep, EndStep, GiftStep, ElseStep DEF Next, Work
<1> QED
  BY <1>1, <1>2, PTL DEF Spec

----------------------------------------------------------------------------
(* The theorems.                                                           *)

\* Rows, batches and mails keep their types.
THEOREM TypeCorrect == Spec => []TypeOK
<1>1. Inv => TypeOK
  BY DEF Inv
<1> QED
  BY <1>1, Invariance, PTL

\* A customer whose row was never taken back gets one mail of the campaign: the
\* row that goes in before the mail, and goes in once, is what keeps repeated,
\* crossing and broken batches from sending twice.
THEOREM SentOnce == Spec => []NeverTwice
<1>1. Inv => NeverTwice
  BY DEF Inv, NeverTwice, Once
<1> QED
  BY <1>1, Invariance, PTL

\* No mail without a row behind it, and no row without its mail unless it
\* was reported, is being mailed, or its request was cut off or ran into the
\* row of another, which takes two who had read the same customer.
THEOREM NobodyIsForgotten == Spec => []NobodyForgotten
<1>1. Inv => NobodyForgotten
  <2>1. ASSUME Inv, NEW u \in Users
        PROVE  /\ mails[u] > 0 => gift[u] # "none" \/ u \in taken
               /\ gift[u] # "none" /\ mails[u] = 0 /\ u \notin told \cup lost \cup dropped
                    => \E k \in Clicks :
                         \/ u \in batch[k].failed
                         \/ batch[k].step = "mail" /\ At(k) = u
    BY <2>1 DEF Inv, Carried, Minded, Mailing
  <2> QED
    BY <2>1 DEF Inv, NobodyForgotten
<1> QED
  BY <1>1, Invariance, PTL

----------------------------------------------------------------------------
(* The outbox: the inductive invariant.                                    *)

\* What is stored or about to be stored as sent has been accepted.
Backed ==
  /\ \A m \in Messages : row[m].known => accepted[m] > 0
  /\ \A m \in Messages :
       row[m].status \in {"sent", "delivered", "read"} => accepted[m] > 0
  /\ \A p \in Pods : pod[p].answer = "ok" => accepted[pod[p].hand] > 0

\* An instance holds the row whose answer it stores, and has no answer else.
InHand ==
  \A p \in Pods :
    IF pod[p].pc = "storing" THEN O!Holds(p, pod[p].hand) ELSE pod[p].answer = "none"

\* Who holds a message out of doubt holds it alone, on a fresh row.
Sole(m) ==
  \A p \in Pods :
    O!Holds(p, m) =>
      /\ row[m].status = "sending"
      /\ ~ row[m].stale
      /\ \A q \in Pods : O!Holds(q, m) => q = p

\* A message Meta has accepted is settled, or an instance is storing that.
Witnessed(m) ==
  accepted[m] > 0 =>
    \/ row[m].status \in O!Settled
    \/ \E p \in Pods : pod[p].hand = m /\ pod[p].answer = "ok"

Clear(m) ==
  /\ accepted[m] <= 1
  /\ row[m].known => row[m].status \in DOMAIN O!Rank
  /\ Sole(m)
  /\ Witnessed(m)

SenderInv ==
  /\ O!TypeOK
  /\ Backed
  /\ InHand
  /\ \A m \in Messages : ~ doubt[m] => Clear(m)

----------------------------------------------------------------------------
(* The outbox: type correctness.                                           *)

LEMMA SenderTypesInit == O!Init => O!TypeOK
BY NoMessageAssumption, FaultsAssumption
   DEF O!Init, O!TypeOK, O!Row, O!Absent, O!Settled, O!Rank, O!Flush, O!Asleep, O!NoBatch,
       O!Answers

\* Letting go of a row leaves a flush that has its type.
LEMMA DoneType ==
  ASSUME O!TypeOK, NEW p \in Pods, NEW m \in Messages, O!Done(p, m)
  PROVE  /\ pod' \in [Pods -> O!Flush]
         /\ \A q \in Pods : (pod'[q].pc = "storing") = (pod'[q].hand # NoMessage)
BY DEF O!TypeOK, O!Done, O!Asleep, O!Flush, O!Answers, O!NoBatch

LEMMA SenderTypes == O!TypeOK /\ [O!Next]_O!vars => O!TypeOK'
<1> SUFFICES ASSUME O!TypeOK, [O!Next]_O!vars PROVE O!TypeOK'
  OBVIOUS
<1> USE DEF O!TypeOK
<1>1. ASSUME NEW m \in Messages, O!Enqueue(m) \/ O!ComeDue(m) \/ O!Age(m) PROVE O!TypeOK'
  <2>1. row' \in [Messages -> O!Row]
    <3>1. CASE O!Enqueue(m)
      BY <3>1 DEF O!Enqueue, O!Row
    <3>2. CASE O!ComeDue(m)
      BY <3>2, ZenonT(60) DEF O!ComeDue, O!Row
    <3>3. CASE O!Age(m)
      BY <3>3, ZenonT(60) DEF O!Age, O!Row
    <3> QED
      BY <1>1, <3>1, <3>2, <3>3
  <2> QED
    BY <1>1, <2>1 DEF O!Enqueue, O!ComeDue, O!Age
<1>2. ASSUME NEW m \in Messages, NEW status \in Receipts, O!Receipt(m, status) PROVE O!TypeOK'
  <2>1. status \in O!Settled
    BY ReceiptsAssumption DEF O!Settled, O!Rank
  <2>2. row' \in [Messages -> O!Row]
    BY <1>2, <2>1, ZenonT(60) DEF O!Receipt, O!Row
  <2> QED
    BY <1>2, <2>2 DEF O!Receipt
<1>3. ASSUME NEW p \in Pods, O!Stall(p) PROVE O!TypeOK'
  <2>1. ASSUME NEW m \in Messages
        PROVE  [row[m] EXCEPT !.stale = @ \/ O!Holds(p, m)] \in O!Row
    <3>1. row[m].stale \/ O!Holds(p, m) \in BOOLEAN
      BY DEF O!Row, O!Holds
    <3> QED
      BY <3>1 DEF O!Row
  <2>2. row' \in [Messages -> O!Row]
    BY <1>3, <2>1 DEF O!Stall
  <2>3. faults' \in 0 .. MaxFaults
    BY <1>3, FaultsAssumption DEF O!Stall
  <2>4. doubt' \in [Messages -> BOOLEAN]
    BY <1>3 DEF O!Stall, O!Holds
  <2> QED
    BY <1>3, <2>2, <2>3, <2>4 DEF O!Stall
<1>4. ASSUME NEW p \in Pods, O!Cut(p) PROVE O!TypeOK'
  BY <1>4, FaultsAssumption DEF O!Cut, O!Flush, O!Asleep, O!NoBatch, O!Answers
<1>5. ASSUME NEW p \in Pods, O!BeginFlush(p) PROVE O!TypeOK'
  <2>1. row' \in [Messages -> O!Row]
    BY <1>5, ZenonT(60) DEF O!BeginFlush, O!Requeued, O!Row
  <2> QED
    BY <1>5, <2>1 DEF O!BeginFlush, O!Flush
<1>6. ASSUME NEW p \in Pods, O!Claim(p) PROVE O!TypeOK'
  <2>1. PICK B \in SUBSET {m \in Messages : O!Claimable(m)} :
          /\ row' = [m \in Messages |-> IF m \in B
               THEN [row[m] EXCEPT !.status = "sending", !.attempts = @ + 1, !.stale = FALSE]
               ELSE row[m]]
          /\ pod' = [pod EXCEPT ![p].pc = "sending",
               ![p].batch = [m \in Messages |-> IF m \in B THEN row[m].attempts + 1 ELSE 0]]
    BY <1>6 DEF O!Claim
  <2>2. row' \in [Messages -> O!Row]
    <3>1. ASSUME NEW m \in Messages
          PROVE  [row[m] EXCEPT !.status = "sending", !.attempts = @ + 1, !.stale = FALSE] \in O!Row
      <4>1. row[m] \in O!Row /\ row[m].attempts + 1 \in Nat
        BY DEF O!Row
      <4> QED
        BY <4>1 DEF O!Row
    <3> QED
      BY <2>1, <3>1
  <2>3. [m \in Messages |-> IF m \in B THEN row[m].attempts + 1 ELSE 0] \in [Messages -> Nat]
    BY DEF O!Row
  <2>4. pod' \in [Pods -> O!Flush]
    <3> DEFINE tries == [m \in Messages |-> IF m \in B THEN row[m].attempts + 1 ELSE 0]
               f == [pod[p] EXCEPT !.pc = "sending", !.batch = tries]
    <3>1. tries \in [Messages -> Nat]
      BY <2>3
    <3>2. pod' = [pod EXCEPT ![p] = f]
      BY <2>1
    <3>3. pod[p] \in O!Flush
      OBVIOUS
    <3> HIDE DEF tries
    <3>4. \A g \in O!Flush : [g EXCEPT !.pc = "sending", !.batch = tries] \in O!Flush
      BY <3>1 DEF O!Flush
    <3>5. f \in O!Flush
      BY <3>3, <3>4
    <3> HIDE DEF f
    <3> QED
      BY <3>2, <3>5
  <2>5. ASSUME NEW q \in Pods
        PROVE  (pod'[q].pc = "storing") = (pod'[q].hand # NoMessage)
    <3>1. pod'[q].hand = pod[q].hand
      BY <2>1, ZenonT(60) DEF O!Flush
    <3>2. pod'[q].pc = (IF q = p THEN "sending" ELSE pod[q].pc)
      BY <2>1 DEF O!Flush
    <3> QED
      BY <1>6, <3>1, <3>2 DEF O!Claim
  <2> QED
    BY <1>6, <2>2, <2>4, <2>5 DEF O!Claim
<1>7. ASSUME NEW p \in Pods, O!EndFlush(p) PROVE O!TypeOK'
  BY <1>7 DEF O!EndFlush, O!Flush
<1>8. ASSUME NEW p \in Pods, NEW m \in Messages, O!Skip(p, m) PROVE O!TypeOK'
  <2>1. row' \in [Messages -> O!Row]
    BY <1>8, ZenonT(60) DEF O!Skip, O!Row, O!Settled
  <2> QED
    BY <1>8, <2>1, DoneType DEF O!Skip
<1>9. ASSUME NEW p \in Pods, NEW m \in Messages,
             O!PostAccepted(p, m) \/ O!PostLost(p, m) \/ O!PostRefused(p, m)
      PROVE O!TypeOK'
  BY <1>9, NoMessageAssumption DEF O!PostAccepted, O!PostLost, O!PostRefused, O!Flush, O!Answers
<1>10. ASSUME NEW p \in Pods, O!Store(p) PROVE O!TypeOK'
  <2>1. pod[p].hand \in Messages
    BY <1>10 DEF O!Store, O!Flush
  <2>2. row' \in [Messages -> O!Row]
    <3> DEFINE m == pod[p].hand
    <3>1. {"sent", "failed"} \subseteq O!Settled
      BY DEF O!Settled, O!Rank
    <3>2. ASSUME NEW r \in O!Row
          PROVE  /\ [r EXCEPT !.status = "sent", !.known = TRUE, !.stale = FALSE] \in O!Row
                 /\ [r EXCEPT !.status = "failed", !.stale = FALSE] \in O!Row
                 /\ [r EXCEPT !.status = "pending", !.due = FALSE, !.stale = FALSE] \in O!Row
      BY <3>1 DEF O!Row
    <3>3. PICK r \in O!Row : row' = [row EXCEPT ![m] = r]
      <4> DEFINE sent == [row[m] EXCEPT !.status = "sent", !.known = TRUE, !.stale = FALSE]
                 failed == [row[m] EXCEPT !.status = "failed", !.stale = FALSE]
                 again == [row[m] EXCEPT !.status = "pending", !.due = FALSE, !.stale = FALSE]
      <4>1. \/ row' = [row EXCEPT ![m] = sent]
            \/ row' = [row EXCEPT ![m] = failed]
            \/ row' = [row EXCEPT ![m] = again]
        BY <1>10, <2>1 DEF O!Store
      <4>2. sent \in O!Row /\ failed \in O!Row /\ again \in O!Row
        BY <2>1, <3>2
      <4> HIDE DEF sent, failed, again
      <4> QED
        BY <4>1, <4>2
    <3> QED
      BY <2>1, <3>3
  <2> QED
    BY <1>10, <2>1, <2>2, DoneType DEF O!Store
<1>11. CASE UNCHANGED O!vars
  BY <1>11 DEF O!vars
<1> QED
  BY <1>1, <1>2, <1>3, <1>4, <1>5, <1>6, <1>7, <1>8, <1>9, <1>10, <1>11
     DEF O!Next, O!Work, O!Deliver

\* Every row, flush and counter of the sender keeps its type, and an
\* instance has a row in hand exactly while it stores an answer.
THEOREM SenderTypeCorrect == O!Spec => []O!TypeOK
  BY SenderTypesInit, SenderTypes, PTL DEF O!Spec

----------------------------------------------------------------------------
(* The outbox: the invariant holds at first, and what a delivery keeps.    *)

LEMMA SenderInit == O!Init => SenderInv
<1> SUFFICES ASSUME O!Init PROVE SenderInv
  OBVIOUS
<1>1. O!TypeOK
  BY SenderTypesInit
<1>2. \A p \in Pods, m \in Messages : ~ O!Holds(p, m)
  BY DEF O!Init, O!Asleep, O!NoBatch, O!Holds
<1>3. Backed /\ InHand
  BY DEF O!Init, Backed, InHand, O!Absent, O!Asleep
<1>4. \A m \in Messages : Clear(m)
  BY <1>2 DEF O!Init, Clear, Sole, Witnessed, O!Absent
<1> QED
  BY <1>1, <1>3, <1>4 DEF SenderInv

\* What letting go of a row changes, and what it does not.
LEMMA DoneEffect ==
  ASSUME O!TypeOK, NEW p \in Pods, NEW m \in Messages, O!Done(p, m)
  PROVE  /\ \A q \in Pods, n \in Messages :
              O!Holds(q, n)' <=> O!Holds(q, n) /\ ~ (q = p /\ n = m)
         /\ pod'[p].answer = "none" /\ pod'[p].pc # "storing"
         /\ \A q \in Pods : q # p => pod'[q] = pod[q]
<1>1. pod'[p].batch = [pod[p].batch EXCEPT ![m] = 0]
  BY DEF O!TypeOK, O!Done, O!Asleep, O!Flush
<1>2. \A n \in Messages : O!Holds(p, n)' <=> O!Holds(p, n) /\ n # m
  BY <1>1 DEF O!TypeOK, O!Flush, O!Holds
<1>3. pod'[p].answer = "none" /\ pod'[p].pc # "storing"
  BY DEF O!TypeOK, O!Done, O!Asleep, O!Flush
<1>4. \A q \in Pods : q # p => pod'[q] = pod[q]
  BY DEF O!TypeOK, O!Done
<1> QED
  BY <1>2, <1>3, <1>4 DEF O!Holds

\* A message that is out of doubt afterwards was out of doubt before.
LEMMA DoubtStays ==
  ASSUME O!TypeOK, O!Next, NEW m \in Messages, ~ doubt'[m]
  PROVE  ~ doubt[m]
<1>1. CASE UNCHANGED doubt
  BY <1>1
<1>2. ASSUME NEW p \in Pods, O!Stall(p) PROVE ~ doubt[m]
  BY <1>2 DEF O!Stall, O!TypeOK
<1>3. ASSUME NEW p \in Pods, O!Cut(p) PROVE ~ doubt[m]
  BY <1>3 DEF O!Cut, O!TypeOK
<1>4. ASSUME NEW p \in Pods, NEW n \in Messages, O!PostLost(p, n) PROVE ~ doubt[m]
  BY <1>4 DEF O!PostLost, O!TypeOK
<1> QED
  BY <1>1, <1>2, <1>3, <1>4, ZenonT(60)
     DEF O!Next, O!Enqueue, O!ComeDue, O!Age, O!Receipt, O!Work, O!BeginFlush, O!Claim,
         O!EndFlush, O!Deliver,
         O!Skip, O!PostAccepted, O!PostRefused, O!Store

\* While an instance holds a message out of doubt and has no yes from Meta
\* to store for it, Meta has not accepted the message.
LEMMA NotYetAccepted ==
  ASSUME SenderInv, NEW m \in Messages, ~ doubt[m], NEW p \in Pods, O!Holds(p, m),
         pod[p].hand # m \/ pod[p].answer # "ok"
  PROVE  accepted[m] = 0
<1>1. Sole(m) /\ Witnessed(m)
  BY DEF SenderInv, Clear
<1>2. row[m].status \notin O!Settled
  BY <1>1 DEF Sole, O!Settled, O!Rank
<1>3. ASSUME NEW q \in Pods, pod[q].hand = m, pod[q].answer = "ok" PROVE FALSE
  <2>1. O!Holds(q, m)
    BY <1>3 DEF SenderInv, InHand
  <2> QED
    BY <1>1, <1>3, <2>1 DEF Sole
<1>4. accepted[m] \in Nat
  BY DEF SenderInv, O!TypeOK
<1> QED
  BY <1>1, <1>2, <1>3, <1>4 DEF Witnessed

\* A message out of doubt that nobody holds, unless it is settled, has not
\* been accepted.
LEMMA FreeNotAccepted ==
  ASSUME SenderInv, NEW m \in Messages, ~ doubt[m], \A p \in Pods : ~ O!Holds(p, m),
         row[m].status \notin O!Settled
  PROVE  accepted[m] = 0
<1>1. Witnessed(m) /\ accepted[m] \in Nat
  BY DEF SenderInv, Clear, O!TypeOK
<1>2. \A q \in Pods : ~ (pod[q].hand = m /\ pod[q].answer = "ok")
  BY DEF SenderInv, InHand
<1> QED
  BY <1>1, <1>2 DEF Witnessed

----------------------------------------------------------------------------
(* The outbox: steps that write rows.                                      *)

\* Handlers and the clock.
LEMMA OutsideStep ==
  ASSUME SenderInv, O!TypeOK', NEW m \in Messages, O!Enqueue(m) \/ O!ComeDue(m) \/ O!Age(m)
  PROVE  SenderInv'
<1> USE DEF SenderInv
<1>1. /\ UNCHANGED <<pod, accepted, doubt>>
      /\ \A n \in Messages :
           /\ n # m => row'[n] = row[n]
           /\ row'[n].known = row[n].known
  BY DEF O!Enqueue, O!ComeDue, O!Age, O!TypeOK, O!Row
<1>2. /\ row[m].status \in {"absent", "pending", "sending"}
      /\ row'[m].status \in {"pending", "sending"}
      /\ \A p \in Pods : O!Holds(p, m) => row[m].status # "sending"
  BY DEF O!Enqueue, O!ComeDue, O!Age, O!TypeOK, O!Row
<1>3. Backed'
  BY <1>1, <1>2 DEF Backed
<1>4. InHand'
  BY <1>1 DEF InHand, O!Holds
<1>5. ASSUME NEW n \in Messages, ~ doubt'[n] PROVE Clear(n)'
  <2>1. Clear(n)
    BY <1>1, <1>5
  <2>2. CASE n # m
    BY <1>1, <2>1, <2>2 DEF Clear, Sole, Witnessed, O!Holds
  <2>3. CASE n = m
    <3>1. \A p \in Pods : ~ O!Holds(p, m)
      BY <1>2, <2>1, <2>3 DEF Clear, Sole
    <3>2. accepted[m] = 0 /\ ~ row[m].known
      <4>1. row[m].status \notin O!Settled
        BY <1>2 DEF O!Settled, O!Rank
      <4>2. accepted[m] = 0
        BY <1>1, <1>5, <2>3, <3>1, <4>1, FreeNotAccepted
      <4> QED
        BY <4>2 DEF Backed
    <3>3. Sole(m)'
      BY <1>1, <3>1 DEF Sole, O!Holds
    <3> QED
      BY <1>1, <2>3, <3>2, <3>3 DEF Clear, Witnessed
  <2> QED
    BY <2>2, <2>3
<1> QED
  BY <1>3, <1>4, <1>5

\* A receipt finds only rows that are settled, unless they are in doubt.
LEMMA ReceiptStep ==
  ASSUME SenderInv, O!TypeOK', NEW m \in Messages, NEW status \in Receipts, O!Receipt(m, status)
  PROVE  SenderInv'
<1> USE DEF SenderInv
<1>1. /\ UNCHANGED <<pod, accepted, doubt>>
      /\ row[m].known
      /\ row'[m].status = status /\ row'[m].known
      /\ \A n \in Messages : n # m => row'[n] = row[n]
  BY DEF O!Receipt, O!TypeOK, O!Row
<1>2. status \in DOMAIN O!Rank
  BY ReceiptsAssumption DEF O!Rank
<1>3. Backed'
  BY <1>1 DEF Backed
<1>4. InHand'
  BY <1>1 DEF InHand, O!Holds
<1>5. ASSUME NEW n \in Messages, ~ doubt'[n] PROVE Clear(n)'
  <2>1. Clear(n)
    BY <1>1, <1>5
  <2>2. CASE n # m
    BY <1>1, <2>1, <2>2 DEF Clear, Sole, Witnessed, O!Holds
  <2>3. CASE n = m
    <3>1. \A p \in Pods : ~ O!Holds(p, m)
      <4>1. row[m].status # "sending"
        BY <1>1, <2>1, <2>3 DEF Clear, O!Rank
      <4> QED
        BY <2>1, <2>3, <4>1 DEF Clear, Sole
    <3>2. Sole(m)'
      BY <1>1, <3>1 DEF Sole, O!Holds
    <3> QED
      BY <1>1, <1>2, <2>1, <2>3, <3>2 DEF Clear, Witnessed, O!Settled
  <2> QED
    BY <2>2, <2>3
<1> QED
  BY <1>3, <1>4, <1>5

\* The start of a flush takes away only rows that nobody holds, or in doubt.
LEMMA BeginStep ==
  ASSUME SenderInv, O!TypeOK', NEW p \in Pods, O!BeginFlush(p)
  PROVE  SenderInv'
<1> USE DEF SenderInv
<1>1. /\ UNCHANGED <<accepted, doubt>>
      /\ \A q \in Pods : pod'[q].hand = pod[q].hand /\ pod'[q].answer = pod[q].answer
      /\ \A q \in Pods : (pod'[q].pc = "storing") = (pod[q].pc = "storing")
      /\ \A q \in Pods : pod'[q].batch = pod[q].batch
  BY DEF O!BeginFlush, O!TypeOK, O!Flush
<1>2. ASSUME NEW n \in Messages
      PROVE  /\ row'[n].known = row[n].known
             /\ \/ row'[n] = row[n]
                \/ row[n].status = "sending" /\ row[n].stale /\ row'[n].status = "pending"
  BY ZenonT(60) DEF O!BeginFlush, O!Requeued, O!TypeOK, O!Row
<1>3. Backed'
  BY <1>1, <1>2 DEF Backed
<1>4. InHand'
  BY <1>1 DEF InHand, O!Holds
<1>5. ASSUME NEW n \in Messages, ~ doubt'[n] PROVE Clear(n)'
  <2>1. Clear(n)
    BY <1>1, <1>5
  <2>2. CASE row'[n] = row[n]
    BY <1>1, <2>1, <2>2 DEF Clear, Sole, Witnessed, O!Holds
  <2>3. CASE row[n].status = "sending" /\ row[n].stale /\ row'[n].status = "pending"
    <3>1. \A q \in Pods : ~ O!Holds(q, n)
      BY <2>1, <2>3 DEF Clear, Sole
    <3>2. accepted[n] = 0
      BY <1>1, <1>5, <2>3, <3>1, FreeNotAccepted DEF O!Settled, O!Rank
    <3>3. Sole(n)'
      BY <1>1, <3>1 DEF Sole, O!Holds
    <3> QED
      BY <1>1, <1>2, <3>2, <3>3 DEF Clear, Witnessed, Backed
  <2> QED
    BY <1>2, <2>2, <2>3
<1> QED
  BY <1>3, <1>4, <1>5

\* A claim takes rows nobody holds.
LEMMA ClaimStep ==
  ASSUME SenderInv, O!TypeOK', NEW p \in Pods, O!Claim(p)
  PROVE  SenderInv'
<1> USE DEF SenderInv
<1>1. PICK B \in SUBSET {m \in Messages : O!Claimable(m)} :
        /\ row' = [m \in Messages |-> IF m \in B
             THEN [row[m] EXCEPT !.status = "sending", !.attempts = @ + 1, !.stale = FALSE]
             ELSE row[m]]
        /\ pod' = [pod EXCEPT ![p].pc = "sending",
             ![p].batch = [m \in Messages |-> IF m \in B THEN row[m].attempts + 1 ELSE 0]]
  BY DEF O!Claim
<1> DEFINE tries == [m \in Messages |-> IF m \in B THEN row[m].attempts + 1 ELSE 0]
<1>2. /\ UNCHANGED <<accepted, doubt>>
      /\ pod[p].pc = "claiming"
      /\ \A q \in Pods : pod'[q].hand = pod[q].hand /\ pod'[q].answer = pod[q].answer
      /\ \A q \in Pods : (pod'[q].pc = "storing") = (pod[q].pc = "storing")
      /\ \A q \in Pods : q # p => pod'[q].batch = pod[q].batch
      /\ pod'[p].batch = tries
  <2>1. pod' = [pod EXCEPT ![p].pc = "sending", ![p].batch = tries]
    BY <1>1
  <2>2. UNCHANGED <<accepted, doubt>> /\ pod[p].pc = "claiming"
    BY DEF O!Claim
  <2> HIDE DEF tries
  <2> QED
    BY <2>1, <2>2 DEF O!TypeOK, O!Flush
<1>3. \A n \in Messages : O!Holds(p, n)' <=> n \in B
  <2>1. \A n \in Messages : row[n].attempts \in Nat
    BY DEF O!TypeOK, O!Row
  <2> QED
    BY <1>2, <2>1 DEF O!Holds
<1> HIDE DEF tries
<1>4. ASSUME NEW n \in Messages
      PROVE  /\ row'[n].known = row[n].known
             /\ n \notin B => row'[n] = row[n]
             /\ n \in B => /\ row[n].status = "pending"
                           /\ row'[n].status = "sending" /\ ~ row'[n].stale
  BY <1>1, ZenonT(60) DEF O!Claimable, O!TypeOK, O!Row
<1>5. Backed'
  BY <1>2, <1>4 DEF Backed
<1>6. InHand'
  BY <1>2 DEF InHand, O!Holds
<1>7. ASSUME NEW n \in Messages, ~ doubt'[n] PROVE Clear(n)'
  <2>1. Clear(n)
    BY <1>2, <1>7
  <2>2. CASE n \notin B
    <3>1. \A q \in Pods : O!Holds(q, n)' => O!Holds(q, n)
      BY <1>2, <1>3, <2>2 DEF O!Holds
    <3>2. row'[n] = row[n]
      BY <1>4, <2>2
    <3> QED
      BY <1>2, <2>1, <3>1, <3>2 DEF Clear, Sole, Witnessed
  <2>3. CASE n \in B
    <3>1. \A q \in Pods : ~ O!Holds(q, n)
      BY <1>4, <2>1, <2>3 DEF Clear, Sole
    <3>2. accepted[n] = 0
      BY <1>2, <1>4, <1>7, <2>3, <3>1, FreeNotAccepted DEF O!Settled, O!Rank
    <3>3. \A q \in Pods : O!Holds(q, n)' => q = p
      BY <1>2, <3>1 DEF O!Holds
    <3>4. Sole(n)'
      BY <1>4, <2>3, <3>3 DEF Sole
    <3> QED
      BY <1>2, <1>4, <3>2, <3>4 DEF Clear, Witnessed, Backed
  <2> QED
    BY <2>2, <2>3
<1> QED
  BY <1>5, <1>6, <1>7

----------------------------------------------------------------------------
(* The outbox: steps of a delivery.                                        *)

LEMMA PostStep ==
  ASSUME SenderInv, O!TypeOK', NEW p \in Pods, NEW m \in Messages,
         O!PostAccepted(p, m) \/ O!PostLost(p, m) \/ O!PostRefused(p, m)
  PROVE  SenderInv'
<1> USE DEF SenderInv
<1>1. /\ row' = row
      /\ pod[p].pc = "sending" /\ O!Holds(p, m)
      /\ pod'[p].pc = "storing" /\ pod'[p].hand = m
      /\ \A q \in Pods : q # p => pod'[q] = pod[q]
      /\ \A q \in Pods, n \in Messages : O!Holds(q, n)' <=> O!Holds(q, n)
  BY DEF O!PostAccepted, O!PostLost, O!PostRefused, O!TypeOK, O!Flush, O!Holds
<1>2. /\ \A n \in Messages : n # m => accepted'[n] = accepted[n]
      /\ accepted'[m] \in {accepted[m], accepted[m] + 1}
      /\ \A n \in Messages : accepted[n] \in Nat
      /\ pod'[p].answer = "ok" => accepted'[m] = accepted[m] + 1
      /\ ~ doubt'[m] /\ accepted'[m] # accepted[m] => pod'[p].answer = "ok"
      /\ \A n \in Messages : ~ doubt'[n] => ~ doubt[n]
  BY DEF O!PostAccepted, O!PostLost, O!PostRefused, O!TypeOK, O!Flush
<1>3. pod[p].answer = "none"
  BY <1>1 DEF InHand
<1>4. Backed'
  <2>1. \A n \in Messages : accepted[n] > 0 => accepted'[n] > 0
    BY <1>2
  <2>2. ASSUME NEW q \in Pods, pod'[q].answer = "ok" PROVE accepted'[pod'[q].hand] > 0
    <3>1. CASE q = p
      BY <1>1, <1>2, <2>2, <3>1
    <3>2. CASE q # p
      <4>1. pod[q].answer = "ok" /\ pod'[q].hand = pod[q].hand
        BY <1>1, <2>2, <3>2
      <4>2. pod[q].hand \in Messages
        BY <4>1 DEF InHand, O!TypeOK, O!Flush
      <4> QED
        BY <2>1, <4>1, <4>2 DEF Backed
    <3> QED
      BY <3>1, <3>2
  <2> QED
    BY <1>1, <2>1, <2>2 DEF Backed
<1>5. InHand'
  <2>1. ASSUME NEW q \in Pods
        PROVE  IF pod'[q].pc = "storing"
                 THEN pod'[q].batch[pod'[q].hand] # 0 ELSE pod'[q].answer = "none"
    <3>1. CASE q = p
      BY <1>1, <3>1 DEF O!Holds
    <3>2. CASE q # p
      BY <1>1, <3>2 DEF InHand, O!Holds
    <3> QED
      BY <3>1, <3>2
  <2> QED
    BY <2>1 DEF InHand, O!Holds
<1>6. ASSUME NEW n \in Messages, ~ doubt'[n] PROVE Clear(n)'
  <2>1. ~ doubt[n] /\ Clear(n)
    BY <1>2, <1>6
  <2>2. Sole(n)'
    BY <1>1, <2>1 DEF Clear, Sole
  <2>3. CASE n # m
    <3>1. Witnessed(n)'
      BY <1>1, <1>2, <1>3, <2>1, <2>3 DEF Clear, Witnessed
    <3> QED
      BY <1>1, <1>2, <2>1, <2>2, <2>3, <3>1 DEF Clear
  <2>4. CASE n = m
    <3>1. accepted[m] = 0
      BY <1>1, <1>3, <2>1, <2>4, NotYetAccepted
    <3>2. Witnessed(m)'
      BY <1>1, <1>2, <1>6, <2>4, <3>1 DEF Witnessed
    <3> QED
      BY <1>1, <1>2, <2>1, <2>2, <2>4, <3>1, <3>2 DEF Clear
  <2> QED
    BY <2>3, <2>4
<1> QED
  BY <1>4, <1>5, <1>6

\* A delivery ends with a row that says what became of the message, and
\* with one holder less.
LEMMA DeliveredStep ==
  ASSUME SenderInv, O!TypeOK', NEW p \in Pods, NEW m \in Messages, O!Done(p, m), O!Holds(p, m),
         UNCHANGED <<accepted, doubt>>,
         \A n \in Messages : n # m => row'[n] = row[n],
         row'[m].status \in {"pending", "sent", "failed", "skipped"},
         row'[m].status = "sent" => pod[p].answer = "ok",
         pod[p].pc = "sending" \/ pod[p].hand = m,
         row'[m].known => row[m].known \/ pod[p].answer = "ok",
         pod[p].answer = "ok" => row'[m].status = "sent",
         row'[m].status = "sent" \/ row'[m].known = row[m].known
  PROVE  SenderInv'
<1> USE DEF SenderInv
<1>1. /\ \A q \in Pods, n \in Messages : O!Holds(q, n)' <=> O!Holds(q, n) /\ ~ (q = p /\ n = m)
      /\ pod'[p].answer = "none" /\ pod'[p].pc # "storing"
      /\ \A q \in Pods : q # p => pod'[q] = pod[q]
  BY DoneEffect
<1>2. pod[p].answer = "ok" => pod[p].hand = m
  BY DEF InHand
<1>3. Backed'
  BY <1>1, <1>2 DEF Backed
<1>4. InHand'
  <2>1. ASSUME NEW q \in Pods
        PROVE  IF pod'[q].pc = "storing"
                 THEN pod'[q].batch[pod'[q].hand] # 0 ELSE pod'[q].answer = "none"
    <3>1. CASE q = p
      BY <1>1, <3>1
    <3>2. CASE q # p
      BY <1>1, <3>2 DEF InHand, O!Holds
    <3> QED
      BY <3>1, <3>2
  <2> QED
    BY <2>1 DEF InHand, O!Holds
<1>5. ASSUME NEW n \in Messages, ~ doubt'[n] PROVE Clear(n)'
  <2>1. ~ doubt[n] /\ Clear(n)
    BY <1>5
  <2>2. CASE n # m
    <3>1. Sole(n)'
      BY <1>1, <2>1, <2>2 DEF Clear, Sole
    <3>2. Witnessed(n)'
      BY <1>1, <1>2, <2>1, <2>2 DEF Clear, Witnessed
    <3> QED
      BY <2>1, <2>2, <3>1, <3>2 DEF Clear
  <2>3. CASE n = m
    <3>1. row[m].status = "sending" /\ \A q \in Pods : ~ O!Holds(q, m)'
      BY <1>1, <2>1, <2>3 DEF Clear, Sole
    <3>2. Sole(m)'
      BY <3>1 DEF Sole
    <3>3. row'[m].known => row'[m].status \in DOMAIN O!Rank
      BY <2>1, <2>3, <3>1 DEF Clear, O!Rank
    <3>4. Witnessed(m)'
      <4>1. CASE pod[p].answer = "ok"
        BY <4>1 DEF Witnessed, O!Settled, O!Rank
      <4>2. CASE pod[p].answer # "ok"
        BY <2>1, <2>3, <4>2, NotYetAccepted DEF Witnessed
      <4> QED
        BY <4>1, <4>2
    <3> QED
      BY <2>1, <2>3, <3>2, <3>3, <3>4 DEF Clear
  <2> QED
    BY <2>2, <2>3
<1> QED
  BY <1>3, <1>4, <1>5

LEMMA SkipStep ==
  ASSUME SenderInv, O!TypeOK', NEW p \in Pods, NEW m \in Messages, O!Skip(p, m)
  PROVE  SenderInv'
<1>1. pod[p].answer = "none"
  BY DEF O!Skip, SenderInv, InHand
<1>2. /\ row'[m].status = "skipped" /\ row'[m].known = row[m].known
      /\ \A n \in Messages : n # m => row'[n] = row[n]
  BY DEF O!Skip, SenderInv, O!TypeOK, O!Row
<1> QED
  BY <1>1, <1>2, DeliveredStep DEF O!Skip

LEMMA StoreStep ==
  ASSUME SenderInv, O!TypeOK', NEW p \in Pods, O!Store(p)
  PROVE  SenderInv'
<1> DEFINE m == pod[p].hand
<1>1. m \in Messages
  BY DEF O!Store, SenderInv, O!TypeOK, O!Flush
<1>2. O!Holds(p, m)
  BY DEF O!Store, SenderInv, InHand
<1>3. \/ /\ pod[p].answer = "ok"
         /\ row' = [row EXCEPT ![m].status = "sent", ![m].known = TRUE, ![m].stale = FALSE]
      \/ /\ pod[p].answer # "ok"
         /\ row' = [row EXCEPT ![m].status = "failed", ![m].stale = FALSE]
      \/ /\ pod[p].answer # "ok"
         /\ row' = [row EXCEPT ![m].status = "pending", ![m].due = FALSE, ![m].stale = FALSE]
  BY DEF O!Store, O!WasSent
<1>4. /\ row'[m].status \in {"pending", "sent", "failed"}
      /\ row'[m].status = "sent" <=> pod[p].answer = "ok"
      /\ pod[p].answer # "ok" => row'[m].known = row[m].known
      /\ \A n \in Messages : n # m => row'[n] = row[n]
  <2> HIDE DEF m
  <2> QED
    BY <1>1, <1>3 DEF SenderInv, O!TypeOK, O!Row
<1>5. O!Done(p, m) /\ UNCHANGED <<accepted, doubt>>
  BY DEF O!Store
<1> QED
  BY <1>1, <1>2, <1>4, <1>5, DeliveredStep

----------------------------------------------------------------------------
(* The outbox: faults.                                                     *)

LEMMA StallStep ==
  ASSUME SenderInv, O!TypeOK', NEW p \in Pods, O!Stall(p)
  PROVE  SenderInv'
<1> USE DEF SenderInv
<1>1. /\ UNCHANGED <<pod, accepted>>
      /\ \A n \in Messages : row'[n].known = row[n].known /\ row'[n].status = row[n].status
  BY DEF O!Stall, O!TypeOK, O!Row
<1>2. ASSUME NEW n \in Messages, ~ doubt'[n]
      PROVE  ~ doubt[n] /\ (row'[n].stale = row[n].stale)
  BY <1>2 DEF O!Stall, O!TypeOK, O!Row, O!Holds
<1>3. Backed'
  BY <1>1 DEF Backed
<1>4. InHand'
  BY <1>1 DEF InHand, O!Holds
<1>5. ASSUME NEW n \in Messages, ~ doubt'[n] PROVE Clear(n)'
  BY <1>1, <1>2, <1>5 DEF Clear, Sole, Witnessed, O!Holds
<1> QED
  BY <1>3, <1>4, <1>5

LEMMA CutStep ==
  ASSUME SenderInv, O!TypeOK', NEW p \in Pods, O!Cut(p)
  PROVE  SenderInv'
<1> USE DEF SenderInv
<1>1. /\ UNCHANGED <<row, accepted>>
      /\ pod'[p] = O!Asleep
      /\ \A q \in Pods : q # p => pod'[q] = pod[q]
  BY DEF O!Cut, O!TypeOK
<1>2. \A n \in Messages : ~ doubt'[n] =>
        ~ doubt[n] /\ ~ (pod[p].hand = n /\ pod[p].answer = "ok")
  BY DEF O!Cut, O!TypeOK
<1>3. /\ \A q \in Pods, n \in Messages : O!Holds(q, n)' <=> O!Holds(q, n) /\ q # p
      /\ pod'[p].pc # "storing" /\ pod'[p].answer = "none"
  BY <1>1 DEF O!Holds, O!Asleep, O!NoBatch
<1>4. Backed'
  BY <1>1, <1>3 DEF Backed
<1>5. InHand'
  <2>1. ASSUME NEW q \in Pods
        PROVE  IF pod'[q].pc = "storing"
                 THEN pod'[q].batch[pod'[q].hand] # 0 ELSE pod'[q].answer = "none"
    <3>1. CASE q = p
      BY <1>3, <3>1
    <3>2. CASE q # p
      BY <1>1, <3>2 DEF InHand, O!Holds
    <3> QED
      BY <3>1, <3>2
  <2> QED
    BY <2>1 DEF InHand, O!Holds
<1>6. ASSUME NEW n \in Messages, ~ doubt'[n] PROVE Clear(n)'
  <2>1. ~ doubt[n] /\ Clear(n) /\ ~ (pod[p].hand = n /\ pod[p].answer = "ok")
    BY <1>2, <1>6
  <2>2. Sole(n)'
    BY <1>1, <1>3, <2>1 DEF Clear, Sole
  <2>3. Witnessed(n)'
    BY <1>1, <2>1 DEF Clear, Witnessed
  <2> QED
    BY <1>1, <2>1, <2>2, <2>3 DEF Clear
<1> QED
  BY <1>4, <1>5, <1>6

----------------------------------------------------------------------------
(* The outbox: the theorems.                                               *)

LEMMA SenderStep == SenderInv /\ [O!Next]_O!vars => SenderInv'
<1> SUFFICES ASSUME SenderInv, [O!Next]_O!vars PROVE SenderInv'
  OBVIOUS
<1>1. O!TypeOK'
  BY SenderTypes DEF SenderInv
<1>2. ASSUME NEW m \in Messages, O!Enqueue(m) \/ O!ComeDue(m) \/ O!Age(m) PROVE SenderInv'
  BY <1>1, <1>2, OutsideStep
<1>3. ASSUME NEW m \in Messages, NEW status \in Receipts, O!Receipt(m, status) PROVE SenderInv'
  BY <1>1, <1>3, ReceiptStep
<1>4. ASSUME NEW p \in Pods, O!BeginFlush(p) PROVE SenderInv'
  BY <1>1, <1>4, BeginStep
<1>5. ASSUME NEW p \in Pods, O!Claim(p) PROVE SenderInv'
  BY <1>1, <1>5, ClaimStep
<1>6. ASSUME NEW p \in Pods, O!EndFlush(p) PROVE SenderInv'
  <2>1. /\ UNCHANGED <<row, accepted, doubt>>
        /\ \A q \in Pods :
             /\ pod'[q].batch = pod[q].batch /\ pod'[q].hand = pod[q].hand
             /\ pod'[q].answer = pod[q].answer
             /\ (pod'[q].pc = "storing") = (pod[q].pc = "storing")
    BY <1>6 DEF O!EndFlush, SenderInv, O!TypeOK, O!Flush
  <2>2. Backed' /\ InHand'
    BY <2>1 DEF SenderInv, Backed, InHand, O!Holds
  <2>3. ASSUME NEW n \in Messages, ~ doubt'[n] PROVE Clear(n)'
    BY <2>1, <2>3 DEF SenderInv, Clear, Sole, Witnessed, O!Holds
  <2> QED
    BY <1>1, <2>2, <2>3 DEF SenderInv
<1>7. ASSUME NEW p \in Pods, NEW m \in Messages, O!Skip(p, m) PROVE SenderInv'
  BY <1>1, <1>7, SkipStep
<1>8. ASSUME NEW p \in Pods, NEW m \in Messages,
             O!PostAccepted(p, m) \/ O!PostLost(p, m) \/ O!PostRefused(p, m)
      PROVE SenderInv'
  BY <1>1, <1>8, PostStep
<1>9. ASSUME NEW p \in Pods, O!Store(p) PROVE SenderInv'
  BY <1>1, <1>9, StoreStep
<1>10. ASSUME NEW p \in Pods, O!Stall(p) PROVE SenderInv'
  BY <1>1, <1>10, StallStep
<1>11. ASSUME NEW p \in Pods, O!Cut(p) PROVE SenderInv'
  BY <1>1, <1>11, CutStep
<1>12. CASE UNCHANGED O!vars
  BY <1>12 DEF O!vars, SenderInv, O!TypeOK, Backed, InHand, Clear, Sole, Witnessed, O!Holds
<1> QED
  BY <1>2, <1>3, <1>4, <1>5, <1>6, <1>7, <1>8, <1>9, <1>10, <1>11, <1>12
     DEF O!Next, O!Work, O!Deliver

LEMMA SenderInvariance == O!Spec => []SenderInv
  BY SenderInit, SenderStep, PTL DEF O!Spec

\* Several instances share the queue, restart and stall, and still Meta
\* accepts a message once, unless its answer was lost, or an instance died
\* or stalled while it had the message: the claim with SKIP LOCKED, the
\* five minutes and the webhook's guard work together.
THEOREM AcceptedOnce == O!Spec => []OnceUnlessInDoubt
<1>1. SenderInv => OnceUnlessInDoubt
  BY DEF SenderInv, O!TypeOK, Clear, OnceUnlessInDoubt
<1> QED
  BY <1>1, SenderInvariance, PTL

\* No row says sent, delivered or read of a message Meta never accepted.
THEOREM SentIsTrue == O!Spec => []SentWasAccepted
<1>1. SenderInv => SentWasAccepted
  BY DEF SenderInv, Backed, SentWasAccepted
<1> QED
  BY <1>1, SenderInvariance, PTL

\* A step leaves a message out of doubt with a status Meta knows, and does
\* not take it back.
ForwardStep ==
  \A m \in Messages :
    row[m].status \in DOMAIN O!Rank /\ ~ doubt[m] =>
      /\ row'[m].status \in DOMAIN O!Rank
      /\ O!Rank[row'[m].status] >= O!Rank[row[m].status]

LEMMA SenderForward == SenderInv /\ [O!Next]_O!vars => [ForwardStep]_O!vars
<1> SUFFICES ASSUME SenderInv, O!Next, NEW m \in Messages,
                    row[m].status \in DOMAIN O!Rank, ~ doubt[m]
             PROVE  /\ row'[m].status \in DOMAIN O!Rank
                    /\ O!Rank[row'[m].status] >= O!Rank[row[m].status]
  BY DEF ForwardStep
<1>1. row[m].status \notin {"absent", "pending", "sending"}
  BY DEF O!Rank
<1>2. \A p \in Pods : ~ O!Holds(p, m)
  BY <1>1 DEF SenderInv, Clear, Sole
<1>3. ASSUME row'[m].status = row[m].status
      PROVE  /\ row'[m].status \in DOMAIN O!Rank
             /\ O!Rank[row'[m].status] >= O!Rank[row[m].status]
  BY <1>3 DEF O!Rank
<1>4. ASSUME NEW n \in Messages, NEW status \in Receipts, O!Receipt(n, status)
      PROVE  /\ row'[m].status \in DOMAIN O!Rank
             /\ O!Rank[row'[m].status] >= O!Rank[row[m].status]
  <2>1. CASE n # m
    BY <1>3, <1>4, <2>1 DEF O!Receipt, SenderInv, O!TypeOK
  <2>2. CASE n = m
    <3>1. row'[m].status = status /\ O!Rank[row[m].status] < O!Rank[status]
      BY <1>4, <2>2 DEF O!Receipt, O!Newer, SenderInv, O!TypeOK, O!Row
    <3> QED
      BY <3>1, ReceiptsAssumption DEF O!Rank
  <2> QED
    BY <2>1, <2>2
<1>5. ASSUME NEW n \in Messages, O!Enqueue(n) \/ O!ComeDue(n) \/ O!Age(n)
      PROVE  row'[m].status = row[m].status
  BY <1>1, <1>5 DEF O!Enqueue, O!ComeDue, O!Age, SenderInv, O!TypeOK, O!Row
<1>6. ASSUME NEW p \in Pods, O!BeginFlush(p) PROVE row'[m].status = row[m].status
  BY <1>1, <1>6 DEF O!BeginFlush, O!Requeued, SenderInv, O!TypeOK, O!Row
<1>7. ASSUME NEW p \in Pods, O!Claim(p) PROVE row'[m].status = row[m].status
  BY <1>1, <1>7 DEF O!Claim, O!Claimable
<1>8. ASSUME NEW p \in Pods, NEW n \in Messages, O!Skip(p, n)
      PROVE  row'[m].status = row[m].status
  BY <1>2, <1>8 DEF O!Skip, SenderInv, O!TypeOK, O!Row
<1>9. ASSUME NEW p \in Pods, O!Store(p) PROVE row'[m].status = row[m].status
  <2>1. pod[p].hand # m
    BY <1>2, <1>9 DEF O!Store, SenderInv, InHand
  <2> QED
    BY <1>9, <2>1 DEF O!Store, SenderInv, O!TypeOK, O!Row
<1>10. ASSUME NEW p \in Pods, O!Stall(p) PROVE row'[m].status = row[m].status
  BY <1>10 DEF O!Stall, SenderInv, O!TypeOK, O!Row
<1>11. CASE UNCHANGED row
  BY <1>3, <1>11
<1> QED
  BY <1>3, <1>4, <1>5, <1>6, <1>7, <1>8, <1>9, <1>10, <1>11, ZenonT(60)
     DEF O!Next, O!Work, O!Deliver, O!EndFlush, O!PostAccepted, O!PostLost, O!PostRefused, O!Cut

\* Receipts may come in any order and at any time, senders restart and
\* stall: the status of a message out of doubt only moves forward.
THEOREM ForwardOnly == O!Spec => StatusForward
<1>1. [ForwardStep]_O!vars => [ForwardStep]_row
  BY DEF O!vars, ForwardStep
<1>2. O!Spec => [][ForwardStep]_row
  BY <1>1, SenderInvariance, SenderForward, PTL DEF O!Spec
<1> QED
  BY <1>2 DEF ForwardStep, StatusForward, O!Rank, Rank
=============================================================================
