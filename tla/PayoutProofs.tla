---------------------------- MODULE PayoutProofs ----------------------------
(***************************************************************************)
(* The host's ledger and disbursements add up, for any bookings, amounts,  *)
(* requests, workers, deliveries and faults.                               *)
(*                                                                         *)
(* The ledger needs no lock: the index admits one earning of a booking,    *)
(* and every part of the net is at most the net.  The disbursements do:    *)
(* between the sums and the reservation only the holder of the mutex may   *)
(* add to what is committed, while everyone may add to what was earned.    *)
(***************************************************************************)
EXTENDS Payout, Integers, SumsProofs, SequenceTheorems, TLAPS

Task == [op : {"free", "confirmed", "cancelled", "pay"},
         at : {"done", "look", "credit", "debit",
               "lock", "net", "committed", "reserve", "transfer", "record"},
         id : Booking \cup Request \cup {"none"},
         net : Nat, left : Seq(Int), paid : BOOLEAN]

TypeOK ==
  /\ stage \in [Booking -> [kind : Kinds, status : {"pending", "confirmed", "cancelled"},
                            halves : 0 .. 2]]
  /\ ledger \in [Booking -> [rows : Nat, credited : Nat, debited : Nat]]
  /\ payout \in [Request -> [status : {"none", "pending", "paid", "failed"}, amount : Nat]]
  /\ rail \in [Request -> Nat]
  /\ mutex \in [Processes -> Worker \cup {Nobody}]
  /\ task \in [Worker -> Task]

\* What the rows of a booking add up to.
Entry(l) ==
  /\ l.rows <= 1 /\ l.credited <= Net
  /\ l.rows > 0 => l.credited > 0
  /\ l.rows = 0 => l.credited = 0 /\ l.debited = 0

\* What a handler of a booking's event is about to insert.
Handles(t) ==
  /\ t.op \in {"confirmed", "cancelled"} => t.id \in Booking
  /\ t.op = "confirmed" /\ t.at = "credit" => \A i \in 1 .. Len(t.left) : t.left[i] <= Net
  /\ t.op = "cancelled" /\ t.at = "debit" => ledger[t.id].rows > 0

CreditInv ==
  /\ TypeOK
  /\ \A b \in Booking : Entry(ledger[b])
  /\ \A w \in Worker : Handles(task[w])

-----------------------------------------------------------------------------
(* Amounts.                                                                  *)

LEMMA NetType == ASSUME PayoutAssumption PROVE Net \in Nat /\ Net > 0
BY DEF PayoutAssumption, Net

\* A share's part of the net is not more than the net.
LEMMA PartBound ==
  ASSUME PayoutAssumption, NEW i \in 1 .. Len(Shares)
  PROVE  Part(i) \in Nat /\ Part(i) <= Net
<1>1. Shares[i] \in Nat /\ Shares[i] <= Total /\ Total \in Nat /\ Total > 0
  BY DEF PayoutAssumption
<1>2. Net \in Nat
  BY NetType
<1>3. \A s, t, n \in Nat : t > 0 /\ s <= t => (s * n) \div t \in Nat /\ (s * n) \div t <= n
  <2>1. SUFFICES ASSUME NEW s \in Nat, NEW t \in Nat, NEW n \in Nat, t > 0, s <= t
                 PROVE  (s * n) \div t \in Nat /\ (s * n) \div t <= n
    OBVIOUS
  <2>2. s * n \in Nat /\ s * n <= t * n
    BY <2>1
  <2> DEFINE m == s * n
             q == m \div t
  <2>3. q \in Int /\ t * q <= m /\ q >= 0
    BY <2>1, <2>2
  <2> HIDE DEF m, q
  <2>4. m <= t * n
    BY <2>2 DEF m
  <2>5. t * q <= t * n
    BY <2>1, <2>2, <2>3, <2>4 DEF m
  <2>6. q <= n
    BY <2>1, <2>3, <2>5
  <2> QED BY <2>3, <2>6 DEF m, q
<1> QED BY <1>1, <1>2, <1>3 DEF Part

\* The slices of a split are a sequence of amounts that do not exceed the net.
LEMMA SlicesBound ==
  ASSUME PayoutAssumption
  PROVE  Slices \in Seq(Int) /\ \A i \in 1 .. Len(Slices) : Slices[i] <= Net
<1> DEFINE last == Len(Shares)
           others == 1 .. (last - 1)
           sum == SumOver([i \in others |-> Part(i)], others)
           S == [i \in 1 .. last |-> IF i = last THEN Net - sum ELSE Part(i)]
<1>1. last \in Nat
  BY DEF PayoutAssumption
<1>2. sum \in Nat
  <2> DEFINE part == [i \in others |-> Part(i)]
  <2>1. IsFiniteSet(others)
    BY <1>1, FS_Interval
  <2>2. \A i \in others : part[i] \in Nat
    BY <1>1, PartBound
  <2> HIDE DEF part, others
  <2>3. SumOver(part, others) \in Nat
    BY <2>1, <2>2, SumType
  <2> QED BY <2>3 DEF part
<1> HIDE DEF sum
<1>3. \A i \in 1 .. last : S[i] \in Int /\ S[i] <= Net
  BY <1>1, <1>2, NetType, PartBound
<1>4. S \in Seq(Int) /\ Len(S) = last
  BY <1>1, <1>3
<1>5. Slices = S
  BY DEF Slices, sum
<1> QED BY <1>3, <1>4, <1>5

-----------------------------------------------------------------------------
(* The ledger.                                                               *)

\* The invariant after a step that gives worker w the task t and writes no entry.
LEMMA TaskStep ==
  ASSUME CreditInv, NEW w \in Worker, NEW t \in Task, Handles(t),
         task' = [task EXCEPT ![w] = t], UNCHANGED <<stage, ledger>>,
         TypeOK'
  PROVE  CreditInv'
<1>1. \A b \in Booking : Entry(ledger'[b])
  BY DEF CreditInv
<1>2. ASSUME NEW v \in Worker PROVE Handles(task[v])'
  <2>1. Handles(task[v]) /\ task \in [Worker -> Task]
    BY DEF CreditInv, TypeOK
  <2>2. task'[v] = IF v = w THEN t ELSE task[v]
    BY <2>1
  <2> QED BY <2>1, <2>2 DEF Handles
<1> QED BY <1>1, <1>2 DEF CreditInv

\* What an insert does to the rows of its booking.
LEMMA CreateEntry ==
  ASSUME PayoutAssumption, CreditInv, NEW b \in Booking,
         NEW kind \in {"earning", "refund"}, NEW cents \in Nat, cents <= Net,
         kind = "earning" => cents > 0, kind = "refund" => ledger[b].rows > 0,
         Create(b, kind, cents)
  PROVE  /\ ledger' \in [Booking -> [rows : Nat, credited : Nat, debited : Nat]]
         /\ \A a \in Booking : /\ Entry(ledger'[a])
                               /\ ledger'[a].rows >= ledger[a].rows
                               /\ ledger'[a].credited >= ledger[a].credited
<1>1. ledger \in [Booking -> [rows : Nat, credited : Nat, debited : Nat]]
      /\ \A a \in Booking : Entry(ledger[a])
  BY DEF CreditInv, TypeOK
<1>2. Net \in Nat
  BY NetType
<1>3. CASE ~Accepts(b, kind)
  BY <1>1, <1>3 DEF Create
<1>4. CASE Accepts(b, kind) /\ kind = "earning"
  <2>1. ledger' = [ledger EXCEPT ![b].rows = @ + 1, ![b].credited = @ + cents]
        /\ ledger[b].rows = 0
    BY <1>4 DEF Create, Accepts
  <2>2. ledger[b].credited = 0 /\ ledger[b].debited = 0
    BY <1>1, <2>1 DEF Entry
  <2>3. ledger' \in [Booking -> [rows : Nat, credited : Nat, debited : Nat]]
    BY <1>1, <2>1
  <2>4. ledger'[b].rows = 1 /\ ledger'[b].credited = cents
    BY <1>1, <2>1, <2>2
  <2>5. \A a \in Booking \ {b} : ledger'[a] = ledger[a]
    BY <1>1, <2>1
  <2> QED BY <1>1, <1>2, <2>1, <2>2, <2>3, <2>4, <2>5 DEF Entry
<1>5. CASE Accepts(b, kind) /\ kind = "refund"
  <2>1. ledger' = [ledger EXCEPT ![b].debited = @ + cents]
    BY <1>5 DEF Create
  <2>2. ledger' \in [Booking -> [rows : Nat, credited : Nat, debited : Nat]]
    BY <1>1, <2>1
  <2>3. ledger'[b].rows = ledger[b].rows /\ ledger'[b].credited = ledger[b].credited
    BY <1>1, <2>1
  <2>4. \A a \in Booking \ {b} : ledger'[a] = ledger[a]
    BY <1>1, <2>1
  <2> QED BY <1>1, <1>2, <1>5, <2>2, <2>3, <2>4 DEF Entry
<1> QED BY <1>3, <1>4, <1>5

\* The invariant after a step of worker w that inserts and goes on with task t.
LEMMA InsertStep ==
  ASSUME CreditInv, NEW w \in Worker, NEW t \in Task,
         task' = [task EXCEPT ![w] = t], UNCHANGED <<stage, payout, rail, mutex>>,
         ledger' \in [Booking -> [rows : Nat, credited : Nat, debited : Nat]],
         \A a \in Booking : Entry(ledger'[a]) /\ ledger'[a].rows >= ledger[a].rows,
         t.op \in {"confirmed", "cancelled"} => t.id \in Booking /\ t.at # "debit",
         t.op = "confirmed" /\ t.at = "credit" => \A i \in 1 .. Len(t.left) : t.left[i] <= Net
  PROVE  CreditInv'
<1>1. TypeOK'
  BY DEF CreditInv, TypeOK
<1>2. ASSUME NEW v \in Worker PROVE Handles(task[v])'
  <2>1. Handles(task[v]) /\ task \in [Worker -> Task]
        /\ ledger \in [Booking -> [rows : Nat, credited : Nat, debited : Nat]]
    BY DEF CreditInv, TypeOK
  <2>2. task'[v] = IF v = w THEN t ELSE task[v]
    BY <2>1
  <2> QED BY <2>1, <2>2 DEF Handles
<1> QED BY <1>1, <1>2 DEF CreditInv

LEMMA FreeTask == Free \in Task /\ Handles(Free)
BY DEF Free, Task, Handles

LEMMA CreditShareKeeps ==
  ASSUME PayoutAssumption, CreditInv, NEW w \in Worker, CreditShare(w)
  PROVE  CreditInv' /\ \A a \in Booking : ledger'[a].credited >= ledger[a].credited
<1>1. task[w] \in Task /\ Handles(task[w])
      /\ ledger \in [Booking -> [rows : Nat, credited : Nat, debited : Nat]]
      /\ task[w].op = "confirmed" /\ task[w].at = "credit" /\ UNCHANGED <<stage, payout, rail, mutex>>
  BY DEF CreditShare, CreditInv, TypeOK, At
<1> DEFINE b == task[w].id
           left == task[w].left
           next == [task[w] EXCEPT !.left = Tail(left)]
<1>2. b \in Booking /\ left \in Seq(Int) /\ \A i \in 1 .. Len(left) : left[i] <= Net
  BY <1>1 DEF Task, Handles
<1>3. CASE left = <<>>
  <2>1. task' = [task EXCEPT ![w] = Free] /\ UNCHANGED ledger
    BY <1>3 DEF CreditShare, End
  <2>2. TypeOK'
    BY <1>1, <2>1, FreeTask DEF CreditInv, TypeOK
  <2>3. CreditInv'
    BY <1>1, <2>1, <2>2, FreeTask, TaskStep
  <2> QED BY <1>1, <2>1, <2>3
<1>4. CASE left # <<>>
  <2>1. task' = [task EXCEPT ![w].left = Tail(@)]
    BY <1>4 DEF CreditShare
  <2>2. Tail(left) \in Seq(Int) /\ \A i \in 1 .. Len(Tail(left)) : Tail(left)[i] <= Net
    <3>1. Tail(left) \in Seq(Int) /\ Len(Tail(left)) = Len(left) - 1
          /\ \A i \in 1 .. Len(Tail(left)) : Tail(left)[i] = left[i + 1]
      BY <1>2, <1>4, HeadTailProperties
    <3>2. Len(left) \in Nat
      BY <1>2
    <3> QED BY <1>2, <3>1, <3>2
  <2>3. next \in Task /\ next.op = "confirmed" /\ next.id = b /\ next.at = "credit"
        /\ next.left = Tail(left)
    BY <1>1, <2>2 DEF Task
  <2>4. task' = [task EXCEPT ![w] = next]
    BY <2>1
  <2>5. /\ ledger' \in [Booking -> [rows : Nat, credited : Nat, debited : Nat]]
        /\ \A a \in Booking : /\ Entry(ledger'[a])
                              /\ ledger'[a].rows >= ledger[a].rows
                              /\ ledger'[a].credited >= ledger[a].credited
    <3>1. CASE Head(left) > 0
      <4>1. Head(left) \in Nat /\ Head(left) <= Net
        BY <1>2, <1>4, <3>1
      <4>2. Create(b, "earning", Head(left))
        BY <1>4, <3>1 DEF CreditShare
      <4> QED BY <1>2, <3>1, <4>1, <4>2, CreateEntry
    <3>2. CASE ~(Head(left) > 0)
      <4>1. ledger' = ledger
        BY <1>4, <3>2 DEF CreditShare
      <4> QED BY <1>1, <4>1 DEF CreditInv
    <3> QED BY <3>1, <3>2
  <2> HIDE DEF next
  <2> QED BY <1>1, <1>2, <2>2, <2>3, <2>4, <2>5, InsertStep
<1> QED BY <1>3, <1>4

\* What a cancellation takes back of a credited booking is part of the net.
LEMMA DebitBound ==
  ASSUME PayoutAssumption, CreditInv, NEW b \in Booking
  PROVE  Debit(b) \in Nat /\ Debit(b) <= Net
<1>1. stage[b].halves \in 0 .. 2
  BY DEF CreditInv, TypeOK
<1>2. \A n \in Nat : /\ (n * 0 + 1) \div 2 = 0
                     /\ (n * 1 + 1) \div 2 \in Nat
                     /\ (n * 2 + 1) \div 2 = n
                     /\ n > 0 => (n * 1 + 1) \div 2 <= n
  OBVIOUS
<1> QED BY <1>1, <1>2, NetType DEF Debit

LEMMA DebitHostKeeps ==
  ASSUME PayoutAssumption, CreditInv, NEW w \in Worker, DebitHost(w)
  PROVE  CreditInv' /\ \A a \in Booking : ledger'[a].credited >= ledger[a].credited
<1> DEFINE b == task[w].id
<1>1. task[w] \in Task /\ Handles(task[w])
      /\ ledger \in [Booking -> [rows : Nat, credited : Nat, debited : Nat]]
      /\ task[w].op = "cancelled" /\ task[w].at = "debit"
      /\ UNCHANGED <<stage, payout, rail, mutex>>
  BY DEF DebitHost, CreditInv, TypeOK, At
<1>2. b \in Booking /\ ledger[b].rows > 0
  BY <1>1 DEF Handles
<1>3. task' = [task EXCEPT ![w] = Free] /\ Create(b, "refund", Debit(b))
  BY DEF DebitHost, End
<1>4. Debit(b) \in Nat /\ Debit(b) <= Net
  BY <1>2, DebitBound
<1>5. /\ ledger' \in [Booking -> [rows : Nat, credited : Nat, debited : Nat]]
      /\ \A a \in Booking : /\ Entry(ledger'[a])
                            /\ ledger'[a].rows >= ledger[a].rows
                            /\ ledger'[a].credited >= ledger[a].credited
  BY <1>2, <1>3, <1>4, CreateEntry
<1>6. Free.op = "free"
  BY DEF Free
<1> QED BY <1>1, <1>3, <1>5, <1>6, FreeTask, InsertStep

-----------------------------------------------------------------------------
(* The sums.                                                                 *)

LEMMA EarnedType ==
  ASSUME PayoutAssumption, TypeOK PROVE Earned \in Nat /\ Refunded \in Nat
<1> DEFINE credit == [b \in Booking |-> ledger[b].credited]
           debit  == [b \in Booking |-> ledger[b].debited]
<1>1. \A b \in Booking : credit[b] \in Nat /\ debit[b] \in Nat
  BY DEF TypeOK
<1>2. IsFiniteSet(Booking)
  BY DEF PayoutAssumption
<1>3. Earned = SumOver(credit, Booking) /\ Refunded = SumOver(debit, Booking)
  BY DEF Earned, Refunded
<1> HIDE DEF credit, debit
<1> QED BY <1>1, <1>2, <1>3, SumType

LEMMA DisbursedType ==
  ASSUME PayoutAssumption, TypeOK PROVE Disbursed \in Nat
<1> DEFINE amount == [r \in Request |-> payout[r].amount]
<1>1. \A r \in Committed : amount[r] \in Nat
  BY DEF TypeOK, Committed
<1>2. IsFiniteSet(Committed)
  BY FS_Subset DEF PayoutAssumption, Committed
<1>3. Disbursed = SumOver(amount, Committed)
  BY DEF Disbursed
<1> HIDE DEF amount
<1> QED BY <1>1, <1>2, <1>3, SumType

\* What the host ever earned does not shrink while no row's credit does.
LEMMA EarnedGrows ==
  ASSUME PayoutAssumption, TypeOK, TypeOK',
         \A b \in Booking : ledger'[b].credited >= ledger[b].credited
  PROVE  Earned' >= Earned
<1> DEFINE before == [b \in Booking |-> ledger[b].credited]
           after  == [b \in Booking |-> ledger'[b].credited]
<1>1. \A b \in Booking : before[b] \in Nat /\ after[b] \in Nat /\ before[b] <= after[b]
  BY DEF TypeOK
<1>2. IsFiniteSet(Booking)
  BY DEF PayoutAssumption
<1>3. Earned = SumOver(before, Booking) /\ Earned' = SumOver(after, Booking)
  BY DEF Earned
<1> HIDE DEF before, after
<1>4. SumOver(before, Booking) <= SumOver(after, Booking)
  BY <1>1, <1>2, SumGrows
<1>5. Earned \in Nat /\ Earned' \in Nat
  <2>1. SumOver(after, Booking) \in Nat
    BY <1>1, <1>2, SumType
  <2> QED BY <1>3, <2>1, EarnedType
<1> QED BY <1>3, <1>4, <1>5

\* A disbursement that becomes pending adds its amount to what is committed.
LEMMA DisbursedAdds ==
  ASSUME PayoutAssumption, TypeOK, NEW r \in Request, r \notin Committed, NEW n \in Nat,
         payout' = [payout EXCEPT ![r] = [status |-> "pending", amount |-> n]]
  PROVE  Disbursed' = Disbursed + n
<1> DEFINE before == [q \in Request |-> payout[q].amount]
           after  == [q \in Request |-> payout'[q].amount]
<1>1. Committed' = Committed \cup {r}
  BY DEF TypeOK, Committed
<1>2. \A q \in Committed : before[q] \in Nat /\ after[q] = before[q]
  BY DEF TypeOK, Committed
<1>3. after[r] = n
  BY DEF TypeOK
<1>4. IsFiniteSet(Committed) /\ IsFiniteSet(Committed \cup {r})
  BY FS_Subset, FS_AddElement DEF PayoutAssumption, Committed
<1>5. Disbursed = SumOver(before, Committed) /\ Disbursed' = SumOver(after, Committed \cup {r})
  BY <1>1 DEF Disbursed
<1> HIDE DEF before, after
<1>6. SumOver(after, Committed) = SumOver(before, Committed)
  BY <1>2, <1>4, SumSame
<1>7. \A q \in Committed \cup {r} : after[q] \in Nat
  BY <1>2, <1>3
<1>8. SumOver(after, Committed \cup {r})
        = after[r] + SumOver(after, (Committed \cup {r}) \ {r})
  BY <1>4, <1>7, SumTakesOut
<1>9. (Committed \cup {r}) \ {r} = Committed
  OBVIOUS
<1>10. Disbursed \in Nat
  BY DisbursedType
<1>11. Disbursed' = n + SumOver(after, Committed)
  BY <1>3, <1>5, <1>8, <1>9
<1> QED BY <1>5, <1>6, <1>10, <1>11

\* A disbursement whose status changes and that was committed adds nothing.
LEMMA DisbursedShrinks ==
  ASSUME PayoutAssumption, TypeOK, NEW r \in Committed, NEW s \in {"paid", "failed"},
         payout' = [payout EXCEPT ![r].status = s]
  PROVE  Disbursed' \in Nat /\ Disbursed' <= Disbursed
<1> DEFINE before == [q \in Request |-> payout[q].amount]
           after  == [q \in Request |-> payout'[q].amount]
<1>1. r \in Request
  BY DEF Committed
<1>2. Committed' = IF s = "paid" THEN Committed ELSE Committed \ {r}
  BY <1>1 DEF TypeOK, Committed
<1>3. after = before /\ \A q \in Committed : before[q] \in Nat
  BY <1>1 DEF TypeOK, Committed
<1>4. IsFiniteSet(Committed) /\ IsFiniteSet(Committed \ {r})
  BY FS_Subset, FS_RemoveElement DEF PayoutAssumption, Committed
<1>5. Disbursed = SumOver(before, Committed) /\ Disbursed' = SumOver(after, Committed')
  BY DEF Disbursed
<1> HIDE DEF before, after
<1>6. SumOver(before, Committed) = before[r] + SumOver(before, Committed \ {r})
      /\ SumOver(before, Committed \ {r}) \in Nat
  BY <1>3, <1>4, SumTakesOut, SumType
<1>7. before[r] \in Nat
  BY <1>3
<1> QED BY <1>2, <1>3, <1>5, <1>6, <1>7

-----------------------------------------------------------------------------
(* The invariant of the ledger, action by action.                            *)

LEMMA CreditInit == PayoutAssumption /\ Init => CreditInv
<1> SUFFICES ASSUME PayoutAssumption, Init PROVE CreditInv
  OBVIOUS
<1>1. TypeOK
  <2>1. NoPayout \in [status : {"none", "pending", "paid", "failed"}, amount : Nat]
    BY DEF NoPayout
  <2> QED BY <2>1, FreeTask DEF Init, TypeOK, Kinds
<1>2. \A b \in Booking : Entry(ledger[b])
  BY NetType DEF Init, Entry
<1>3. \A w \in Worker : Handles(task[w])
  BY DEF Init, Handles, Free
<1> QED BY <1>1, <1>2, <1>3 DEF CreditInv

\* A booking moves on; no handler looks at its stage twice.
LEMMA StageKeeps ==
  ASSUME CreditInv, NEW b \in Booking, Confirm(b) \/ Cancel(b)
  PROVE  CreditInv'
<1>1. stage' \in [Booking -> [kind : Kinds, status : {"pending", "confirmed", "cancelled"},
                              halves : 0 .. 2]]
  <2>1. stage \in [Booking -> [kind : Kinds, status : {"pending", "confirmed", "cancelled"},
                               halves : 0 .. 2]]
    BY DEF CreditInv, TypeOK
  <2>2. CASE Confirm(b)
    BY <2>1, <2>2 DEF Confirm
  <2>3. CASE Cancel(b)
    <3>1. PICK h \in 0 .. 2 :
            stage' = [stage EXCEPT ![b].status = "cancelled", ![b].halves = h]
      BY <2>3 DEF Cancel
    <3> QED BY <2>1, <3>1
  <2> QED BY <2>2, <2>3
<1>2. UNCHANGED <<ledger, payout, rail, mutex, task>>
  BY DEF Confirm, Cancel, records
<1> QED BY <1>1, <1>2 DEF CreditInv, TypeOK, Handles

LEMMA DeliverKeeps ==
  ASSUME CreditInv, NEW w \in Worker, NEW b \in Booking, NEW kind \in {"confirmed", "cancelled"},
         Deliver(w, b, kind)
  PROVE  CreditInv'
<1> DEFINE t == [Free EXCEPT !.op = kind, !.at = "look", !.id = b]
<1>1. task' = [task EXCEPT ![w] = t] /\ UNCHANGED <<stage, ledger, payout, rail, mutex>>
  BY DEF Deliver, Begin, records
<1>2. t.op = kind /\ t.at = "look" /\ t.id = b
  BY DEF Free
<1>3. t \in Task
  BY FreeTask DEF Task
<1> HIDE DEF t
<1>4. Handles(t)
  BY <1>2 DEF Handles
<1>5. TypeOK'
  BY <1>1, <1>3 DEF CreditInv, TypeOK
<1> QED BY <1>1, <1>3, <1>4, <1>5, TaskStep

\* The look-ups before a credit.
LEMMA LookKeeps ==
  ASSUME PayoutAssumption, CreditInv, NEW w \in Worker, LookEarning(w) \/ LookSession(w)
  PROVE  CreditInv'
<1>1. task[w] \in Task /\ Handles(task[w]) /\ task[w].op = "confirmed"
      /\ UNCHANGED <<stage, ledger, payout, rail, mutex>>
  BY DEF LookEarning, LookSession, CreditInv, TypeOK, At, records
<1>2. PICK left \in {Slices, <<Net>>} :
        task' = IF HasEarningForBooking(task[w].id)
                THEN [task EXCEPT ![w] = Free]
                ELSE [task EXCEPT ![w].at = "credit", ![w].left = left]
  BY DEF LookEarning, LookSession, End
<1> DEFINE t == IF HasEarningForBooking(task[w].id) THEN Free
                ELSE [task[w] EXCEPT !.at = "credit", !.left = left]
<1>3. left \in Seq(Int) /\ \A i \in 1 .. Len(left) : left[i] <= Net
  <2>1. CASE left = Slices
    BY <2>1, SlicesBound
  <2>2. CASE left = <<Net>>
    <3>1. Net \in Int
      BY NetType
    <3>2. <<Net>> \in Seq(Int) /\ Len(<<Net>>) = 1 /\ <<Net>>[1] = Net
      BY <3>1
    <3> QED BY <2>2, <3>1, <3>2
  <2> QED BY <2>1, <2>2
<1>4. t \in Task /\ Handles(t)
  <2> DEFINE k == [task[w] EXCEPT !.at = "credit", !.left = left]
  <2>1. k \in Task /\ k.op = task[w].op /\ k.at = "credit" /\ k.id = task[w].id /\ k.left = left
    BY <1>1, <1>3 DEF Task
  <2> HIDE DEF k
  <2>2. Handles(k)
    BY <1>1, <1>3, <2>1 DEF Handles
  <2> QED BY <2>1, <2>2, FreeTask DEF k
<1>5. task' = [task EXCEPT ![w] = t]
  BY <1>2
<1>6. TypeOK'
  BY <1>1, <1>4, <1>5 DEF CreditInv, TypeOK
<1> HIDE DEF t
<1> QED BY <1>1, <1>4, <1>5, <1>6, TaskStep

\* The look-ups before a debit.
LEMMA LookBackKeeps ==
  ASSUME CreditInv, NEW w \in Worker, LookRefund(w) \/ LookSessionRefund(w)
  PROVE  CreditInv'
<1>1. task[w] \in Task /\ Handles(task[w]) /\ task[w].op = "cancelled"
      /\ UNCHANGED <<stage, ledger, payout, rail, mutex>>
  BY DEF LookRefund, LookSessionRefund, CreditInv, TypeOK, At, records
<1>2. PICK due \in BOOLEAN :
        /\ due => ledger[task[w].id].rows > 0
        /\ task' = IF due THEN [task EXCEPT ![w].at = "debit"] ELSE [task EXCEPT ![w] = Free]
  <2>1. CASE LookRefund(w)
    BY <2>1 DEF LookRefund, Goto, End, Reversible, HasEarningForBooking
  <2>2. CASE LookSessionRefund(w)
    BY <2>2 DEF LookSessionRefund, Goto, End, Reversible, HasEarningForBooking
  <2> QED BY <2>1, <2>2
<1> DEFINE t == IF due THEN [task[w] EXCEPT !.at = "debit"] ELSE Free
<1>3. t \in Task /\ Handles(t)
  <2> DEFINE k == [task[w] EXCEPT !.at = "debit"]
  <2>1. k \in Task /\ k.op = task[w].op /\ k.at = "debit" /\ k.id = task[w].id
    BY <1>1 DEF Task
  <2> HIDE DEF k
  <2>2. due => Handles(k)
    BY <1>1, <1>2, <2>1 DEF Handles
  <2> QED BY <2>1, <2>2, FreeTask DEF k
<1>4. task' = [task EXCEPT ![w] = t]
  BY <1>2
<1>5. TypeOK'
  BY <1>1, <1>3, <1>4 DEF CreditInv, TypeOK
<1> HIDE DEF t
<1> QED BY <1>1, <1>3, <1>4, <1>5, TaskStep

\* A disbursement writes no entry.
LEMMA PayKeeps ==
  ASSUME CreditInv, TypeOK', NEW w \in Worker, NEW t \in Task, t.op \in {"pay", "free"},
         task' = [task EXCEPT ![w] = t], UNCHANGED <<stage, ledger>>
  PROVE  CreditInv'
<1>1. Handles(t)
  BY DEF Handles
<1> QED BY <1>1, TaskStep

\* A crash frees tasks.
LEMMA CrashKeeps ==
  ASSUME CreditInv, NEW p \in Processes, Crash(p)
  PROVE  CreditInv'
<1>1. task' = [w \in Worker |-> IF Process[w] = p THEN Free ELSE task[w]]
      /\ mutex' = [mutex EXCEPT ![p] = Nobody] /\ UNCHANGED <<stage, ledger, payout, rail>>
  BY DEF Crash, records
<1>2. TypeOK'
  BY <1>1, FreeTask DEF CreditInv, TypeOK
<1>3. ASSUME NEW w \in Worker PROVE Handles(task[w])'
  <2>1. Handles(task[w]) /\ (task'[w] = Free \/ task'[w] = task[w])
    BY <1>1 DEF CreditInv
  <2>2. Handles(task'[w])
    BY <2>1, FreeTask
  <2> QED BY <1>1, <2>2 DEF Handles
<1> QED BY <1>1, <1>2, <1>3 DEF CreditInv

\* The steps of a disbursement, and what each does to the task of its worker.
LEMMA PayStepKeeps ==
  ASSUME PayoutAssumption, CreditInv, NEW w \in Worker,
         \/ Lock(w) \/ BalancesByHost(w) \/ DisbursedCentsByHost(w)
         \/ CreateDisbursement(w) \/ Disburse(w) \/ UpdateDisbursement(w)
  PROVE  CreditInv'
<1>1. task[w] \in Task /\ task \in [Worker -> Task] /\ Free \in Task /\ Free.op = "free"
  BY FreeTask DEF CreditInv, TypeOK, Free
<1>2. payout \in [Request -> [status : {"none", "pending", "paid", "failed"}, amount : Nat]]
      /\ mutex \in [Processes -> Worker \cup {Nobody}] /\ rail \in [Request -> Nat]
  BY DEF CreditInv, TypeOK
<1>3. task[w].op = "pay" /\ UNCHANGED <<stage, ledger>>
  BY DEF Lock, BalancesByHost, DisbursedCentsByHost, CreateDisbursement, Disburse,
         UpdateDisbursement, At, records
<1>4. CASE Lock(w)
  <2> DEFINE t == [task[w] EXCEPT !.at = "net"]
  <2>1. t \in Task /\ t.op = "pay"
    BY <1>1, <1>3 DEF Task
  <2>2. task' = [task EXCEPT ![w] = t] /\ mutex' = [mutex EXCEPT ![Process[w]] = w]
        /\ UNCHANGED <<payout, rail>>
    BY <1>4 DEF Lock, Goto, records
  <2> HIDE DEF t
  <2>3. TypeOK'
    BY <1>1, <1>2, <1>3, <2>1, <2>2 DEF CreditInv, TypeOK
  <2> QED BY <1>3, <2>1, <2>2, <2>3, PayKeeps
<1>5. CASE BalancesByHost(w)
  <2> DEFINE n == IF Earned >= Refunded THEN Earned - Refunded ELSE 0
             t == [task[w] EXCEPT !.at = "committed", !.net = n]
  <2>1. n \in Nat
    BY EarnedType DEF CreditInv
  <2> HIDE DEF n
  <2>2. t \in Task /\ t.op = "pay"
    BY <1>1, <1>3, <2>1 DEF Task
  <2>3. task' = [task EXCEPT ![w] = t] /\ UNCHANGED <<payout, rail, mutex>>
    BY <1>5 DEF BalancesByHost, records, n
  <2> HIDE DEF t
  <2>4. TypeOK'
    BY <1>1, <1>2, <1>3, <2>2, <2>3 DEF CreditInv, TypeOK
  <2> QED BY <1>3, <2>2, <2>3, <2>4, PayKeeps
<1>6. CASE DisbursedCentsByHost(w)
  <2> DEFINE t == IF task[w].net > Disbursed
                  THEN [task[w] EXCEPT !.at = "reserve", !.net = @ - Disbursed] ELSE Free
  <2>1. t \in Task /\ t.op \in {"pay", "free"}
    <3>1. Disbursed \in Nat /\ task[w].net \in Nat
      BY <1>1, DisbursedType DEF CreditInv, Task
    <3>2. CASE task[w].net > Disbursed
      <4>1. task[w].net - Disbursed \in Nat
        BY <3>1, <3>2
      <4> QED BY <1>1, <1>3, <3>2, <4>1 DEF Task
    <3> QED BY <1>1, <3>2
  <2>2. task' = [task EXCEPT ![w] = t] /\ UNCHANGED <<payout, rail>>
        /\ (mutex' = mutex \/ mutex' = [mutex EXCEPT ![Process[w]] = Nobody])
    BY <1>6 DEF DisbursedCentsByHost, End, records
  <2> HIDE DEF t
  <2>3. TypeOK'
    BY <1>1, <1>2, <1>3, <2>1, <2>2 DEF CreditInv, TypeOK
  <2> QED BY <1>3, <2>1, <2>2, <2>3, PayKeeps
<1>7. CASE CreateDisbursement(w)
  <2> DEFINE t == [task[w] EXCEPT !.at = "transfer"]
  <2>1. t \in Task /\ t.op = "pay" /\ task[w].net \in Nat
    BY <1>1, <1>3 DEF Task
  <2>2. task' = [task EXCEPT ![w] = t] /\ UNCHANGED rail
        /\ payout' = [payout EXCEPT ![task[w].id] = [status |-> "pending", amount |-> task[w].net]]
        /\ mutex' = [mutex EXCEPT ![Process[w]] = Nobody]
    BY <1>7 DEF CreateDisbursement, Goto
  <2> HIDE DEF t
  <2>3. TypeOK'
    BY <1>1, <1>2, <1>3, <2>1, <2>2 DEF CreditInv, TypeOK
  <2> QED BY <1>3, <2>1, <2>2, <2>3, PayKeeps
<1>8. CASE Disburse(w)
  <2>1. PICK effect, ok \in BOOLEAN :
          /\ rail' = IF effect THEN [rail EXCEPT ![task[w].id] = task[w].net] ELSE rail
          /\ task' = [task EXCEPT ![w].at = "record", ![w].paid = ok]
    BY <1>8 DEF Disburse
  <2> DEFINE t == [task[w] EXCEPT !.at = "record", !.paid = ok]
  <2>2. t \in Task /\ t.op = "pay" /\ task[w].net \in Nat
    BY <1>1, <1>3 DEF Task
  <2>3. task' = [task EXCEPT ![w] = t] /\ UNCHANGED <<payout, mutex>>
    BY <1>8, <2>1 DEF Disburse, records
  <2> HIDE DEF t
  <2>4. TypeOK'
    BY <1>1, <1>2, <1>3, <2>1, <2>2, <2>3 DEF CreditInv, TypeOK
  <2> QED BY <1>3, <2>2, <2>3, <2>4, PayKeeps
<1>9. CASE UpdateDisbursement(w)
  <2>1. task' = [task EXCEPT ![w] = Free] /\ UNCHANGED <<rail, mutex>>
        /\ (payout' = payout \/ payout' = [payout EXCEPT ![task[w].id].status = Outcome(w)])
    BY <1>9 DEF UpdateDisbursement, End
  <2>2. Outcome(w) \in {"paid", "failed"}
    BY DEF Outcome
  <2>3. payout' \in [Request -> [status : {"none", "pending", "paid", "failed"}, amount : Nat]]
    BY <1>2, <2>1, <2>2
  <2>4. TypeOK'
    BY <1>1, <1>2, <1>3, <2>1, <2>3 DEF CreditInv, TypeOK
  <2> QED BY <1>1, <1>3, <2>1, <2>4, PayKeeps
<1> QED BY <1>4, <1>5, <1>6, <1>7, <1>8, <1>9

LEMMA RequestKeeps ==
  ASSUME CreditInv, NEW w \in Worker, NEW r \in Request, RequestDisbursement(w, r)
  PROVE  CreditInv'
<1> DEFINE t == [Free EXCEPT !.op = "pay", !.at = "lock", !.id = r]
<1>1. t \in Task /\ t.op = "pay"
  BY FreeTask DEF Task
<1>2. UNCHANGED <<stage, ledger, payout, rail, mutex>>
      /\ (UNCHANGED task \/ task' = [task EXCEPT ![w] = t])
  BY DEF RequestDisbursement, Begin, records
<1> HIDE DEF t
<1>3. TypeOK'
  BY <1>1, <1>2 DEF CreditInv, TypeOK
<1>4. CASE UNCHANGED task
  BY <1>2, <1>3, <1>4 DEF CreditInv, Handles
<1>5. CASE task' = [task EXCEPT ![w] = t]
  BY <1>1, <1>2, <1>3, <1>5, PayKeeps
<1> QED BY <1>2, <1>4, <1>5

LEMMA CreditStep ==
  ASSUME PayoutAssumption, CreditInv, [Next]_payoutVars PROVE CreditInv'
<1>1. CASE UNCHANGED payoutVars
  BY <1>1 DEF payoutVars, records, CreditInv, TypeOK, Handles
<1>2. CASE \E b \in Booking : Confirm(b) \/ Cancel(b)
  BY <1>2, StageKeeps
<1>3. CASE SetPayoutsEnabled
  BY <1>3 DEF SetPayoutsEnabled, records, CreditInv, TypeOK, Handles
<1>4. CASE \E w \in Worker, b \in Booking, kind \in {"confirmed", "cancelled"} : Deliver(w, b, kind)
  BY <1>4, DeliverKeeps
<1>5. CASE \E w \in Worker, r \in Request : RequestDisbursement(w, r)
  BY <1>5, RequestKeeps
<1>6. ASSUME NEW w \in Worker, LookEarning(w) \/ LookSession(w) PROVE CreditInv'
  BY <1>6, LookKeeps
<1>7. ASSUME NEW w \in Worker, LookRefund(w) \/ LookSessionRefund(w) PROVE CreditInv'
  BY <1>7, LookBackKeeps
<1>8. ASSUME NEW w \in Worker, CreditShare(w) \/ DebitHost(w) PROVE CreditInv'
  BY <1>8, CreditShareKeeps, DebitHostKeeps
<1>9. ASSUME NEW w \in Worker,
             \/ Lock(w) \/ BalancesByHost(w) \/ DisbursedCentsByHost(w)
             \/ CreateDisbursement(w) \/ Disburse(w) \/ UpdateDisbursement(w)
      PROVE  CreditInv'
  BY <1>9, PayStepKeeps
<1>10. CASE \E p \in Processes : Crash(p)
  BY <1>10, CrashKeeps
<1> QED BY <1>1, <1>2, <1>3, <1>4, <1>5, <1>6, <1>7, <1>8, <1>9, <1>10 DEF Next

LEMMA CreditMeans == CreditInv => CreditedOnce
BY DEF CreditInv, Entry, CreditedOnce, TypeOK

\* The reason the ledger credits a booking once (subscriber.go:54-209 and the index
\* of migration 0020): an entry is all or nothing, whoever inserts it.
THEOREM CreditedOnceHolds == ASSUME PayoutAssumption PROVE Spec => []CreditedOnce
<1>1. Init => CreditInv
  BY CreditInit
<1>2. CreditInv /\ [Next]_payoutVars => CreditInv'
  BY CreditStep
<1> QED BY <1>1, <1>2, CreditMeans, PTL DEF Spec

-----------------------------------------------------------------------------
(* The disbursements: what a request that is under way knows.                *)

Unreserved == {"lock", "net", "committed", "reserve"}
Holding    == {"net", "committed", "reserve"}

Reserves(w) ==
  LET t == task[w] IN
  /\ t.id \in Request /\ t.at \in Unreserved \cup {"transfer", "record"}
  /\ t.at \in Holding => mutex[Process[w]] = w
  /\ t.at \in Unreserved => payout[t.id] = NoPayout
  /\ t.at \notin Unreserved => payout[t.id] = [status |-> "pending", amount |-> t.net]
  /\ t.at = "record" /\ t.paid => rail[t.id] = t.net
  /\ t.at = "committed" => t.net <= Earned
  /\ t.at = "reserve" => t.net + Disbursed <= Earned

Paying == {w \in Worker : task[w].op = "pay"}

ReserveInv ==
  /\ \A w \in Paying : Reserves(w)
  /\ \A v, w \in Paying : v # w => task[v].id # task[w].id
  /\ CommittedIsEarned

\* A request goes on as it was while nobody takes from what it relies on.
LEMMA OthersReserve ==
  ASSUME PayoutAssumption, TypeOK, TypeOK', NEW v \in Worker, Reserves(v),
         task'[v] = task[v],
         payout'[task[v].id] = payout[task[v].id], rail'[task[v].id] = rail[task[v].id],
         task[v].at \in Holding => mutex'[Process[v]] = mutex[Process[v]],
         Earned' >= Earned, Earned' \in Nat, Disbursed' \in Nat,
         task[v].at = "reserve" => Disbursed' <= Disbursed
  PROVE  Reserves(v)'
<1>1. Earned \in Nat /\ Disbursed \in Nat
  BY EarnedType, DisbursedType
<1>2. task[v].net \in Nat
  BY DEF TypeOK, Task
<1>3. task[v].at = "committed" => task[v].net <= Earned'
  BY <1>1, <1>2 DEF Reserves
<1>4. task[v].at = "reserve" => task[v].net + Disbursed' <= Earned'
  BY <1>1, <1>2 DEF Reserves
<1> QED BY <1>3, <1>4 DEF Reserves, Holding, Unreserved

\* The sums of the next state are numbers.
LEMMA SumsNext ==
  ASSUME PayoutAssumption, CreditInv' PROVE Earned' \in Nat /\ Disbursed' \in Nat
<1> DEFINE credit == [b \in Booking |-> ledger'[b].credited]
           amount == [r \in Request |-> payout'[r].amount]
<1>1. (\A b \in Booking : credit[b] \in Nat) /\ (\A r \in Committed' : amount[r] \in Nat)
  BY DEF CreditInv, TypeOK, Committed
<1>2. IsFiniteSet(Booking) /\ IsFiniteSet(Committed')
  BY FS_Subset DEF PayoutAssumption, Committed
<1>3. Earned' = SumOver(credit, Booking) /\ Disbursed' = SumOver(amount, Committed')
  BY DEF Earned, Disbursed
<1> HIDE DEF credit, amount
<1> QED BY <1>1, <1>2, <1>3, SumType

\* Steps that touch no disbursement.
LEMMA QuietKeeps ==
  ASSUME PayoutAssumption, CreditInv, CreditInv', ReserveInv,
         UNCHANGED <<payout, rail, mutex>>,
         \A w \in Worker : task'[w] = task[w] \/ task'[w].op # "pay",
         \A b \in Booking : ledger'[b].credited >= ledger[b].credited
  PROVE  ReserveInv'
<1>1. TypeOK /\ TypeOK' /\ Earned' >= Earned /\ Earned' \in Nat /\ Earned \in Nat
      /\ Disbursed \in Nat
  BY EarnedGrows, EarnedType, DisbursedType, SumsNext DEF CreditInv
<1>2. Disbursed' = Disbursed
  BY DEF Disbursed, Committed
<1>3. \A w \in Paying' : w \in Paying /\ task'[w] = task[w]
  BY DEF Paying
<1>4. ASSUME NEW w \in Paying' PROVE Reserves(w)'
  <2>1. w \in Worker /\ Reserves(w) /\ task'[w] = task[w]
    BY <1>3 DEF ReserveInv, Paying
  <2> QED BY <1>1, <1>2, <2>1, OthersReserve
<1>5. \A v, w \in Paying' : v # w => task'[v].id # task'[w].id
  BY <1>3 DEF ReserveInv
<1>6. CommittedIsEarned'
  BY <1>1, <1>2 DEF ReserveInv, CommittedIsEarned
<1> QED BY <1>4, <1>5, <1>6 DEF ReserveInv

\* Steps of the worker of a request, told by what it is left with: the others go
\* on when they keep what they hold.
LEMMA OwnKeeps ==
  ASSUME PayoutAssumption, CreditInv, CreditInv', ReserveInv, NEW w \in Worker,
         UNCHANGED ledger,
         \A v \in Worker \ {w} : task'[v] = task[v],
         w \in Paying' => Reserves(w)',
         w \in Paying' => \A v \in Paying \ {w} : task[v].id # task'[w].id,
         \A v \in Paying \ {w} :
           /\ payout'[task[v].id] = payout[task[v].id]
           /\ rail'[task[v].id] = rail[task[v].id]
           /\ task[v].at \in Holding => mutex'[Process[v]] = mutex[Process[v]]
           /\ task[v].at = "reserve" => Disbursed' <= Disbursed,
         CommittedIsEarned'
  PROVE  ReserveInv'
<1>1. TypeOK /\ TypeOK' /\ Earned' = Earned /\ Earned \in Nat /\ Disbursed' \in Nat
  BY EarnedType, SumsNext DEF CreditInv, Earned
<1>2. \A v \in Paying' \ {w} : v \in Paying /\ task'[v] = task[v]
  BY DEF Paying
<1>3. ASSUME NEW v \in Paying', v # w PROVE Reserves(v)'
  <2>1. v \in Worker /\ v \in Paying \ {w} /\ Reserves(v) /\ task'[v] = task[v]
    BY <1>2, <1>3 DEF ReserveInv, Paying
  <2> QED BY <1>1, <2>1, OthersReserve
<1>4. \A v, u \in Paying' : v # u => task'[v].id # task'[u].id
  BY <1>2 DEF ReserveInv
<1> QED BY <1>3, <1>4 DEF ReserveInv

LEMMA RequestReserves ==
  ASSUME PayoutAssumption, CreditInv, CreditInv', ReserveInv,
         NEW w \in Worker, NEW r \in Request, RequestDisbursement(w, r)
  PROVE  ReserveInv'
<1> DEFINE t == [Free EXCEPT !.op = "pay", !.at = "lock", !.id = r]
<1>1. UNCHANGED <<ledger, payout, rail, mutex>> /\ payout[r] = NoPayout
      /\ \A v \in Worker : task[v].id # r
  BY DEF RequestDisbursement, records
<1>2. t.op = "pay" /\ t.at = "lock" /\ t.id = r
  BY DEF Free
<1>3. UNCHANGED task \/ task' = [task EXCEPT ![w] = t]
  BY DEF RequestDisbursement, Begin
<1> HIDE DEF t
<1>4. CASE UNCHANGED task
  BY <1>1, <1>4, QuietKeeps DEF CreditInv, TypeOK
<1>5. CASE task' = [task EXCEPT ![w] = t]
  <2>1. task'[w] = t /\ \A v \in Worker \ {w} : task'[v] = task[v]
    BY <1>5 DEF CreditInv, TypeOK
  <2>2. Reserves(w)'
    BY <1>1, <1>2, <2>1 DEF Reserves, Unreserved, Holding
  <2>3. \A v \in Paying \ {w} : task[v].id # task'[w].id
    BY <1>1, <1>2, <2>1 DEF Paying
  <2>4. Disbursed' = Disbursed /\ Earned' = Earned
    BY <1>1 DEF Disbursed, Earned, Committed
  <2>5. CommittedIsEarned' /\ Disbursed' <= Disbursed
    BY <1>1, <2>4, DisbursedType DEF ReserveInv, CommittedIsEarned, CreditInv
  <2> QED BY <1>1, <2>1, <2>2, <2>3, <2>5, OwnKeeps
<1> QED BY <1>3, <1>4, <1>5

\* What is known before a step of the worker of a request.
LEMMA Before ==
  ASSUME PayoutAssumption, CreditInv, ReserveInv, NEW w \in Worker, task[w].op = "pay"
  PROVE  /\ Reserves(w) /\ task[w].id \in Request /\ task[w].net \in Nat
         /\ Earned \in Nat /\ Disbursed \in Nat /\ Refunded \in Nat
         /\ task \in [Worker -> Task]
         /\ \A v \in Paying \ {w} : task[v].id # task[w].id
         /\ Process[w] \in Processes /\ mutex \in [Processes -> Worker \cup {Nobody}]
         /\ payout \in [Request -> [status : {"none", "pending", "paid", "failed"}, amount : Nat]]
         /\ rail \in [Request -> Nat]
BY EarnedType, DisbursedType DEF ReserveInv, Paying, Reserves, CreditInv, TypeOK, Task, Processes

\* With one process, nobody else holds the mutex.
LEMMA Alone ==
  ASSUME OneProcess, ReserveInv, NEW w \in Worker, mutex[Process[w]] \in {w, Nobody},
         Nobody \notin Worker
  PROVE  \A v \in Paying \ {w} : task[v].at \notin Holding
<1> SUFFICES ASSUME NEW v \in Paying \ {w}, task[v].at \in Holding PROVE FALSE
  OBVIOUS
<1>1. v \in Worker /\ mutex[Process[v]] = v
  BY DEF ReserveInv, Reserves, Paying
<1>2. Process[v] = Process[w]
  BY <1>1 DEF OneProcess
<1> QED BY <1>1, <1>2

LEMMA LockReserves ==
  ASSUME PayoutAssumption, OneProcess, CreditInv, CreditInv', ReserveInv,
         NEW w \in Worker, Lock(w)
  PROVE  ReserveInv'
<1>1. task[w].op = "pay" /\ task[w].at = "lock" /\ mutex[Process[w]] = Nobody
      /\ mutex' = [mutex EXCEPT ![Process[w]] = w] /\ task' = [task EXCEPT ![w].at = "net"]
      /\ UNCHANGED <<ledger, payout, rail>>
  BY DEF Lock, At, Available, Goto, records
<1>2. \A v \in Paying \ {w} : task[v].at \notin Holding
  BY <1>1, Alone DEF PayoutAssumption
<1>3. task'[w] = [task[w] EXCEPT !.at = "net"] /\ \A v \in Worker \ {w} : task'[v] = task[v]
  BY <1>1, Before
<1>4. task'[w].op = "pay" /\ task'[w].at = "net" /\ task'[w].id = task[w].id
  BY <1>1, <1>3, Before DEF Task
<1>5. mutex'[Process[w]] = w
  BY <1>1, Before
<1>6. Disbursed' = Disbursed /\ Earned' = Earned
  BY <1>1 DEF Disbursed, Earned, Committed
<1>7. Reserves(w)'
  BY <1>1, <1>4, <1>5, Before DEF Reserves, Unreserved, Holding
<1>8. CommittedIsEarned' /\ Disbursed' <= Disbursed
  BY <1>1, <1>6, Before DEF ReserveInv, CommittedIsEarned
<1>9. \A v \in Paying \ {w} : task[v].id # task'[w].id
  BY <1>1, <1>4, Before
<1> QED BY <1>1, <1>2, <1>3, <1>7, <1>8, <1>9, OwnKeeps

LEMMA BalancesReserves ==
  ASSUME PayoutAssumption, CreditInv, CreditInv', ReserveInv, NEW w \in Worker, BalancesByHost(w)
  PROVE  ReserveInv'
<1> DEFINE n == IF Earned >= Refunded THEN Earned - Refunded ELSE 0
<1>1. task[w].op = "pay" /\ task[w].at = "net"
      /\ task' = [task EXCEPT ![w].at = "committed", ![w].net = n]
      /\ UNCHANGED <<ledger, payout, rail, mutex>>
  BY DEF BalancesByHost, At, records
<1>2. n <= Earned /\ n \in Nat
  BY <1>1, Before
<1> HIDE DEF n
<1>3. task'[w] = [task[w] EXCEPT !.at = "committed", !.net = n]
      /\ \A v \in Worker \ {w} : task'[v] = task[v]
  BY <1>1, Before
<1>4. task'[w].op = "pay" /\ task'[w].at = "committed" /\ task'[w].id = task[w].id
      /\ task'[w].net = n
  BY <1>1, <1>3, Before DEF Task
<1>5. Disbursed' = Disbursed /\ Earned' = Earned
  BY <1>1 DEF Disbursed, Earned, Committed
<1>6. Reserves(w)'
  BY <1>1, <1>2, <1>4, <1>5, Before DEF Reserves, Unreserved, Holding
<1>7. CommittedIsEarned' /\ Disbursed' <= Disbursed
  BY <1>1, <1>5, Before DEF ReserveInv, CommittedIsEarned
<1>8. \A v \in Paying \ {w} : task[v].id # task'[w].id
  BY <1>1, <1>4, Before
<1> QED BY <1>1, <1>3, <1>6, <1>7, <1>8, OwnKeeps

LEMMA CommittedReserves ==
  ASSUME PayoutAssumption, OneProcess, CreditInv, CreditInv', ReserveInv,
         NEW w \in Worker, DisbursedCentsByHost(w)
  PROVE  ReserveInv'
<1>1. task[w].op = "pay" /\ task[w].at = "committed" /\ UNCHANGED <<ledger, payout, rail>>
  BY DEF DisbursedCentsByHost, At, records
<1>2. mutex[Process[w]] = w /\ task[w].net <= Earned
  BY <1>1, Before DEF Reserves, Holding
<1>3. Disbursed' = Disbursed /\ Earned' = Earned
  BY <1>1 DEF Disbursed, Earned, Committed
<1>4. CommittedIsEarned' /\ Disbursed' <= Disbursed
  BY <1>1, <1>3, Before DEF ReserveInv, CommittedIsEarned
<1>5. CASE task[w].net > Disbursed
  <2> DEFINE n == task[w].net - Disbursed
  <2>1. task' = [task EXCEPT ![w].at = "reserve", ![w].net = n] /\ UNCHANGED mutex
    BY <1>5 DEF DisbursedCentsByHost
  <2>2. n + Disbursed <= Earned
    BY <1>1, <1>2, <1>5, Before
  <2> HIDE DEF n
  <2>3. task'[w] = [task[w] EXCEPT !.at = "reserve", !.net = n]
        /\ \A v \in Worker \ {w} : task'[v] = task[v]
    BY <1>1, <2>1, Before
  <2>4. task'[w].op = "pay" /\ task'[w].at = "reserve" /\ task'[w].id = task[w].id
        /\ task'[w].net = n
    BY <1>1, <2>3, Before DEF Task
  <2>5. Reserves(w)'
    BY <1>1, <1>2, <1>3, <2>1, <2>2, <2>4, Before DEF Reserves, Unreserved, Holding
  <2>6. \A v \in Paying \ {w} : task[v].id # task'[w].id
    BY <1>1, <2>4, Before
  <2> QED BY <1>1, <1>4, <2>1, <2>3, <2>5, <2>6, OwnKeeps
<1>6. CASE ~(task[w].net > Disbursed)
  <2>1. task' = [task EXCEPT ![w] = Free] /\ mutex' = [mutex EXCEPT ![Process[w]] = Nobody]
    BY <1>6 DEF DisbursedCentsByHost, End
  <2>2. task'[w] = Free /\ \A v \in Worker \ {w} : task'[v] = task[v]
    BY <1>1, <2>1, Before
  <2>3. w \notin Paying'
    BY <2>2 DEF Paying, Free
  <2>4. \A v \in Paying \ {w} : task[v].at \notin Holding
    BY <1>2, Alone DEF PayoutAssumption
  <2> QED BY <1>1, <1>4, <2>2, <2>3, <2>4, OwnKeeps
<1> QED BY <1>5, <1>6

LEMMA CreateReserves ==
  ASSUME PayoutAssumption, OneProcess, CreditInv, CreditInv', ReserveInv,
         NEW w \in Worker, CreateDisbursement(w)
  PROVE  ReserveInv'
<1> DEFINE r == task[w].id
           n == task[w].net
<1>1. task[w].op = "pay" /\ task[w].at = "reserve" /\ UNCHANGED <<ledger, rail>>
      /\ payout' = [payout EXCEPT ![r] = [status |-> "pending", amount |-> n]]
      /\ mutex' = [mutex EXCEPT ![Process[w]] = Nobody]
      /\ task' = [task EXCEPT ![w].at = "transfer"]
  BY DEF CreateDisbursement, At, Goto
<1>2. mutex[Process[w]] = w /\ n + Disbursed <= Earned /\ payout[r] = NoPayout /\ r \in Request
  BY <1>1, Before DEF Reserves, Holding, Unreserved
<1>3. \A v \in Paying \ {w} : task[v].at \notin Holding
  BY <1>2, Alone DEF PayoutAssumption
<1>4. r \notin Committed
  BY <1>2 DEF Committed, NoPayout
<1>5. Disbursed' = Disbursed + n
  <2>1. TypeOK /\ n \in Nat
    BY <1>1, Before DEF CreditInv
  <2> QED BY <1>1, <1>2, <1>4, <2>1, DisbursedAdds
<1>6. Earned' = Earned
  BY <1>1 DEF Earned
<1>7. \A q \in Request \ {r} : payout'[q] = payout[q]
  BY <1>1, Before
<1>8. payout'[r] = [status |-> "pending", amount |-> n]
  BY <1>1, <1>2, Before
<1>9. CommittedIsEarned'
  <2>1. Disbursed' <= Earned'
    BY <1>1, <1>2, <1>5, <1>6, Before
  <2>2. \A q \in Request : payout'[q].status = "paid" => rail'[q] = payout'[q].amount
    BY <1>1, <1>7, <1>8 DEF ReserveInv, CommittedIsEarned
  <2> QED BY <2>1, <2>2 DEF CommittedIsEarned
<1>10. task'[w] = [task[w] EXCEPT !.at = "transfer"] /\ \A v \in Worker \ {w} : task'[v] = task[v]
  BY <1>1, Before
<1>11. task'[w].op = "pay" /\ task'[w].at = "transfer" /\ task'[w].id = r /\ task'[w].net = n
  BY <1>1, <1>10, Before DEF Task
<1>12. Reserves(w)'
  BY <1>2, <1>8, <1>11 DEF Reserves, Unreserved, Holding
<1>13. \A v \in Paying \ {w} : task[v].id # r /\ task[v].id \in Request
  BY <1>1, Before DEF ReserveInv, Reserves
<1> QED BY <1>1, <1>3, <1>7, <1>9, <1>10, <1>11, <1>12, <1>13, OwnKeeps DEF Holding

LEMMA DisburseReserves ==
  ASSUME PayoutAssumption, CreditInv, CreditInv', ReserveInv, NEW w \in Worker, Disburse(w)
  PROVE  ReserveInv'
<1> DEFINE r == task[w].id
           n == task[w].net
<1>1. task[w].op = "pay" /\ task[w].at = "transfer" /\ UNCHANGED <<ledger, payout, mutex>>
  BY DEF Disburse, At, records
<1>2. PICK effect, ok \in BOOLEAN :
        /\ ok => effect
        /\ rail' = IF effect THEN [rail EXCEPT ![r] = n] ELSE rail
        /\ task' = [task EXCEPT ![w].at = "record", ![w].paid = ok]
  BY DEF Disburse
<1>3. payout[r] = [status |-> "pending", amount |-> n] /\ r \in Request
  BY <1>1, Before DEF Reserves, Unreserved
<1>4. \A q \in Request \ {r} : rail'[q] = rail[q]
  BY <1>1, <1>2, Before
<1>5. ok => rail'[r] = n
  BY <1>1, <1>2, <1>3, Before
<1>6. Disbursed' = Disbursed /\ Earned' = Earned
  BY <1>1 DEF Disbursed, Earned, Committed
<1>7. CommittedIsEarned' /\ Disbursed' <= Disbursed
  <2>1. \A q \in Request : payout'[q].status = "paid" => rail'[q] = payout'[q].amount
    BY <1>1, <1>3, <1>4 DEF ReserveInv, CommittedIsEarned
  <2> QED BY <1>1, <1>6, <2>1, Before DEF ReserveInv, CommittedIsEarned
<1>8. task'[w] = [task[w] EXCEPT !.at = "record", !.paid = ok]
      /\ \A v \in Worker \ {w} : task'[v] = task[v]
  BY <1>1, <1>2, Before
<1>9. task'[w].op = "pay" /\ task'[w].at = "record" /\ task'[w].id = r /\ task'[w].net = n
      /\ task'[w].paid = ok
  BY <1>1, <1>8, Before DEF Task
<1>10. Reserves(w)'
  BY <1>1, <1>3, <1>5, <1>9 DEF Reserves, Unreserved, Holding
<1>11. \A v \in Paying \ {w} : task[v].id # r /\ task[v].id \in Request
  BY <1>1, Before DEF ReserveInv, Reserves
<1>12. \A v \in Paying \ {w} : /\ task[v].id # task'[w].id
                             /\ payout'[task[v].id] = payout[task[v].id]
                             /\ rail'[task[v].id] = rail[task[v].id]
                             /\ mutex'[Process[v]] = mutex[Process[v]]
  BY <1>1, <1>4, <1>9, <1>11
<1> HIDE DEF r, n
<1> QED BY <1>1, <1>7, <1>8, <1>10, <1>12, OwnKeeps

LEMMA UpdateReserves ==
  ASSUME PayoutAssumption, CreditInv, CreditInv', ReserveInv, NEW w \in Worker,
         UpdateDisbursement(w)
  PROVE  ReserveInv'
<1> DEFINE r == task[w].id
<1>1. task[w].op = "pay" /\ task[w].at = "record" /\ UNCHANGED <<ledger, rail, mutex>>
      /\ task' = [task EXCEPT ![w] = Free]
      /\ (payout' = [payout EXCEPT ![r].status = Outcome(w)] \/ payout' = payout)
  BY DEF UpdateDisbursement, At, End
<1>2. payout[r] = [status |-> "pending", amount |-> task[w].net] /\ r \in Request
      /\ (task[w].paid => rail[r] = task[w].net)
  BY <1>1, Before DEF Reserves, Unreserved
<1>3. r \in Committed
  BY <1>2 DEF Committed
<1>4. Disbursed' <= Disbursed /\ Disbursed' \in Nat
  <2>1. TypeOK /\ Disbursed \in Nat
    BY <1>1, Before DEF CreditInv
  <2>2. CASE payout' = payout
    BY <2>1, <2>2 DEF Disbursed, Committed
  <2>3. CASE payout' = [payout EXCEPT ![r].status = Outcome(w)]
    <3>1. Outcome(w) \in {"paid", "failed"}
      BY DEF Outcome
    <3> QED BY <1>3, <2>1, <2>3, <3>1, DisbursedShrinks
  <2> QED BY <1>1, <2>2, <2>3
<1>5. Earned' = Earned
  BY <1>1 DEF Earned
<1>6. \A q \in Request \ {r} : payout'[q] = payout[q]
  BY <1>1, Before
<1>7. payout'[r].amount = task[w].net
      /\ (payout'[r].status = "paid" => task[w].paid)
  BY <1>1, <1>2, Before DEF Outcome
<1>8. CommittedIsEarned'
  <2>1. Disbursed' <= Earned'
    BY <1>1, <1>4, <1>5, Before DEF ReserveInv, CommittedIsEarned
  <2>2. \A q \in Request : payout'[q].status = "paid" => rail'[q] = payout'[q].amount
    BY <1>1, <1>2, <1>6, <1>7 DEF ReserveInv, CommittedIsEarned
  <2> QED BY <2>1, <2>2 DEF CommittedIsEarned
<1>9. w \notin Paying' /\ \A v \in Worker \ {w} : task'[v] = task[v]
  BY <1>1, Before DEF Paying, Free
<1>10. \A v \in Paying \ {w} : task[v].id # r /\ task[v].id \in Request
  BY <1>1, Before DEF ReserveInv, Reserves
<1> QED BY <1>1, <1>4, <1>6, <1>8, <1>9, <1>10, OwnKeeps

LEMMA CrashReserves ==
  ASSUME PayoutAssumption, OneProcess, CreditInv, CreditInv', ReserveInv,
         NEW p \in Processes, Crash(p)
  PROVE  ReserveInv'
<1>1. \A w \in Worker : Process[w] = p
  BY DEF OneProcess, Processes
<1>2. (\A w \in Worker : task'[w] = Free) /\ UNCHANGED <<ledger, payout, rail>>
  BY <1>1 DEF Crash, records
<1>3. Paying' = {}
  BY <1>2 DEF Paying, Free
<1>4. CommittedIsEarned'
  <2>1. Disbursed' = Disbursed /\ Earned' = Earned
    BY <1>2 DEF Disbursed, Earned, Committed
  <2> QED BY <1>2, <2>1 DEF ReserveInv, CommittedIsEarned
<1> QED BY <1>3, <1>4 DEF ReserveInv

LEMMA ReserveInit == PayoutAssumption /\ Init => ReserveInv
<1> SUFFICES ASSUME PayoutAssumption, Init PROVE ReserveInv
  OBVIOUS
<1>1. Paying = {}
  BY DEF Init, Paying, Free
<1>2. Committed = {} /\ \A r \in Request : payout[r].status # "paid"
  BY DEF Init, Committed, NoPayout
<1>3. Disbursed = 0
  <2> DEFINE amount == [r \in Request |-> payout[r].amount]
  <2>1. SumOver(amount, {}) = 0
    <3>1. IsFiniteSet({}) /\ \A r \in {} : amount[r] \in Nat
      BY FS_EmptySet
    <3> HIDE DEF amount
    <3> QED BY <3>1, SumRecursion
  <2> QED BY <1>2, <2>1 DEF Disbursed
<1>4. Earned \in Nat
  BY CreditInit, EarnedType DEF CreditInv
<1> QED BY <1>1, <1>2, <1>3, <1>4 DEF ReserveInv, CommittedIsEarned

LEMMA ReserveStep ==
  ASSUME PayoutAssumption, OneProcess, CreditInv, ReserveInv, [Next]_payoutVars
  PROVE  ReserveInv'
<1>0. CreditInv' /\ ledger \in [Booking -> [rows : Nat, credited : Nat, debited : Nat]]
      /\ task \in [Worker -> Task]
  BY CreditStep DEF CreditInv, TypeOK
<1>1. CASE UNCHANGED payoutVars
  BY <1>0, <1>1, QuietKeeps DEF payoutVars, records
<1>2. CASE \E b \in Booking : Confirm(b) \/ Cancel(b)
  BY <1>0, <1>2, QuietKeeps DEF Confirm, Cancel, records
<1>3. CASE SetPayoutsEnabled
  BY <1>0, <1>3, QuietKeeps DEF SetPayoutsEnabled, records
<1>4. ASSUME NEW w \in Worker, NEW b \in Booking, NEW kind \in {"confirmed", "cancelled"},
             Deliver(w, b, kind)
      PROVE  ReserveInv'
  <2>1. task'[w].op = kind /\ \A v \in Worker \ {w} : task'[v] = task[v]
    BY <1>0, <1>4 DEF Deliver, Begin, Free
  <2>2. UNCHANGED <<ledger, payout, rail, mutex>>
    BY <1>4 DEF Deliver, records
  <2> QED BY <1>0, <2>1, <2>2, QuietKeeps
<1>5. CASE \E w \in Worker, r \in Request : RequestDisbursement(w, r)
  BY <1>0, <1>5, RequestReserves
<1>6. ASSUME NEW w \in Worker,
             \/ LookEarning(w) \/ LookSession(w) \/ LookRefund(w) \/ LookSessionRefund(w)
      PROVE  ReserveInv'
  <2>1. UNCHANGED <<ledger, payout, rail, mutex>> /\ task[w].op # "pay"
    BY <1>6 DEF LookEarning, LookSession, LookRefund, LookSessionRefund, At, records
  <2>2. \A v \in Worker \ {w} : task'[v] = task[v]
    BY <1>0, <1>6 DEF LookEarning, LookSession, LookRefund, LookSessionRefund, End, Goto
  <2>3. task'[w].op # "pay"
    BY <1>0, <1>6, <2>1 DEF LookEarning, LookSession, LookRefund, LookSessionRefund, End, Goto,
                       Free, Task
  <2> QED BY <1>0, <2>1, <2>2, <2>3, QuietKeeps
<1>7. ASSUME NEW w \in Worker, CreditShare(w) \/ DebitHost(w)
      PROVE  ReserveInv'
  <2>1. UNCHANGED <<payout, rail, mutex>> /\ task[w].op # "pay"
    BY <1>7 DEF CreditShare, DebitHost, At
  <2>2. \A v \in Worker \ {w} : task'[v] = task[v]
    BY <1>0, <1>7 DEF CreditShare, DebitHost, End
  <2>3. task'[w].op # "pay"
    BY <1>0, <1>7, <2>1 DEF CreditShare, DebitHost, End, Free, Task
  <2>4. \A b \in Booking : ledger'[b].credited >= ledger[b].credited
    BY <1>7, CreditShareKeeps, DebitHostKeeps
  <2> QED BY <1>0, <2>1, <2>2, <2>3, <2>4, QuietKeeps
<1>8. ASSUME NEW w \in Worker,
             \/ Lock(w) \/ BalancesByHost(w) \/ DisbursedCentsByHost(w)
             \/ CreateDisbursement(w) \/ Disburse(w) \/ UpdateDisbursement(w)
      PROVE  ReserveInv'
  BY <1>0, <1>8, LockReserves, BalancesReserves, CommittedReserves, CreateReserves,
     DisburseReserves, UpdateReserves
<1>9. CASE \E p \in Processes : Crash(p)
  BY <1>0, <1>9, CrashReserves
<1> QED BY <1>1, <1>2, <1>3, <1>4, <1>5, <1>6, <1>7, <1>8, <1>9 DEF Next

LEMMA ReserveMeans == ReserveInv => CommittedIsEarned
BY DEF ReserveInv

\* What reserveLocks is for (service.go:237-313): in one process, requests, refunds,
\* failures and crashes leave no disbursement that was not earned.
THEOREM CommittedIsEarnedHolds ==
  ASSUME PayoutAssumption, OneProcess PROVE Spec => []CommittedIsEarned
<1>1. Init => CreditInv /\ ReserveInv
  BY CreditInit, ReserveInit
<1>2. CreditInv /\ ReserveInv /\ [Next]_payoutVars => (CreditInv /\ ReserveInv)'
  BY CreditStep, ReserveStep
<1> QED BY <1>1, <1>2, ReserveMeans, PTL DEF Spec
=============================================================================
