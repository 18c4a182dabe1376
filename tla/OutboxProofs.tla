---------------------------- MODULE OutboxProofs ----------------------------
(***************************************************************************)
(* Proofs about Outbox, for every set of records, replicas and request     *)
(* goroutines and every budget: the type invariant, at-least-once, no      *)
(* ghost event, the retry budget, and the EventDelivery contract.          *)
(***************************************************************************)
EXTENDS Outbox, FiniteSetTheorems, TLAPS

\* The tickets are numbers: only finitely many records were ever created.
LEMMA TicketsType == Tickets \in Nat /\ IsFiniteSet(Created)
<1>1. IsFiniteSet(Created)
  BY OutboxAssumption, FS_Subset, Created \subseteq Record DEF Created
<1> QED
  BY <1>1, FS_CardinalityType DEF Tickets

\* Init establishes the types.
LEMMA InitTypeOK == Init => TypeOK
  BY OutboxAssumption DEF Init, TypeOK, Label, Sub, Worker

\* A step keeps the types.
LEMMA NextTypeOK == TypeOK /\ [Next]_vars => TypeOK'
<1> SUFFICES ASSUME TypeOK, [Next]_vars PROVE TypeOK'
  OBVIOUS
<1> USE OutboxAssumption DEF TypeOK, Label, Sub, Worker, table, history
<1>1. ASSUME NEW w \in Writer, Begin(w) PROVE TypeOK'
  BY <1>1 DEF Begin, Goto
<1>2. ASSUME NEW w \in Writer, NEW r \in Record, AppendRecord(w, r) PROVE TypeOK'
  BY <1>2, TicketsType DEF AppendRecord
<1>3. ASSUME NEW w \in Writer, Commit(w) PROVE TypeOK'
  BY <1>3 DEF Commit, Goto
<1>4. ASSUME NEW w \in Writer, Rollback(w) PROVE TypeOK'
  BY <1>4 DEF Rollback, Goto
<1>5. ASSUME NEW w \in Writer, NEW r \in Record, PublishDirect(w, r) PROVE TypeOK'
  BY <1>5, TicketsType DEF PublishDirect, Goto, Fault
<1>6. ASSUME NEW w \in Writer, NEW r \in todo[w], DispatchNext(w, r) PROVE TypeOK'
  BY <1>6, SMTT(30) DEF DispatchNext, Row, Goto, Fault, Advance
<1>7. ASSUME NEW n \in Node, NEW batch \in SUBSET Due, Fetch(n, batch) PROVE TypeOK'
  BY <1>7 DEF Fetch, Goto, Due, Pending
<1>8. ASSUME NEW n \in Node, NEW r \in todo[n], Charge(n, r) PROVE TypeOK'
  BY <1>8 DEF Charge, Route, Goto, Fault
<1>9. ASSUME NEW n \in Node, NEW r \in todo[n], Bury(n, r) PROVE TypeOK'
  BY <1>9 DEF Bury, Row, Goto, Fault, Advance
<1>10. ASSUME NEW w \in Worker, NEW r \in todo[w], CallSubscriber(w, r) PROVE TypeOK'
  <2>1. r \in Record /\ turn[w] \in Sub
    OBVIOUS
  <2>2. offered' \in [Record -> SUBSET Sub] /\ handled' \in [Record -> SUBSET Sub]
    <3>1. /\ offered' = offered \/ \E s \in Sub : offered' = [offered EXCEPT ![r] = @ \cup {s}]
          /\ handled' = handled \/ \E s \in Sub : handled' = [handled EXCEPT ![r] = @ \cup {s}]
      BY <1>10, <2>1 DEF CallSubscriber
    <3> QED BY <2>1, <3>1
  <2>3. pc' \in [Worker -> Label]
    BY <1>10 DEF CallSubscriber, Goto
  <2>4. turn[w] # NSub => turn[w] + 1 \in Sub
    BY <2>1
  <2>5. turn' \in [Worker -> Sub]
    BY <1>10, <2>4 DEF CallSubscriber
  <2> QED
    BY <1>10, <2>2, <2>3, <2>5 DEF CallSubscriber, Fault
<1>11. ASSUME NEW w \in Worker, NEW r \in todo[w], Mark(w, r) PROVE TypeOK'
  BY <1>11 DEF Mark, Row, Goto, Fault, Advance
<1>12. ASSUME NEW r \in Record, Age(r) PROVE TypeOK'
  BY <1>12 DEF Age, Created
<1>13. ASSUME NEW r \in Record, Requeue(r) PROVE TypeOK'
  BY <1>13 DEF Requeue
<1>14. ASSUME NEW n \in Node, Crash(n) PROVE TypeOK'
  BY <1>14 DEF Crash
<1>15. ASSUME NEW n \in Node, Restart(n) PROVE TypeOK'
  BY <1>15 DEF Restart
<1>16. CASE UNCHANGED vars
  BY <1>16 DEF vars
<1> QED
  BY <1>1, <1>2, <1>3, <1>4, <1>5, <1>6, <1>7, <1>8, <1>9, <1>10, <1>11,
     <1>12, <1>13, <1>14, <1>15, <1>16
     DEF Next, WriterStep, RelayStep, DeliveryStep

\* Every variable keeps its type, in every behaviour of the outbox.
THEOREM TypeCorrect == Spec => []TypeOK
  BY InitTypeOK, NextTypeOK, PTL DEF Spec

-----------------------------------------------------------------------------
(* The inductive invariant. *)

\* Tickets identify the created records, and only created records are in the
\* table or in a worker's hands; an idle worker holds none.
TicketInv ==
  /\ \A r \in Record : stamp[r] <= Tickets
  /\ \A r, s \in Record : stamp[r] = stamp[s] /\ stamp[r] > 0 => r = s
  /\ stored \cup lossy \subseteq Created
  /\ \A w \in Worker : todo[w] \subseteq Created

\* A worker that is past its transaction holds only published records.
HeldInv ==
  \A w \in Worker : /\ pc[w] = "idle" => todo[w] = {}
                    /\ pc[w] # "tx" => todo[w] \subseteq stored \cup lossy

\* How far the current Publish of each worker has come.
OfferInv ==
  \A w \in Worker : \A r \in Oldest(todo[w]) :
    /\ pc[w] = "publish" => 1 .. (turn[w] - 1) \subseteq offered[r]
    /\ pc[w] = "mark" => offered[r] = Sub

\* A worker has one current record.
LEMMA OldestUnique ==
  ASSUME TypeOK, TicketInv, NEW S \in SUBSET Created, NEW r \in Oldest(S), NEW s \in Oldest(S)
  PROVE  r = s
<1>1. r \in Record /\ s \in Record /\ stamp[r] > 0 /\ stamp[s] > 0
  BY DEF Oldest, Created
<1>2. stamp[r] <= stamp[s] /\ stamp[s] <= stamp[r] /\ stamp[r] \in Nat /\ stamp[s] \in Nat
  BY <1>1 DEF Oldest, TypeOK
<1> QED
  BY <1>1, <1>2 DEF TicketInv

\* Stamping a new record keeps the tickets distinct and bounded.
LEMMA StampTickets ==
  ASSUME TypeOK, TicketInv, NEW r \in Record, stamp[r] = 0,
         stamp' = [stamp EXCEPT ![r] = Tickets + 1]
  PROVE  /\ Created' = Created \cup {r}
         /\ Tickets' = Tickets + 1
         /\ \A s \in Record : stamp'[s] <= Tickets'
         /\ \A s, t \in Record : stamp'[s] = stamp'[t] /\ stamp'[s] > 0 => s = t
<1>1. Tickets \in Nat /\ IsFiniteSet(Created)
  BY TicketsType
<1>2. Created' = Created \cup {r}
  BY <1>1 DEF Created, TypeOK
<1>3. r \notin Created
  BY DEF Created
<1>4. Tickets' = Tickets + 1
  BY <1>1, <1>2, <1>3, FS_AddElement DEF Tickets
<1>5. \A s \in Record : stamp'[s] = (IF s = r THEN Tickets + 1 ELSE stamp[s])
  BY DEF TypeOK
<1>6. \A s \in Record : stamp[s] <= Tickets /\ stamp[s] \in Nat
  BY DEF TicketInv, TypeOK
<1> QED
  BY <1>1, <1>2, <1>4, <1>5, <1>6 DEF TicketInv

\* No ticket is drawn at the start.
LEMMA InitTicketInv == Init => TicketInv
  BY TicketsType DEF Init, TicketInv, Created, Worker

\* Every step draws tickets in order.
LEMMA NextTicketInv == TypeOK /\ TicketInv /\ [Next]_vars => TicketInv'
<1> SUFFICES ASSUME TypeOK, TicketInv, [Next]_vars PROVE TicketInv'
  OBVIOUS
<1>1. ASSUME NEW w \in Writer, NEW r \in Record, AppendRecord(w, r) PROVE TicketInv'
  <2>1. /\ Created' = Created \cup {r}
        /\ \A s \in Record : stamp'[s] <= Tickets'
        /\ \A s, t \in Record : stamp'[s] = stamp'[t] /\ stamp'[s] > 0 => s = t
    BY <1>1, StampTickets DEF AppendRecord
  <2> QED
    BY <1>1, <2>1 DEF AppendRecord, TicketInv, TypeOK, Worker, history
<1>2. ASSUME NEW w \in Writer, NEW r \in Record, PublishDirect(w, r) PROVE TicketInv'
  <2>1. /\ Created' = Created \cup {r}
        /\ \A s \in Record : stamp'[s] <= Tickets'
        /\ \A s, t \in Record : stamp'[s] = stamp'[t] /\ stamp'[s] > 0 => s = t
    BY <1>2, StampTickets DEF PublishDirect
  <2>2. stored' \cup lossy' \subseteq stored \cup lossy \cup {r}
    BY <1>2 DEF PublishDirect
  <2>3. \A v \in Worker : todo'[v] \subseteq todo[v] \cup {r}
    BY <1>2 DEF PublishDirect, TypeOK, Worker
  <2> QED
    BY <2>1, <2>2, <2>3 DEF TicketInv
<1>3. ASSUME stamp' = stamp,
             stored' \cup lossy' \subseteq Created,
             \A w \in Worker : todo'[w] \subseteq Created
      PROVE  TicketInv'
  BY <1>3 DEF TicketInv, Created, Tickets
<1> USE DEF TypeOK, TicketInv, Worker, table, history
<1>4. ASSUME NEW w \in Writer, Begin(w) PROVE TicketInv'
  BY <1>3, <1>4 DEF Begin
<1>5. ASSUME NEW w \in Writer, Commit(w) PROVE TicketInv'
  BY <1>3, <1>5 DEF Commit
<1>6. ASSUME NEW w \in Writer, Rollback(w) PROVE TicketInv'
  BY <1>3, <1>6 DEF Rollback
<1>7. ASSUME NEW w \in Writer, NEW r \in todo[w], DispatchNext(w, r) PROVE TicketInv'
  BY <1>3, <1>7 DEF DispatchNext, Row, Advance
<1>8. ASSUME NEW n \in Node, NEW batch \in SUBSET Due, Fetch(n, batch) PROVE TicketInv'
  BY <1>3, <1>8 DEF Fetch, Due, Pending
<1>9. ASSUME NEW n \in Node, NEW r \in todo[n], Charge(n, r) PROVE TicketInv'
  BY <1>3, <1>9 DEF Charge
<1>10. ASSUME NEW n \in Node, NEW r \in todo[n], Bury(n, r) PROVE TicketInv'
  BY <1>3, <1>10 DEF Bury, Row, Advance
<1>11. ASSUME NEW w \in Worker, NEW r \in todo[w], CallSubscriber(w, r) PROVE TicketInv'
  BY <1>3, <1>11 DEF CallSubscriber
<1>12. ASSUME NEW w \in Worker, NEW r \in todo[w], Mark(w, r) PROVE TicketInv'
  BY <1>3, <1>12 DEF Mark, Row, Advance
<1>13. ASSUME NEW r \in Record, Age(r) \/ Requeue(r) PROVE TicketInv'
  BY <1>3, <1>13 DEF Age, Requeue
<1>14. ASSUME NEW n \in Node, Crash(n) \/ Restart(n) PROVE TicketInv'
  BY <1>3, <1>14 DEF Crash, Restart
<1>15. CASE UNCHANGED vars
  BY <1>3, <1>15 DEF vars
<1> QED
  BY <1>1, <1>2, <1>4, <1>5, <1>6, <1>7, <1>8, <1>9, <1>10, <1>11, <1>12,
     <1>13, <1>14, <1>15 DEF Next, WriterStep, RelayStep, DeliveryStep

\* No worker holds a record at the start.
LEMMA InitHeldInv == Init => HeldInv
  BY DEF Init, HeldInv, Worker

\* A worker only holds records that committed, or that a publisher without a transaction handed it.
LEMMA NextHeldInv == TypeOK /\ HeldInv /\ [Next]_vars => HeldInv'
<1> SUFFICES ASSUME TypeOK, HeldInv, [Next]_vars PROVE HeldInv'
  OBVIOUS
<1> USE DEF TypeOK, HeldInv, Worker, table, history, Goto
<1>1. ASSUME NEW w \in Writer, Begin(w) PROVE HeldInv'
  BY <1>1 DEF Begin
<1>2. ASSUME NEW w \in Writer, NEW r \in Record, AppendRecord(w, r) PROVE HeldInv'
  BY <1>2 DEF AppendRecord
<1>3. ASSUME NEW w \in Writer, Commit(w) PROVE HeldInv'
  BY <1>3 DEF Commit
<1>4. ASSUME NEW w \in Writer, Rollback(w) PROVE HeldInv'
  BY <1>4 DEF Rollback
<1>5. ASSUME NEW w \in Writer, NEW r \in Record, PublishDirect(w, r) PROVE HeldInv'
  BY <1>5 DEF PublishDirect
<1>6. ASSUME NEW w \in Writer, NEW r \in todo[w], DispatchNext(w, r) PROVE HeldInv'
  BY <1>6 DEF DispatchNext, Row, Advance
<1>7. ASSUME NEW n \in Node, NEW batch \in SUBSET Due, Fetch(n, batch) PROVE HeldInv'
  BY <1>7 DEF Fetch, Due, Pending
<1>8. ASSUME NEW n \in Node, NEW r \in todo[n], Charge(n, r) PROVE HeldInv'
  BY <1>8 DEF Charge, Route
<1>9. ASSUME NEW n \in Node, NEW r \in todo[n], Bury(n, r) PROVE HeldInv'
  BY <1>9 DEF Bury, Row, Advance
<1>10. ASSUME NEW w \in Worker, NEW r \in todo[w], CallSubscriber(w, r) PROVE HeldInv'
  BY <1>10 DEF CallSubscriber
<1>11. ASSUME NEW w \in Worker, NEW r \in todo[w], Mark(w, r) PROVE HeldInv'
  BY <1>11 DEF Mark, Row, Advance
<1>12. ASSUME NEW r \in Record, Age(r) \/ Requeue(r) PROVE HeldInv'
  BY <1>12 DEF Age, Requeue
<1>13. ASSUME NEW n \in Node, Crash(n) \/ Restart(n) PROVE HeldInv'
  BY <1>13 DEF Crash, Restart
<1>14. CASE UNCHANGED vars
  BY <1>14 DEF vars
<1> QED
  BY <1>1, <1>2, <1>3, <1>4, <1>5, <1>6, <1>7, <1>8, <1>9, <1>10, <1>11,
     <1>12, <1>13, <1>14 DEF Next, WriterStep, RelayStep, DeliveryStep

\* Nothing is offered at the start.
LEMMA InitOfferInv == Init => OfferInv
  BY DEF Init, OfferInv, Worker, Oldest

\* What a worker has under way is not disturbed by steps of the others.
LEMMA OfferFrame ==
  ASSUME TypeOK, TicketInv, OfferInv, TypeOK', NEW v \in Worker,
         todo'[v] = todo[v],
         \A r \in Created : stamp'[r] = stamp[r],
         pc'[v] \in {"publish", "mark"} => pc'[v] = pc[v] /\ turn'[v] = turn[v],
         \A r \in Record : offered[r] \subseteq offered'[r],
         NEW r \in Oldest(todo[v])'
  PROVE  /\ pc'[v] = "publish" => 1 .. (turn'[v] - 1) \subseteq offered'[r]
         /\ pc'[v] = "mark" => offered'[r] = Sub
<1>1. r \in Oldest(todo[v]) /\ r \in Record
  BY DEF Oldest, TicketInv, Created
<1>2. offered[r] \subseteq offered'[r] /\ offered'[r] \subseteq Sub
  BY <1>1 DEF TypeOK
<1>3. /\ pc[v] = "publish" => 1 .. (turn[v] - 1) \subseteq offered[r]
      /\ pc[v] = "mark" => offered[r] = Sub
  BY <1>1 DEF OfferInv
<1> QED
  BY <1>2, <1>3

\* A worker's place among the subscribers tells which of them were called.
LEMMA NextOfferInv ==
  TypeOK /\ TypeOK' /\ TicketInv /\ OfferInv /\ [Next]_vars => OfferInv'
<1> SUFFICES ASSUME TypeOK, TypeOK', TicketInv, OfferInv, [Next]_vars PROVE OfferInv'
  OBVIOUS
<1> USE DEF Worker, table, history, Goto
<1>1. ASSUME stamp' = stamp, todo' = todo, offered' = offered, turn' = turn, pc' = pc
      PROVE  OfferInv'
  BY <1>1 DEF OfferInv, Oldest, Sub
<1>2. ASSUME NEW w \in Worker,
             \A r \in Created : stamp'[r] = stamp[r],
             offered' = offered,
             \A v \in Worker \ {w} : pc'[v] = pc[v] /\ todo'[v] = todo[v] /\ turn'[v] = turn[v],
             \/ pc'[w] \notin {"publish", "mark"}
             \/ pc'[w] = "publish" /\ turn'[w] = 1
      PROVE  OfferInv'
  <2> SUFFICES ASSUME NEW v \in Worker, NEW r \in Oldest(todo[v])'
               PROVE  /\ pc'[v] = "publish" => 1 .. (turn'[v] - 1) \subseteq offered'[r]
                      /\ pc'[v] = "mark" => offered'[r] = Sub
    BY DEF OfferInv
  <2>1. CASE v = w
    BY <1>2, <2>1
  <2>2. CASE v # w
    <3>1. \A s \in Record : offered[s] \subseteq offered'[s]
      BY <1>2
    <3> QED
      BY <1>2, <2>2, <3>1, OfferFrame
  <2> QED
    BY <2>1, <2>2
<1>3. ASSUME NEW w \in Writer, Begin(w) PROVE OfferInv'
  BY <1>2, <1>3 DEF Begin, TypeOK
<1>4. ASSUME NEW w \in Writer, NEW r \in Record, AppendRecord(w, r) PROVE OfferInv'
  BY <1>2, <1>4 DEF AppendRecord, TypeOK, Created
<1>5. ASSUME NEW w \in Writer, Commit(w) PROVE OfferInv'
  BY <1>2, <1>5 DEF Commit, TypeOK
<1>6. ASSUME NEW w \in Writer, Rollback(w) PROVE OfferInv'
  BY <1>2, <1>6 DEF Rollback, TypeOK
<1>7. ASSUME NEW w \in Writer, NEW r \in Record, PublishDirect(w, r) PROVE OfferInv'
  BY <1>2, <1>7 DEF PublishDirect, TypeOK, Created
<1>8. ASSUME NEW w \in Writer, NEW r \in todo[w], DispatchNext(w, r) PROVE OfferInv'
  BY <1>2, <1>8 DEF DispatchNext, Row, Advance, TypeOK
<1>9. ASSUME NEW n \in Node, NEW batch \in SUBSET Due, Fetch(n, batch) PROVE OfferInv'
  BY <1>2, <1>9 DEF Fetch, TypeOK
<1>10. ASSUME NEW n \in Node, NEW r \in todo[n], Charge(n, r) PROVE OfferInv'
  BY <1>2, <1>10 DEF Charge, Route, TypeOK
<1>11. ASSUME NEW n \in Node, NEW r \in todo[n], Bury(n, r) PROVE OfferInv'
  BY <1>2, <1>11 DEF Bury, Row, Advance, TypeOK
<1>12. ASSUME NEW w \in Worker, NEW r \in todo[w], CallSubscriber(w, r) PROVE OfferInv'
  <2> SUFFICES ASSUME NEW v \in Worker, NEW s \in Oldest(todo[v])'
               PROVE  /\ pc'[v] = "publish" => 1 .. (turn'[v] - 1) \subseteq offered'[s]
                      /\ pc'[v] = "mark" => offered'[s] = Sub
    BY DEF OfferInv
  <2>1. /\ todo' = todo /\ stamp' = stamp
        /\ offered' = [offered EXCEPT ![r] = @ \cup {turn[w]}]
        /\ r \in Record
    BY <1>12 DEF CallSubscriber, TypeOK
  <2>2. CASE v # w
    <3>1. \A t \in Record : offered[t] \subseteq offered'[t]
      BY <2>1 DEF TypeOK
    <3>2. pc'[v] = pc[v] /\ turn'[v] = turn[v]
      BY <1>12, <2>2 DEF CallSubscriber, TypeOK
    <3> QED
      BY <2>1, <3>1, <3>2, OfferFrame
  <2>3. CASE v = w
    <3>1. s = r
      <4>1. s \in Oldest(todo[w]) /\ r \in Oldest(todo[w]) /\ todo[w] \in SUBSET Created
        BY <1>12, <2>1, <2>3 DEF Oldest, CallSubscriber, TicketInv
      <4> QED
        BY <4>1, OldestUnique
    <3>2. 1 .. (turn[w] - 1) \subseteq offered[r] /\ turn[w] \in Sub /\ offered'[r] \subseteq Sub
      BY <1>12, <2>1 DEF CallSubscriber, OfferInv, TypeOK
    <3>3. 1 .. turn[w] \subseteq offered'[r]
      <4>1. offered'[r] = offered[r] \cup {turn[w]}
        BY <2>1 DEF TypeOK
      <4>2. ASSUME NEW i \in 1 .. turn[w], i # turn[w] PROVE i \in 1 .. (turn[w] - 1)
        BY <3>2, <4>2 DEF Sub
      <4> QED
        BY <3>2, <4>1, <4>2
    <3>4. CASE turn[w] = NSub
      <4>1. pc'[v] = "mark"
        BY <1>12, <2>3, <3>4 DEF CallSubscriber, TypeOK
      <4> QED
        BY <3>1, <3>2, <3>3, <3>4, <4>1 DEF Sub
    <3>5. CASE turn[w] # NSub
      <4>1. pc'[v] = "publish" /\ turn'[v] = turn[w] + 1
        BY <1>12, <2>3, <3>5 DEF CallSubscriber, TypeOK
      <4> QED
        BY <3>1, <3>2, <3>3, <4>1 DEF Sub
    <3> QED
      BY <3>4, <3>5
  <2> QED
    BY <2>2, <2>3
<1>13. ASSUME NEW w \in Worker, NEW r \in todo[w], Mark(w, r) PROVE OfferInv'
  BY <1>2, <1>13 DEF Mark, Row, Advance, TypeOK
<1>14. ASSUME NEW r \in Record, Age(r) \/ Requeue(r) PROVE OfferInv'
  BY <1>1, <1>14 DEF Age, Requeue
<1>15. ASSUME NEW n \in Node, Crash(n) PROVE OfferInv'
  <2> SUFFICES ASSUME NEW v \in Worker, NEW r \in Oldest(todo[v])'
               PROVE  /\ pc'[v] = "publish" => 1 .. (turn'[v] - 1) \subseteq offered'[r]
                      /\ pc'[v] = "mark" => offered'[r] = Sub
    BY DEF OfferInv
  <2>1. CASE HomeOf(v) = n
    BY <1>15, <2>1 DEF Crash
  <2>2. CASE HomeOf(v) # n
    <3>1. \A s \in Record : offered[s] \subseteq offered'[s]
      BY <1>15 DEF Crash
    <3> QED
      BY <1>15, <2>2, <3>1, OfferFrame DEF Crash
  <2> QED
    BY <2>1, <2>2
<1>16. ASSUME NEW n \in Node, Restart(n) PROVE OfferInv'
  BY <1>1, <1>16 DEF Restart
<1>17. CASE UNCHANGED vars
  BY <1>1, <1>17 DEF vars
<1> QED
  BY <1>3, <1>4, <1>5, <1>6, <1>7, <1>8, <1>9, <1>10, <1>11, <1>12, <1>13,
     <1>14, <1>15, <1>16, <1>17 DEF Next, WriterStep, RelayStep, DeliveryStep

-----------------------------------------------------------------------------
(* The safety invariants of the runs. *)

\* Types, tickets, what workers hold and how far they are, together.
Progress == TypeOK /\ TicketInv /\ HeldInv /\ OfferInv

\* Types, tickets, what is held and what was offered, in every reachable state.
LEMMA ProgressInvariant == Spec => []Progress
<1>1. Init => Progress
  BY InitTypeOK, InitTicketInv, InitHeldInv, InitOfferInv DEF Progress
<1>2. Progress /\ [Next]_vars => Progress'
  BY NextTypeOK, NextTicketInv, NextHeldInv, NextOfferInv DEF Progress
<1> QED
  BY <1>1, <1>2, PTL DEF Spec

\* What a step does to the columns and histories the invariants are about.
LEMMA StepEffect ==
  ASSUME Progress, [Next]_vars
  PROVE  /\ stored \subseteq stored' /\ lossy \subseteq lossy'
         /\ \A r \in Record : offered[r] \subseteq offered'[r]
         /\ \A r \in Record : offered'[r] # offered[r] => r \in stored \cup lossy
         /\ \A r \in processed' \ processed : r \in Record /\ offered[r] = Sub
<1> USE DEF Progress, TypeOK, Worker, table, history
<1>1. ASSUME NEW w \in Worker, NEW r \in todo[w], CallSubscriber(w, r)
      PROVE  /\ stored' = stored /\ lossy' = lossy /\ processed' = processed
             /\ offered' = [offered EXCEPT ![r] = @ \cup {turn[w]}]
             /\ r \in stored \cup lossy
  BY <1>1 DEF CallSubscriber, HeldInv
<1>2. ASSUME NEW w \in Worker, NEW r \in todo[w], Mark(w, r)
      PROVE  /\ stored' = stored /\ lossy' = lossy /\ offered' = offered
             /\ processed' \subseteq processed \cup {r}
             /\ r \in Record /\ offered[r] = Sub
  BY <1>2 DEF Mark, Row, OfferInv
<1>3. ASSUME NEW w \in Writer, WriterStep(w)
      PROVE  /\ stored \subseteq stored' /\ lossy \subseteq lossy'
             /\ offered' = offered /\ processed' = processed
  BY <1>3 DEF WriterStep, Begin, AppendRecord, Commit, Rollback, PublishDirect, DispatchNext
<1>4. ASSUME NEW n \in Node, RelayStep(n)
      PROVE  stored' = stored /\ lossy' = lossy /\ offered' = offered /\ processed' = processed
  BY <1>4 DEF RelayStep, Fetch, Charge, Bury
<1>5. CASE \/ \E r \in Record : Age(r) \/ Requeue(r)
           \/ \E n \in Node : Crash(n) \/ Restart(n)
           \/ UNCHANGED vars
  BY <1>5 DEF Age, Requeue, Crash, Restart, vars
<1>6. ASSUME NEW w \in Worker, NEW r \in todo[w], CallSubscriber(w, r)
      PROVE  \A s \in Record : /\ offered[s] \subseteq offered'[s]
                               /\ offered'[s] # offered[s] => s = r
  BY <1>1, <1>6
<1> QED
  BY <1>1, <1>2, <1>3, <1>4, <1>5, <1>6 DEF Next, DeliveryStep

\* At least once: whatever crashed, failed or was requeued, a row is marked
\* processed only after each subscriber was called with its event.
THEOREM AtLeastOnce == Spec => []ProcessedWasOffered
<1>1. Init => ProcessedWasOffered
  BY DEF Init, ProcessedWasOffered
<1>2. ProcessedWasOffered /\ Progress /\ Progress' /\ [Next]_vars => ProcessedWasOffered'
  <2> SUFFICES ASSUME ProcessedWasOffered, Progress, Progress', [Next]_vars,
                      NEW r \in processed'
               PROVE  offered'[r] = Sub
    BY DEF ProcessedWasOffered
  <2>1. r \in Record /\ offered[r] = Sub
    BY StepEffect DEF ProcessedWasOffered, Progress, TypeOK
  <2>2. offered[r] \subseteq offered'[r] /\ offered'[r] \subseteq Sub
    BY <2>1, StepEffect DEF Progress, TypeOK
  <2> QED
    BY <2>1, <2>2
<1> QED
  BY <1>1, <1>2, ProgressInvariant, PTL DEF Spec

\* No ghost: only events whose row was committed reach a subscriber, those
\* Publish delivers after a failed append apart.
THEOREM NoGhost == Spec => []NoGhostEvent
<1>1. Init => NoGhostEvent
  BY DEF Init, NoGhostEvent
<1>2. NoGhostEvent /\ Progress /\ [Next]_vars => NoGhostEvent'
  BY StepEffect DEF NoGhostEvent
<1> QED
  BY <1>1, <1>2, ProgressInvariant, PTL DEF Spec

-----------------------------------------------------------------------------
(* The retry budget. *)

\* The part of the attempts column that bought a delivery since the last requeue.
Spent(r) == IF attempts[r] > MaxAttempts THEN MaxAttempts ELSE attempts[r]

\* Deliveries never outrun the charges; for a record with a decoder every
\* charge bought one, and a worker about to bury it has seen the budget spent.
BudgetInv ==
  /\ \A r \in Record : passes[r] <= MaxAttempts * requeues[r] + Spent(r) + uncharged[r]
  /\ \A r \in Record \ Undecodable : Spent(r) <= passes[r]
  /\ \A w \in Worker : pc[w] = "bury" =>
       \A r \in Oldest(todo[w]) \ Undecodable : passes[r] >= MaxAttempts
  /\ DeadWasTried

\* No delivery is charged at the start.
LEMMA InitBudgetInv == Init => BudgetInv
  BY OutboxAssumption DEF Init, BudgetInv, Spent, DeadWasTried, Oldest, Worker

\* The column and the budget bound the deliveries the relays started.
LEMMA BudgetBounds == TypeOK /\ BudgetInv => RetryBudget
<1> SUFFICES ASSUME TypeOK, BudgetInv, NEW r \in Record
             PROVE  passes[r] <= MaxAttempts * (1 + requeues[r]) + uncharged[r]
  BY DEF RetryBudget
<1>1. /\ passes[r] <= MaxAttempts * requeues[r] + Spent(r) + uncharged[r]
      /\ Spent(r) <= MaxAttempts
  BY OutboxAssumption DEF BudgetInv, Spent, TypeOK
<1>2. /\ MaxAttempts \in Nat /\ requeues[r] \in Nat /\ uncharged[r] \in Nat
      /\ passes[r] \in Nat /\ Spent(r) \in Nat
  BY OutboxAssumption DEF TypeOK, Spent
<1>3. MaxAttempts * (1 + requeues[r]) = MaxAttempts + MaxAttempts * requeues[r]
  BY <1>2
<1>4. MaxAttempts * requeues[r] \in Nat
  BY <1>2
<1> QED
  BY <1>1, <1>2, <1>3, <1>4

\* The four conjuncts from what happened to the counters of each record.
LEMMA BudgetFrame ==
  ASSUME Progress, TypeOK', BudgetInv,
         \A r \in Record : passes[r] <= passes'[r],
         \A r \in Record : passes'[r] <= MaxAttempts * requeues'[r] + Spent(r)' + uncharged'[r],
         \A r \in Record \ Undecodable : Spent(r)' <= passes'[r],
         \A r \in Created : stamp'[r] = stamp[r],
         \A w \in Worker : pc'[w] = "bury" => pc[w] = "bury" /\ todo'[w] = todo[w],
         dead' \subseteq dead
  PROVE  BudgetInv'
<1>1. ASSUME NEW w \in Worker, pc'[w] = "bury", NEW r \in Oldest(todo[w])' \ Undecodable
      PROVE  passes'[r] >= MaxAttempts
  <2>1. r \in Oldest(todo[w]) /\ r \in Record /\ pc[w] = "bury"
    BY <1>1 DEF Oldest, Progress, TicketInv, Created
  <2>2. passes[r] >= MaxAttempts /\ passes[r] <= passes'[r]
    BY <2>1 DEF BudgetInv
  <2>3. passes[r] \in Nat /\ passes'[r] \in Nat /\ MaxAttempts \in Nat
    BY <2>1, OutboxAssumption DEF Progress, TypeOK
  <2> QED
    BY <2>2, <2>3
<1>2. ASSUME NEW r \in dead' \ Undecodable PROVE passes'[r] >= MaxAttempts
  <2>1. r \in Record /\ passes[r] >= MaxAttempts /\ passes[r] <= passes'[r]
    BY DEF BudgetInv, DeadWasTried, Progress, TypeOK
  <2>2. passes[r] \in Nat /\ passes'[r] \in Nat /\ MaxAttempts \in Nat
    BY <2>1, OutboxAssumption DEF Progress, TypeOK
  <2> QED
    BY <2>1, <2>2
<1> QED
  BY <1>1, <1>2 DEF BudgetInv, DeadWasTried

\* Steps that touch no counter keep the budget.
LEMMA BudgetQuiet ==
  ASSUME Progress, TypeOK', BudgetInv,
         UNCHANGED <<attempts, passes, uncharged, requeues, dead>>,
         \A r \in Created : stamp'[r] = stamp[r],
         \A w \in Worker : pc'[w] = "bury" => pc[w] = "bury" /\ todo'[w] = todo[w]
  PROVE  BudgetInv'
<1>1. \A r \in Record : Spent(r)' = Spent(r) /\ passes[r] \in Nat
  BY DEF Spent, Progress, TypeOK
<1>2. \A r \in Record : passes[r] <= passes'[r]
  BY <1>1
<1>3. \A r \in Record : passes'[r] <= MaxAttempts * requeues'[r] + Spent(r)' + uncharged'[r]
  BY <1>1 DEF BudgetInv
<1>4. \A r \in Record \ Undecodable : Spent(r)' <= passes'[r]
  BY <1>1 DEF BudgetInv
<1> QED
  BY <1>2, <1>3, <1>4, BudgetFrame

\* Requeue opens a new budget of MaxAttempts and forgets what was spent.
LEMMA RequeueBudget ==
  ASSUME Progress, TypeOK', BudgetInv, NEW r \in Record, Requeue(r)
  PROVE  BudgetInv'
<1> USE OutboxAssumption DEF Progress, TypeOK
<1>1. /\ passes' = passes /\ uncharged' = uncharged /\ stamp' = stamp
      /\ pc' = pc /\ todo' = todo /\ dead' \subseteq dead
      /\ requeues' = [requeues EXCEPT ![r] = @ + 1]
      /\ attempts' = [attempts EXCEPT ![r] = 0]
  BY DEF Requeue, history
<1>2. ASSUME NEW s \in Record
      PROVE  /\ passes'[s] <= MaxAttempts * requeues'[s] + Spent(s)' + uncharged'[s]
             /\ s \notin Undecodable => Spent(s)' <= passes'[s]
  <2>1. CASE s # r
    <3>1. Spent(s)' = Spent(s) /\ requeues'[s] = requeues[s]
      BY <1>1, <2>1 DEF Spent
    <3> QED
      BY <1>1, <3>1 DEF BudgetInv
  <2>2. CASE s = r
    <3>1. Spent(s)' = 0 /\ requeues'[s] = requeues[s] + 1
      BY <1>1, <2>2 DEF Spent
    <3>2. /\ passes[s] <= MaxAttempts * requeues[s] + Spent(s) + uncharged[s]
          /\ Spent(s) <= MaxAttempts /\ Spent(s) \in Nat
          /\ passes[s] \in Nat /\ requeues[s] \in Nat /\ uncharged[s] \in Nat
      BY DEF BudgetInv, Spent
    <3>3. MaxAttempts * (requeues[s] + 1) = MaxAttempts * requeues[s] + MaxAttempts
      BY <3>2
    <3>4. MaxAttempts * requeues[s] \in Nat
      BY <3>2
    <3> QED
      BY <1>1, <3>1, <3>2, <3>3, <3>4
  <2> QED
    BY <2>1, <2>2
<1>3. \A s \in Record : passes[s] <= passes'[s]
  BY <1>1
<1> QED
  BY <1>1, <1>2, <1>3, BudgetFrame

\* Charge spends one attempt for one delivery, or finds the budget spent.
LEMMA ChargeBudget ==
  ASSUME Progress, TypeOK', BudgetInv, NEW n \in Node, NEW r \in todo[n], Charge(n, r)
  PROVE  BudgetInv'
<1> USE OutboxAssumption DEF Progress, TypeOK, Worker
<1>1. /\ r \in Record /\ r \in Oldest(todo[n])
      /\ stamp' = stamp /\ todo' = todo /\ dead' = dead /\ requeues' = requeues
      /\ \A v \in Worker \ {n} : pc'[v] = pc[v]
  BY DEF Charge, Route, Goto
<1>2. /\ passes[r] <= MaxAttempts * requeues[r] + Spent(r) + uncharged[r]
      /\ r \notin Undecodable => Spent(r) <= passes[r]
      /\ passes[r] \in Nat /\ attempts[r] \in Nat /\ uncharged[r] \in Nat
      /\ MaxAttempts * requeues[r] \in Nat
  BY <1>1 DEF BudgetInv
<1>3. \A s \in Record \ {r} :
        passes'[s] = passes[s] /\ attempts'[s] = attempts[s] /\ uncharged'[s] = uncharged[s]
  BY <1>1 DEF Charge, Route
<1>4. /\ passes'[r] \in {passes[r], passes[r] + 1}
      /\ passes'[r] <= MaxAttempts * requeues'[r] + Spent(r)' + uncharged'[r]
      /\ r \notin Undecodable => Spent(r)' <= passes'[r]
      /\ pc'[n] = "bury" /\ r \notin Undecodable => passes'[r] >= MaxAttempts
  <2>1. CASE attempts' = [attempts EXCEPT ![r] = @ + 1] /\ Route(n, r, attempts[r] + 1)
             /\ uncharged' = uncharged
    BY <1>1, <1>2, <2>1 DEF Route, Goto, Spent
  <2>2. CASE attempts' = attempts /\ Route(n, r, 0)
             /\ uncharged' = [uncharged EXCEPT ![r] = @ + 1]
    BY <1>1, <1>2, <2>2 DEF Route, Goto, Spent
  <2> QED
    BY <2>1, <2>2 DEF Charge
<1>5. ASSUME NEW s \in Record
      PROVE  /\ passes[s] <= passes'[s]
             /\ passes'[s] <= MaxAttempts * requeues'[s] + Spent(s)' + uncharged'[s]
             /\ s \notin Undecodable => Spent(s)' <= passes'[s]
  <2>1. CASE s = r
    BY <1>2, <1>4, <2>1
  <2>2. CASE s # r
    <3>1. Spent(s)' = Spent(s)
      BY <1>3, <2>2 DEF Spent
    <3> QED
      BY <1>1, <1>3, <2>2, <3>1 DEF BudgetInv
  <2> QED
    BY <2>1, <2>2
<1>6. ASSUME NEW v \in Worker, pc'[v] = "bury", NEW s \in Oldest(todo[v])' \ Undecodable
      PROVE  passes'[s] >= MaxAttempts
  <2>1. s \in Oldest(todo[v]) /\ s \in Record
    BY <1>1, <1>6 DEF Oldest
  <2>2. CASE v = n
    <3>1. s = r
      BY <1>1, <2>1, <2>2, OldestUnique DEF TicketInv
    <3> QED
      BY <1>4, <1>6, <2>2, <3>1
  <2>3. CASE v # n
    <3>1. passes[s] >= MaxAttempts /\ passes[s] <= passes'[s]
      BY <1>1, <1>5, <1>6, <2>1, <2>3 DEF BudgetInv
    <3>2. passes[s] \in Nat /\ passes'[s] \in Nat
      BY <2>1
    <3> QED
      BY <3>1, <3>2
  <2> QED
    BY <2>2, <2>3
<1>7. ASSUME NEW s \in dead' \ Undecodable PROVE passes'[s] >= MaxAttempts
  <2>1. s \in Record /\ passes[s] >= MaxAttempts /\ passes[s] <= passes'[s]
    BY <1>1, <1>5 DEF BudgetInv, DeadWasTried
  <2>2. passes[s] \in Nat /\ passes'[s] \in Nat
    BY <2>1
  <2> QED
    BY <2>1, <2>2
<1> QED
  BY <1>5, <1>6, <1>7 DEF BudgetInv, DeadWasTried

\* MarkFailed charges an attempt too, but only to a record without a decoder.
LEMMA DispatchBudget ==
  ASSUME Progress, TypeOK', BudgetInv, NEW w \in Writer, NEW r \in todo[w], DispatchNext(w, r)
  PROVE  BudgetInv'
<1> USE OutboxAssumption DEF Progress, TypeOK, Worker
<1>1. /\ passes' = passes /\ uncharged' = uncharged /\ requeues' = requeues
      /\ stamp' = stamp /\ dead' = dead /\ r \in Record
      /\ \A v \in Worker : pc'[v] = "bury" => pc[v] = "bury" /\ todo'[v] = todo[v]
  BY DEF DispatchNext, Row, Goto, Advance, history
<1>2. CASE attempts' = attempts
  BY <1>1, <1>2, BudgetQuiet
<1>3. CASE r \in Undecodable /\ attempts' = [attempts EXCEPT ![r] = @ + 1]
  <2>1. ASSUME NEW s \in Record
        PROVE  /\ passes'[s] <= MaxAttempts * requeues'[s] + Spent(s)' + uncharged'[s]
               /\ s \notin Undecodable => Spent(s)' <= passes'[s]
    <3>1. /\ passes[s] <= MaxAttempts * requeues[s] + Spent(s) + uncharged[s]
          /\ s \notin Undecodable => Spent(s) <= passes[s]
          /\ passes[s] \in Nat /\ uncharged[s] \in Nat /\ attempts[s] \in Nat
          /\ MaxAttempts * requeues[s] \in Nat
      BY DEF BudgetInv
    <3>2. Spent(s) <= Spent(s)' /\ Spent(s) \in Nat /\ Spent(s)' \in Nat
      BY <1>3, <3>1 DEF Spent
    <3>3. s \notin Undecodable => Spent(s)' = Spent(s)
      BY <1>3 DEF Spent
    <3> QED
      BY <1>1, <3>1, <3>2, <3>3
  <2>2. \A s \in Record : passes[s] <= passes'[s]
    BY <1>1
  <2> QED
    BY <1>1, <2>1, <2>2, BudgetFrame
<1> QED
  BY <1>2, <1>3 DEF DispatchNext

\* A worker buries its current record, whose budget it has seen spent.
LEMMA BuryBudget ==
  ASSUME Progress, TypeOK', BudgetInv, NEW n \in Node, NEW r \in todo[n], Bury(n, r)
  PROVE  BudgetInv'
<1> USE DEF Progress, TypeOK, Worker
<1>1. /\ attempts' = attempts /\ passes' = passes /\ uncharged' = uncharged
      /\ requeues' = requeues /\ stamp' = stamp
      /\ \A v \in Worker : pc'[v] = "bury" => pc[v] = "bury" /\ todo'[v] = todo[v]
      /\ dead' \subseteq dead \cup {r}
      /\ r \notin Undecodable => passes[r] >= MaxAttempts
  BY DEF Bury, Row, Goto, Advance, history, BudgetInv
<1>2. \A v \in Worker : pc'[v] = "bury" => Oldest(todo[v])' = Oldest(todo[v])
  BY <1>1 DEF Oldest
<1>3. \A s \in Record : Spent(s)' = Spent(s)
  BY <1>1 DEF Spent
<1> QED
  BY <1>1, <1>2, <1>3 DEF BudgetInv, DeadWasTried

\* Every delivery the relay starts is charged to the column before.
LEMMA NextBudgetInv == Progress /\ TypeOK' /\ BudgetInv /\ [Next]_vars => BudgetInv'
<1> SUFFICES ASSUME Progress, TypeOK', BudgetInv, [Next]_vars PROVE BudgetInv'
  OBVIOUS
<1> USE DEF Progress, TypeOK, Worker, table, history, Goto
<1>1. ASSUME NEW w \in Writer, Begin(w) \/ Commit(w) \/ Rollback(w) PROVE BudgetInv'
  BY <1>1, BudgetQuiet DEF Begin, Commit, Rollback
<1>2. ASSUME NEW w \in Writer, NEW r \in Record, AppendRecord(w, r) PROVE BudgetInv'
  BY <1>2, BudgetQuiet DEF AppendRecord, Created
<1>3. ASSUME NEW w \in Writer, NEW r \in Record, PublishDirect(w, r) PROVE BudgetInv'
  BY <1>3, BudgetQuiet DEF PublishDirect, Created
<1>4. ASSUME NEW n \in Node, NEW batch \in SUBSET Due, Fetch(n, batch) PROVE BudgetInv'
  BY <1>4, BudgetQuiet DEF Fetch
<1>5. ASSUME NEW w \in Worker, NEW r \in todo[w], CallSubscriber(w, r) PROVE BudgetInv'
  BY <1>5, BudgetQuiet DEF CallSubscriber
<1>6. ASSUME NEW w \in Worker, NEW r \in todo[w], Mark(w, r) PROVE BudgetInv'
  BY <1>6, BudgetQuiet DEF Mark, Row, Advance
<1>7. ASSUME NEW r \in Record, Age(r) PROVE BudgetInv'
  BY <1>7, BudgetQuiet DEF Age
<1>8. ASSUME NEW n \in Node, Crash(n) \/ Restart(n) PROVE BudgetInv'
  BY <1>8, BudgetQuiet DEF Crash, Restart
<1>9. CASE UNCHANGED vars
  BY <1>9, BudgetQuiet DEF vars
<1> QED
  BY <1>1, <1>2, <1>3, <1>4, <1>5, <1>6, <1>7, <1>8, <1>9,
     DispatchBudget, ChargeBudget, BuryBudget, RequeueBudget
     DEF Next, WriterStep, RelayStep, DeliveryStep

\* The relay starts at most MaxAttempts charged deliveries of a record per
\* requeue, over all replicas and crashes, for every MaxAttempts.
THEOREM BudgetHolds == Spec => []RetryBudget
<1>1. Init => BudgetInv
  BY InitBudgetInv
<1>2. Progress /\ Progress' /\ BudgetInv /\ [Next]_vars => BudgetInv'
  BY NextBudgetInv DEF Progress
<1>3. Progress /\ BudgetInv => RetryBudget
  BY BudgetBounds DEF Progress
<1> QED
  BY <1>1, <1>2, <1>3, ProgressInvariant, PTL DEF Spec

\* No record with a decoder is given up on before MaxAttempts deliveries.
THEOREM DeadHadItsBudget == Spec => []DeadWasTried
<1>1. Init => BudgetInv
  BY InitBudgetInv
<1>2. Progress /\ Progress' /\ BudgetInv /\ [Next]_vars => BudgetInv'
  BY NextBudgetInv DEF Progress
<1>3. BudgetInv => DeadWasTried
  BY DEF BudgetInv
<1> QED
  BY <1>1, <1>2, <1>3, ProgressInvariant, PTL DEF Spec

-----------------------------------------------------------------------------
(* The outbox implements EventDelivery. *)

\* Only rows have columns set; a record published without a row never gets
\* one; what a transaction has appended is not published, nor in another one.
ColumnInv ==
  /\ processed \cup failed \cup dead \subseteq stored
  /\ stored \cap lossy = {}
  /\ \A w \in Worker : pc[w] = "tx" => todo[w] \cap (stored \cup lossy) = {}
  /\ \A v, w \in Worker : pc[v] = "tx" /\ pc[w] = "tx" /\ v # w => todo[v] \cap todo[w] = {}

\* No timestamp is set at the start.
LEMMA InitColumnInv == Init => ColumnInv
  BY DEF Init, ColumnInv, Worker

\* Which timestamps of a row are set together.
LEMMA NextColumnInv == Progress /\ ColumnInv /\ [Next]_vars => ColumnInv'
<1> SUFFICES ASSUME Progress, ColumnInv, [Next]_vars PROVE ColumnInv'
  OBVIOUS
<1> USE DEF Progress, TypeOK, ColumnInv, Worker, table, history, Goto
<1>1. ASSUME NEW w \in Writer, Begin(w) PROVE ColumnInv'
  BY <1>1 DEF Begin, HeldInv
<1>2. ASSUME NEW w \in Writer, NEW r \in Record, AppendRecord(w, r) PROVE ColumnInv'
  BY <1>2 DEF AppendRecord, TicketInv, Created
<1>3. ASSUME NEW w \in Writer, Commit(w) PROVE ColumnInv'
  BY <1>3 DEF Commit
<1>4. ASSUME NEW w \in Writer, Rollback(w) PROVE ColumnInv'
  BY <1>4 DEF Rollback
<1>5. ASSUME NEW w \in Writer, NEW r \in Record, PublishDirect(w, r) PROVE ColumnInv'
  <2>1. r \notin stored \cup lossy /\ \A v \in Worker : r \notin todo[v]
    BY <1>5 DEF PublishDirect, TicketInv, Created
  <2> QED
    BY <1>5, <2>1 DEF PublishDirect
<1>6. ASSUME NEW w \in Writer, NEW r \in todo[w], DispatchNext(w, r) PROVE ColumnInv'
  BY <1>6 DEF DispatchNext, Row, Advance
<1>7. ASSUME NEW n \in Node, NEW batch \in SUBSET Due, Fetch(n, batch) PROVE ColumnInv'
  BY <1>7 DEF Fetch
<1>8. ASSUME NEW n \in Node, NEW r \in todo[n], Charge(n, r) PROVE ColumnInv'
  BY <1>8 DEF Charge, Route
<1>9. ASSUME NEW n \in Node, NEW r \in todo[n], Bury(n, r) PROVE ColumnInv'
  BY <1>9 DEF Bury, Row, Advance
<1>10. ASSUME NEW w \in Worker, NEW r \in todo[w], CallSubscriber(w, r) PROVE ColumnInv'
  BY <1>10 DEF CallSubscriber
<1>11. ASSUME NEW w \in Worker, NEW r \in todo[w], Mark(w, r) PROVE ColumnInv'
  BY <1>11 DEF Mark, Row, Advance
<1>12. ASSUME NEW r \in Record, Age(r) \/ Requeue(r) PROVE ColumnInv'
  BY <1>12 DEF Age, Requeue
<1>13. ASSUME NEW n \in Node, Crash(n) \/ Restart(n) PROVE ColumnInv'
  BY <1>13 DEF Crash, Restart
<1>14. CASE UNCHANGED vars
  BY <1>14 DEF vars
<1> QED
  BY <1>1, <1>2, <1>3, <1>4, <1>5, <1>6, <1>7, <1>8, <1>9, <1>10, <1>11,
     <1>12, <1>13, <1>14 DEF Next, WriterStep, RelayStep, DeliveryStep

\* An empty table is an empty ledger.
LEMMA InitLedger == Init => Delivery!Init
  BY DEF Init, Delivery!Init, LedgerOf

\* Steps that write no column and offer nothing are invisible to the contract.
LEMMA LedgerQuiet ==
  ASSUME UNCHANGED <<stored, processed, failed, dead, lossy, offered>>
  PROVE  UNCHANGED Delivery!vars
  BY DEF Delivery!vars, LedgerOf

\* A commit enters what the transaction appended into the ledger at once.
LEMMA LedgerCommit ==
  ASSUME ColumnInv, NEW S \in SUBSET Record, S \cap (stored \cup lossy) = {},
         stored' = stored \cup S, UNCHANGED <<processed, failed, dead, lossy, offered>>
  PROVE  Delivery!Next
<1>1. \A r \in S : LedgerOf[r] = "none"
  BY DEF LedgerOf, ColumnInv
<1>2. LedgerOf' = [r \in Record |-> IF r \in S THEN "open" ELSE LedgerOf[r]]
  BY DEF LedgerOf, ColumnInv
<1>3. Delivery!Commit(S)
  BY <1>1, <1>2 DEF Delivery!Commit
<1> QED
  BY <1>3 DEF Delivery!Next

\* MarkFailed and DeadLetter give up on an open record, and change nothing
\* the contract sees for one that is already settled.
LEMMA LedgerGiveUp ==
  ASSUME ColumnInv, NEW r \in Record, failed' \cup dead' = failed \cup dead \cup Row(r),
         UNCHANGED <<stored, processed, lossy, offered>>
  PROVE  Delivery!Next \/ UNCHANGED Delivery!vars
<1>1. CASE r \in stored \ (processed \cup failed \cup dead)
  <2>1. LedgerOf[r] = "open" /\ LedgerOf' = [LedgerOf EXCEPT ![r] = "dead"]
    BY <1>1 DEF LedgerOf, Row
  <2>2. Delivery!GiveUp(r)
    BY <2>1 DEF Delivery!GiveUp
  <2> QED
    BY <2>2 DEF Delivery!Next
<1>2. CASE r \notin stored \ (processed \cup failed \cup dead)
  <2>1. LedgerOf' = LedgerOf
    BY <1>2 DEF LedgerOf, Row
  <2> QED
    BY <2>1 DEF Delivery!vars
<1> QED
  BY <1>1, <1>2

\* Requeue reopens a record that was given up, or changes nothing the contract sees.
LEMMA LedgerRequeue ==
  ASSUME ColumnInv, NEW r \in Record, Requeue(r)
  PROVE  Delivery!Next \/ UNCHANGED Delivery!vars
<1> USE DEF Requeue
<1>1. CASE r \in (failed \cup dead) \ processed
  <2>1. LedgerOf[r] = "dead" /\ LedgerOf' = [LedgerOf EXCEPT ![r] = "open"]
    BY <1>1 DEF LedgerOf
  <2>2. Delivery!Reopen(r)
    BY <2>1 DEF Delivery!Reopen
  <2> QED
    BY <2>2 DEF Delivery!Next
<1>2. CASE r \notin (failed \cup dead) \ processed
  <2>1. LedgerOf' = LedgerOf
    BY <1>2 DEF LedgerOf
  <2> QED
    BY <2>1 DEF Delivery!vars
<1> QED
  BY <1>1, <1>2

\* MarkProcessed settles the record as done, every subscriber having been offered it.
LEMMA LedgerMark ==
  ASSUME Progress, ColumnInv, NEW w \in Worker, NEW r \in todo[w], Mark(w, r)
  PROVE  Delivery!Next \/ UNCHANGED Delivery!vars
<1>1. /\ r \in Record /\ offered[r] = Sub
      /\ processed' = processed \/ processed' = processed \cup Row(r)
      /\ UNCHANGED <<stored, failed, dead, lossy, offered>>
  BY DEF Mark, Progress, OfferInv, TypeOK, history
<1>2. CASE processed' = processed \cup {r} /\ r \in stored \ processed
  <2>1. LedgerOf[r] \in {"open", "dead"} /\ LedgerOf' = [LedgerOf EXCEPT ![r] = "done"]
    BY <1>1, <1>2 DEF LedgerOf
  <2>2. Delivery!Done(r)
    BY <1>1, <2>1 DEF Delivery!Done
  <2> QED
    BY <1>1, <2>2 DEF Delivery!Next
<1>3. CASE processed' = processed
  BY <1>1, <1>3, LedgerQuiet
<1> QED
  BY <1>1, <1>2, <1>3 DEF Row

\* A publish without a transaction commits its record, or delivers it unlogged.
LEMMA LedgerPublishDirect ==
  ASSUME Progress, ColumnInv, NEW w \in Writer, NEW r \in Record, PublishDirect(w, r)
  PROVE  Delivery!Next
<1>1. r \notin stored \cup lossy
  BY DEF PublishDirect, Progress, TicketInv, Created
<1>2. UNCHANGED <<processed, failed, dead, offered>>
  BY DEF PublishDirect
<1>3. CASE stored' = stored \cup {r} /\ lossy' = lossy
  <2> DEFINE S == {r}
  <2>1. S \in SUBSET Record /\ S \cap (stored \cup lossy) = {} /\ stored' = stored \cup S
    BY <1>1, <1>3
  <2> HIDE DEF S
  <2> QED BY <1>2, <1>3, <2>1, LedgerCommit
<1>4. CASE stored' = stored /\ lossy' = lossy \cup {r}
  <2>1. LedgerOf[r] = "none" /\ LedgerOf' = [LedgerOf EXCEPT ![r] = "unlogged"]
    <3>1. LedgerOf[r] = "none" /\ LedgerOf'[r] = "unlogged"
      BY <1>1, <1>2, <1>4 DEF LedgerOf, ColumnInv
    <3>2. \A q \in Record \ {r} : LedgerOf'[q] = LedgerOf[q]
      BY <1>2, <1>4 DEF LedgerOf
    <3>3. LedgerOf' = [q \in Record |-> IF q = r THEN "unlogged" ELSE LedgerOf[q]]
      BY <3>1, <3>2 DEF LedgerOf
    <3> QED BY <3>1, <3>3 DEF LedgerOf
  <2>2. Delivery!PublishUnlogged(r)
    BY <1>2, <2>1 DEF Delivery!PublishUnlogged
  <2> QED
    BY <2>2 DEF Delivery!Next
<1> QED
  BY <1>3, <1>4 DEF PublishDirect

\* A subscriber's call is an offer, or repeats one.
LEMMA LedgerOffer ==
  ASSUME Progress, NEW w \in Worker, NEW r \in todo[w], CallSubscriber(w, r)
  PROVE  Delivery!Next
<1>1. r \in stored \cup lossy /\ r \in Record /\ turn[w] \in Sub
  BY DEF CallSubscriber, Progress, HeldInv, TypeOK
<1>2. LedgerOf[r] # "none" /\ LedgerOf' = LedgerOf
  BY <1>1 DEF LedgerOf, CallSubscriber, table
<1>3. Delivery!Offer(r, turn[w])
  BY <1>2 DEF CallSubscriber, Delivery!Offer
<1> QED
  BY <1>1, <1>3 DEF Delivery!Next

\* Every step of the outbox is one of the contract or a stutter.
LEMMA NextLedger ==
  Progress /\ ColumnInv /\ [Next]_vars => Delivery!Next \/ UNCHANGED Delivery!vars
<1> SUFFICES ASSUME Progress, ColumnInv, [Next]_vars
             PROVE  Delivery!Next \/ UNCHANGED Delivery!vars
  OBVIOUS
<1> DEFINE Simulated == Delivery!Next \/ UNCHANGED Delivery!vars
<1> USE DEF table, history
<1>1. ASSUME NEW w \in Writer, Begin(w) \/ Rollback(w) PROVE Simulated
  BY <1>1, LedgerQuiet DEF Begin, Rollback
<1>2. ASSUME NEW w \in Writer, NEW r \in Record, AppendRecord(w, r) PROVE Simulated
  BY <1>2, LedgerQuiet DEF AppendRecord
<1>3. ASSUME NEW w \in Writer, Commit(w) PROVE Simulated
  <2>1. todo[w] \in SUBSET Record /\ todo[w] \cap (stored \cup lossy) = {}
    BY <1>3 DEF Commit, ColumnInv, Progress, TypeOK, Worker
  <2> QED
    BY <1>3, <2>1, LedgerCommit DEF Commit
<1>4. ASSUME NEW w \in Writer, NEW r \in todo[w], DispatchNext(w, r) PROVE Simulated
  <2>1. /\ r \in Record
        /\ failed' = failed \/ failed' = failed \cup Row(r)
        /\ UNCHANGED <<stored, processed, dead, lossy, offered>>
    BY <1>4 DEF DispatchNext, Progress, TypeOK, Worker
  <2> QED
    BY <2>1, LedgerQuiet, LedgerGiveUp
<1>5. ASSUME NEW n \in Node, NEW batch \in SUBSET Due, Fetch(n, batch) PROVE Simulated
  BY <1>5, LedgerQuiet DEF Fetch
<1>6. ASSUME NEW n \in Node, NEW r \in todo[n], Charge(n, r) PROVE Simulated
  BY <1>6, LedgerQuiet DEF Charge
<1>7. ASSUME NEW n \in Node, NEW r \in todo[n], Bury(n, r) PROVE Simulated
  <2>1. /\ r \in Record
        /\ dead' = dead \/ dead' = dead \cup Row(r)
        /\ UNCHANGED <<stored, processed, failed, lossy, offered>>
    BY <1>7 DEF Bury, Progress, TypeOK, Worker
  <2> QED
    BY <2>1, LedgerQuiet, LedgerGiveUp
<1>8. ASSUME NEW r \in Record, Age(r) PROVE Simulated
  BY <1>8, LedgerQuiet DEF Age
<1>9. ASSUME NEW n \in Node, Crash(n) \/ Restart(n) PROVE Simulated
  BY <1>9, LedgerQuiet DEF Crash, Restart
<1>10. CASE UNCHANGED vars
  BY <1>10, LedgerQuiet DEF vars
<1> QED
  BY <1>1, <1>2, <1>3, <1>4, <1>5, <1>6, <1>7, <1>8, <1>9, <1>10,
     LedgerPublishDirect, LedgerRequeue, LedgerOffer, LedgerMark
     DEF Next, WriterStep, RelayStep, DeliveryStep

\* Every behaviour of the outbox is, through its columns, a behaviour of the
\* EventDelivery contract.
THEOREM ImplementsDelivery == Spec => DeliveryContract
<1>1. Init => ColumnInv /\ Delivery!Init
  BY InitColumnInv, InitLedger
<1>2. Progress /\ ColumnInv /\ [Next]_vars => ColumnInv' /\ [Delivery!Next]_(Delivery!vars)
  BY NextColumnInv, NextLedger
<1> QED
  BY <1>1, <1>2, ProgressInvariant, PTL DEF Spec, DeliveryContract, Delivery!Spec
=============================================================================
