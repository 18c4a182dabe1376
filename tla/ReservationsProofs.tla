------------------------- MODULE ReservationsProofs -------------------------
(***************************************************************************)
(* Reservations keeps its types, never sells a night twice, and keeps each *)
(* row in step with its events; every path to confirmed passes the payout  *)
(* gate, completion follows the stay, and the coupon counts no use nobody  *)
(* had.  All of it for any number of bookings, blocks, goroutines and      *)
(* nights, whatever calls interleave and die.  One call at a time, the     *)
(* service implements the lifecycle of the aggregate.                      *)
(***************************************************************************)
EXTENDS Reservations, FiniteSetTheorems, SequenceTheorems, TLAPS

\* A fresh call is well formed.
LEMMA FreshCall ==
  ASSUME NEW op \in Calls
  PROVE  /\ Call(op) \in CallRecord
         /\ Call(op).op = op
  BY DEF Call, CallRecord

\* A call of a known kind that has a valid booking and stay is well formed.
LEMMA StartType ==
  ASSUME TypeOK, NEW p \in Request, NEW r \in CallRecord, Named(r), Start(p, r)
  PROVE  TypeOK'
<1> DEFINE standing == IF r.op = "create" THEN {k \in Block : block[k] # {}} ELSE {}
           s == [r EXCEPT !.standing = standing]
<1>1. standing \in SUBSET Block
  OBVIOUS
<1> HIDE DEF standing
<1>2. s \in CallRecord /\ s.op = r.op /\ s.b = r.b
  BY <1>1 DEF CallRecord
<1>3. req' = [req EXCEPT ![p] = s]
  BY DEF Start, standing
<1> HIDE DEF s
<1>4. req' \in [Request -> CallRecord]
  BY <1>2, <1>3 DEF TypeOK
<1>5. ASSUME NEW q \in Request
      PROVE  Named(req[q])'
  BY <1>2, <1>3, <1>5 DEF TypeOK, Named, Start, rows
<1> QED BY <1>4, <1>5 DEF TypeOK, Start, rows, listing, settlement

\* The stays a call may name.
LEMMA CallFields ==
  ASSUME NEW op \in Calls, NEW b \in Booking, NEW stay \in Stay,
         NEW x \in BOOLEAN, NEW y \in BOOLEAN, NEW z \in BOOLEAN
  PROVE  /\ [Call(op) EXCEPT !.b = b, !.stay = stay, !.split = x, !.coupon = y,
                             !.instant = z] \in CallRecord
         /\ [Call(op) EXCEPT !.b = b, !.stay = stay] \in CallRecord
         /\ [Call(op) EXCEPT !.stay = stay] \in CallRecord
  BY DEF Call, CallRecord

\* The same for a call that names a booking only.
LEMMA CallBooking ==
  ASSUME NEW op \in Calls, NEW b \in Booking
  PROVE  [Call(op) EXCEPT !.b = b] \in CallRecord
  BY DEF Call, CallRecord

\* Whatever the goroutine does after its call is well formed and names the row
\* the call named.
LEMMA OverType ==
  ASSUME NEW r \in CallRecord
  PROVE  /\ Over(r) \in CallRecord
         /\ Over(r).op \in {"idle", "mark"}
         /\ Over(r).op = "mark" => r.op = "settle" /\ Over(r).b = r.b
  BY DEF Over, Idle, Call, CallRecord, Calls

\* The initial rows, calls and counters have their types.
THEOREM InitType == Init => TypeOK
<1> SUFFICES ASSUME Init PROVE TypeOK
  OBVIOUS
<1>1. Idle \in CallRecord /\ Idle.op = "idle"
  BY FreshCall DEF Idle, Calls
<1>2. \A p \in Request : Named(req[p])
  BY <1>1 DEF Init, Named, Transition
<1>3. log \in [Booking -> Seq(EventName)]
  <2>1. <<>> \in Seq(EventName)  OBVIOUS
  <2> QED BY <2>1 DEF Init
<1> QED BY <1>1, <1>2, <1>3, ReservationsAssumption DEF Init, TypeOK, Status

\* A call that arrives keeps the types.
LEMMA ArriveType ==
  ASSUME TypeOK, NEW p \in Request, Arrive(p)
  PROVE  TypeOK'
<1>1. CASE StartCreate(p)
  <2>1. PICK b \in Booking, stay \in Stay, withSplit \in BOOLEAN, withCoupon \in BOOLEAN :
          Start(p, [Call("create") EXCEPT !.b = b, !.stay = stay, !.split = withSplit,
                                          !.coupon = withCoupon, !.instant = instant])
    BY <1>1 DEF StartCreate
  <2> DEFINE r == [Call("create") EXCEPT !.b = b, !.stay = stay, !.split = withSplit,
                                         !.coupon = withCoupon, !.instant = instant]
  <2>2. r \in CallRecord
    <3>1. "create" \in Calls /\ instant \in BOOLEAN  BY DEF TypeOK, Calls
    <3> QED BY <3>1, Zenon DEF Call, CallRecord
  <2>3. Named(r)
    BY DEF Named, Call, Transition
  <2> HIDE DEF r
  <2> QED BY <2>1, <2>2, <2>3, StartType DEF r
<1>2. CASE StartModify(p)
  <2>1. PICK b \in Booking, stay \in Stay :
          Quiet(b) /\ Start(p, [Call("modify") EXCEPT !.b = b, !.stay = stay])
    BY <1>2 DEF StartModify
  <2> DEFINE r == [Call("modify") EXCEPT !.b = b, !.stay = stay]
  <2>2. r \in CallRecord
    BY CallFields DEF Calls, Transition
  <2>3. Named(r)
    BY <2>1 DEF Named, Call, Quiet
  <2> HIDE DEF r
  <2> QED BY <2>1, <2>2, <2>3, StartType DEF r
<1>3. CASE StartTransition(p) \/ StartAuto(p) \/ StartSettle(p)
  <2>1. PICK b \in Booking, op \in Transition :
          status[b] # "none" /\ Start(p, [Call(op) EXCEPT !.b = b])
    <3>1. CASE StartTransition(p)
      BY <3>1 DEF StartTransition, Quiet, Transition
    <3>2. CASE StartAuto(p)
      <4>1. PICK b \in Booking \ split : Quiet(b) /\ Start(p, [Call("auto") EXCEPT !.b = b])
        BY <3>2 DEF StartAuto
      <4>2. "auto" \in Transition  BY DEF Transition
      <4> QED BY <4>1, <4>2 DEF Quiet
    <3>3. CASE StartSettle(p)
      <4>1. PICK b \in due : Start(p, [Call("settle") EXCEPT !.b = b])
        BY <3>3 DEF StartSettle
      <4>2. "settle" \in Transition  BY DEF Transition
      <4>3. b \in Booking /\ status[b] # "none"  BY DEF TypeOK
      <4> QED BY <4>1, <4>2, <4>3
    <3> QED BY <1>3, <3>1, <3>2, <3>3
  <2> DEFINE r == [Call(op) EXCEPT !.b = b]
  <2>2. r \in CallRecord
    BY CallBooking DEF Calls
  <2>3. Named(r)
    BY <2>1 DEF Named, Call
  <2> HIDE DEF r
  <2> QED BY <2>1, <2>2, <2>3, StartType DEF r
<1>4. CASE StartBlock(p)
  <2>1. PICK op \in {"block", "import"}, stay \in Stay :
          Start(p, [Call(op) EXCEPT !.stay = stay])
    BY <1>4 DEF StartBlock
  <2> DEFINE r == [Call(op) EXCEPT !.stay = stay]
  <2>2. r \in CallRecord
    <3>1. op \in Calls  BY DEF Calls
    <3> QED BY <3>1 DEF Call, CallRecord
  <2>3. Named(r)
    BY DEF Named, Call, Transition
  <2> HIDE DEF r
  <2> QED BY <2>1, <2>2, <2>3, StartType DEF r
<1>5. CASE StartDeactivate(p)
  <2>1. Call("deactivate") \in CallRecord /\ Named(Call("deactivate"))
    BY FreshCall DEF Named, Calls, Transition
  <2> QED BY <1>5, <2>1, StartType DEF StartDeactivate
<1> QED BY <1>1, <1>2, <1>3, <1>4, <1>5 DEF Arrive

\* When a goroutine's call is replaced by s, naming only a row the old one
\* named, and no row disappears, the calls stay well formed.
LEMMA ReplaceCall ==
  ASSUME TypeOK, NEW p \in Request, NEW s \in CallRecord,
         req' = [req EXCEPT ![p] = s],
         s.op \in Transition \cup {"create", "mark"} =>
           /\ req[p].op \in Transition \cup {"create", "mark"}
           /\ s.b = req[p].b
           /\ s.op # "create" => req[p].op # "create",
         \A b \in Booking : status[b] # "none" => status'[b] # "none"
  PROVE  /\ req' \in [Request -> CallRecord]
         /\ \A q \in Request : Named(req[q])'
  BY DEF TypeOK, Named

\* Idle and what follows a call may replace any call that runs.
LEMMA Replacement ==
  ASSUME TypeOK, NEW p \in Request
  PROVE  /\ req[p] \in CallRecord
         /\ Idle \in CallRecord /\ Idle.op = "idle"
         /\ Over(req[p]) \in CallRecord
         /\ Over(req[p]).op \in Transition \cup {"create", "mark"} =>
              req[p].op = "settle" /\ Over(req[p]).b = req[p].b
  <1>1. req[p] \in CallRecord  BY DEF TypeOK
  <1>2. Idle \in CallRecord /\ Idle.op = "idle"  BY FreshCall DEF Idle, Calls
  <1> QED BY <1>1, <1>2, OverType DEF Transition

\* What create and the status updates append is an event sequence.
LEMMA TwoEvents ==
  /\ <<"Requested">> \in Seq(EventName)
  /\ <<"Requested", "Confirmed">> \in Seq(EventName)
<1>1. "Requested" \in EventName /\ "Confirmed" \in EventName
  BY DEF EventName
<1> HIDE DEF EventName
<1> QED BY <1>1

\* An event appended to a log leaves a log.
LEMMA AppendEvent ==
  ASSUME NEW s \in Seq(EventName), NEW e \in EventName
  PROVE  Append(s, e) \in Seq(EventName)
  OBVIOUS

\* A call that runs keeps the types.
LEMMA RunType ==
  ASSUME TypeOK, NEW p \in Request, Run(p)
  PROVE  TypeOK'
<1> USE Replacement
<1>1. CASE Check(p)
  <2>1. /\ UNCHANGED <<rows, listing, coupon, redeemed, settlement, today, crashes>>
        /\ \E s \in CallRecord :
             /\ req' = [req EXCEPT ![p] = s]
             /\ s.op \in Transition \cup {"create", "mark"} =>
                  /\ req[p].op \in Transition \cup {"create", "mark"}
                  /\ s.b = req[p].b
                  /\ s.op # "create" => req[p].op # "create"
    <3> DEFINE r == req[p]
    <3>1. r \in CallRecord /\ coupon.uses \in Nat
      BY DEF TypeOK
    <3>2. CASE req' = [req EXCEPT ![p] = Over(r)]
      <4>1. Over(r) \in CallRecord
        OBVIOUS
      <4>2. Over(r).op \in Transition \cup {"create", "mark"} =>
              /\ r.op \in Transition \cup {"create", "mark"}
              /\ Over(r).b = r.b
              /\ Over(r).op # "create" => r.op # "create"
        BY DEF Transition
      <4> QED BY <1>1, <3>2, <4>1, <4>2 DEF Check
    <3>3. ASSUME NEW x \in Nat, req' = [req EXCEPT ![p].done = @ + 1, ![p].seen = x]
          PROVE  \E s \in CallRecord :
                   /\ req' = [req EXCEPT ![p] = s]
                   /\ s.op \in Transition \cup {"create", "mark"} =>
                        /\ r.op \in Transition \cup {"create", "mark"}
                        /\ s.b = r.b
                        /\ s.op # "create" => r.op # "create"
      <4> DEFINE s == [r EXCEPT !.done = @ + 1, !.seen = x]
      <4>1. s \in CallRecord /\ s.op = r.op /\ s.b = r.b
        <5>1. r.done + 1 \in Nat  BY <3>1 DEF CallRecord
        <5>2. s = [r EXCEPT !.done = r.done + 1, !.seen = x]  BY <3>1 DEF CallRecord
        <5> HIDE DEF s
        <5> QED BY <3>1, <5>1, <5>2 DEF CallRecord
      <4>2. req' = [req EXCEPT ![p] = s]
        BY <3>1, <3>3 DEF TypeOK, CallRecord
      <4> HIDE DEF s
      <4> QED BY <4>1, <4>2
    <3>4. \/ req' = [req EXCEPT ![p] = Over(r)]
          \/ \E x \in Nat : req' = [req EXCEPT ![p].done = @ + 1, ![p].seen = x]
      <4>1. r.seen \in Nat  BY <3>1 DEF CallRecord
      <4> DEFINE look == Reads(r)[r.done + 1]
                 x == IF look \in {"coupon", "row"} THEN coupon.uses ELSE r.seen
      <4>2. x \in Nat  BY <3>1, <4>1
      <4>3. \/ req' = [req EXCEPT ![p] = Over(r)]
            \/ req' = [req EXCEPT ![p].done = @ + 1,
                                  ![p].seen = IF look \in {"coupon", "row"}
                                                THEN coupon.uses ELSE @]
        BY <1>1 DEF Check
      <4> HIDE DEF look
      <4>4. [req EXCEPT ![p].done = @ + 1, ![p].seen = IF look \in {"coupon", "row"}
                                                THEN coupon.uses ELSE @]
            = [req EXCEPT ![p].done = @ + 1, ![p].seen = x]
        BY <3>1 DEF TypeOK, CallRecord
      <4> HIDE DEF x
      <4> QED BY <4>2, <4>3, <4>4
    <3> QED BY <1>1, <3>2, <3>3, <3>4 DEF Check
  <2> QED BY <2>1, ReplaceCall DEF TypeOK, rows, listing, settlement
<1>2. CASE InsertBooking(p)
  <2> DEFINE r == req[p]
  <2>1. /\ r.stay \in Stay \cup {{}} /\ r.seen + 1 \in Nat
        /\ r.b \in Booking => status'[r.b] # "none" \/ status' = status
    BY <1>2 DEF InsertBooking, CallRecord, TypeOK, rows
  <2>2. \A b \in Booking : status[b] # "none" => status'[b] # "none"
    BY <1>2 DEF InsertBooking, TypeOK, rows
  <2>3. /\ req' \in [Request -> CallRecord]
        /\ \A q \in Request : Named(req[q])'
    BY <1>2, <2>2, ReplaceCall DEF InsertBooking, Transition
  <2>4. /\ status' \in [Booking -> Status]
        /\ nights' \in [Booking -> Stay \cup {{}}]
        /\ promised' \in [Booking -> Stay \cup {{}}]
    <3> DEFINE s == IF r.instant /\ ~r.split THEN "confirmed" ELSE "pending"
    <3>1. s \in Status  BY DEF Status, Active
    <3>2. /\ status' = status \/ status' = [status EXCEPT ![r.b] = s]
          /\ nights' = nights \/ nights' = [nights EXCEPT ![r.b] = r.stay]
          /\ promised' = promised \/ promised' = [promised EXCEPT ![r.b] = r.stay]
      BY <1>2 DEF InsertBooking, rows
    <3>3. /\ status \in [Booking -> Status]
          /\ nights \in [Booking -> Stay \cup {{}}]
          /\ promised \in [Booking -> Stay \cup {{}}]
      BY DEF TypeOK
    <3>4. r.stay \in Stay \cup {{}}
      BY <2>1
    <3> HIDE DEF s, r
    <3>5. status' \in [Booking -> Status]
      BY <3>1, <3>2, <3>3
    <3>6. nights' \in [Booking -> Stay \cup {{}}]
      BY <3>4, <3>2, <3>3
    <3>7. promised' \in [Booking -> Stay \cup {{}}]
      BY <3>4, <3>2, <3>3
    <3> QED BY <3>5, <3>6, <3>7
  <2>5. log' \in [Booking -> Seq(EventName)]
    <3>1. log \in [Booking -> Seq(EventName)]
      BY DEF TypeOK
    <3>2. \/ log' = log
          \/ \E e \in Seq(EventName) : log' = [log EXCEPT ![req[p].b] = e]
      BY <1>2, TwoEvents DEF InsertBooking, rows
    <3> QED BY <3>1, <3>2
  <2>6. coupon' \in [uses : Nat, active : BOOLEAN]
    <3>1. coupon' = coupon \/ coupon' = [uses |-> r.seen + 1, active |-> TRUE]
      BY <1>2 DEF InsertBooking
    <3>2. coupon \in [uses : Nat, active : BOOLEAN] /\ r.seen + 1 \in Nat
      BY <2>1 DEF TypeOK
    <3> HIDE DEF r
    <3>3. ASSUME NEW n \in Nat
          PROVE  [uses |-> n, active |-> TRUE] \in [uses : Nat, active : BOOLEAN]
      OBVIOUS
    <3> QED BY ONLY <3>1, <3>2, <3>3
  <2>a. r.b \in Booking
    BY <1>2 DEF InsertBooking, Ready, TypeOK, Named
  <2>7. /\ split' \in SUBSET Booking /\ redeemed' \in SUBSET Booking
        /\ split \subseteq split'
        /\ \A b \in split' : status'[b] # "none"
    BY <1>2, <2>1, <2>2, <2>a DEF InsertBooking, TypeOK, rows
  <2> QED BY <1>2, <2>3, <2>4, <2>5, <2>6, <2>7 DEF InsertBooking, TypeOK, listing, settlement
<1>3. CASE UpdateBooking(p)
  <2> DEFINE r == req[p]
  <2>1. /\ r.stay \in Stay \cup {{}}
        /\ Target(r.op) \in Status \ {"none"} /\ Event(r.op) \in EventName
    BY DEF CallRecord, TypeOK, Target, Event, EventName, Status, Active, Terminal
  <2>2. \A b \in Booking : status[b] # "none" => status'[b] # "none"
    BY <1>3, <2>1 DEF UpdateBooking, TypeOK
  <2>3. /\ req' \in [Request -> CallRecord]
        /\ \A q \in Request : Named(req[q])'
    BY <1>3, <2>2, ReplaceCall DEF UpdateBooking, Transition
  <2>4. /\ status' \in [Booking -> Status]
        /\ promised' \in [Booking -> Stay \cup {{}}]
    <3>1. /\ status' = status \/ status' = [status EXCEPT ![r.b] = Target(r.op)]
          /\ promised' = promised \/ promised' = [promised EXCEPT ![r.b] = r.stay]
      BY <1>3 DEF UpdateBooking
    <3>2. /\ status \in [Booking -> Status] /\ Target(r.op) \in Status
          /\ promised \in [Booking -> Stay \cup {{}}] /\ r.stay \in Stay \cup {{}}
      BY <2>1 DEF TypeOK
    <3> HIDE DEF r
    <3> QED BY <3>1, <3>2
  <2>5. log' \in [Booking -> Seq(EventName)]
    <3>1. log' = log \/ log' = [log EXCEPT ![r.b] = Append(@, Event(r.op))]
      BY <1>3 DEF UpdateBooking
    <3>2. ASSUME r.b \in Booking PROVE Append(log[r.b], Event(r.op)) \in Seq(EventName)
      BY <2>1, <3>2, AppendEvent DEF TypeOK
    <3> QED BY <3>1, <3>2 DEF TypeOK
  <2> QED BY <1>3, <2>2, <2>3, <2>4, <2>5 DEF UpdateBooking, TypeOK, listing, settlement
<1>4. CASE InsertBlock(p)
  <2>1. req[p].stay \in Stay \cup {{}}
    BY DEF CallRecord
  <2>2. block' \in [Block -> Stay \cup {{}}]
    BY <1>4, <2>1 DEF InsertBlock, TypeOK
  <2>3. /\ req' \in [Request -> CallRecord]
        /\ \A q \in Request : Named(req[q])'
    BY <1>4, ReplaceCall DEF InsertBlock, Transition, rows
  <2> QED BY <1>4, <2>2, <2>3 DEF InsertBlock, TypeOK, rows, settlement
<1>5. CASE UpdateCoupon(p)
  <2>1. coupon' \in [uses : Nat, active : BOOLEAN]
    BY <1>5 DEF UpdateCoupon, CallRecord
  <2>2. /\ req' \in [Request -> CallRecord]
        /\ \A q \in Request : Named(req[q])'
    BY <1>5, ReplaceCall DEF UpdateCoupon, Transition, rows
  <2> QED BY <1>5, <2>1, <2>2 DEF UpdateCoupon, TypeOK, rows, listing, settlement
<1>6. CASE Mark(p)
  <2>1. /\ req' \in [Request -> CallRecord]
        /\ \A q \in Request : Named(req[q])'
    BY <1>6, ReplaceCall DEF Mark, Transition, rows
  <2> QED BY <1>6, <2>1 DEF Mark, TypeOK, rows, listing
<1> QED BY <1>1, <1>2, <1>3, <1>4, <1>5, <1>6 DEF Run

\* A replica that dies keeps the types.
LEMMA CrashType ==
  ASSUME TypeOK, NEW p \in Request, Crash(p)
  PROVE  TypeOK'
<1>1. /\ req' \in [Request -> CallRecord]
      /\ \A q \in Request : Named(req[q])'
  BY Replacement, ReplaceCall DEF Crash, rows, Transition
<1>2. crashes' \in 0 .. MaxCrashes
  BY ReservationsAssumption DEF Crash, TypeOK
<1> QED BY <1>1, <1>2 DEF Crash, TypeOK, rows, listing, settlement

\* So does what happens around the calls.
LEMMA AroundType ==
  ASSUME TypeOK, Around
  PROVE  TypeOK'
<1>1. ASSUME NEW k \in Block, Unblock(k) PROVE TypeOK'
  <2>1. \A p \in Request : /\ req'[p] \in CallRecord
                           /\ req'[p].op = req[p].op /\ req'[p].b = req[p].b
    <3>1. ASSUME NEW r \in CallRecord
          PROVE  LET s == [r EXCEPT !.standing = @ \ {k}] IN
                 s \in CallRecord /\ s.op = r.op /\ s.b = r.b
      BY DEF CallRecord
    <3>2. \A p \in Request : req[p] \in CallRecord
      BY DEF TypeOK
    <3>3. req' = [p \in Request |-> [req[p] EXCEPT !.standing = @ \ {k}]]
      BY <1>1 DEF Unblock
    <3>4. ASSUME NEW p \in Request
          PROVE  /\ req'[p] \in CallRecord
                 /\ req'[p].op = req[p].op /\ req'[p].b = req[p].b
      <4>1. req'[p] = [req[p] EXCEPT !.standing = @ \ {k}]
        BY <3>3
      <4> QED BY <3>1, <3>2, <4>1
    <3> QED BY <3>4
  <2>2. req' \in [Request -> CallRecord]
    BY <1>1, <2>1 DEF Unblock
  <2>3. \A p \in Request : Named(req[p])'
    BY <1>1, <2>1 DEF Unblock, Named, rows, TypeOK
  <2>4. block' \in [Block -> Stay \cup {{}}]
    BY <1>1 DEF Unblock, TypeOK
  <2> QED BY <1>1, <2>2, <2>3, <2>4 DEF Unblock, TypeOK, rows, settlement
<1>2. ASSUME NEW b \in Booking, CompleteSplit(b) PROVE TypeOK'
  BY <1>2 DEF CompleteSplit, TypeOK, Named, rows, listing
<1>3. CASE SyncAccount
  BY <1>3 DEF SyncAccount, TypeOK, Named, rows, settlement
<1>4. CASE EditInstantBook
  BY <1>4 DEF EditInstantBook, TypeOK, Named, rows, settlement
<1>5. CASE Midnight
  <2>1. today' \in 1 .. Nights + 1
    BY <1>5, ReservationsAssumption DEF Midnight, TypeOK
  <2> QED BY <1>5, <2>1 DEF Midnight, TypeOK, Named, rows, listing, settlement
<1> QED BY <1>1, <1>2, <1>3, <1>4, <1>5 DEF Around

\* Every step keeps the types.
LEMMA TypeStep == TypeOK /\ [Next]_vars => TypeOK'
<1> SUFFICES ASSUME TypeOK, [Next]_vars PROVE TypeOK'
  OBVIOUS
<1>1. CASE UNCHANGED vars
  BY <1>1 DEF vars, rows, listing, settlement, TypeOK, Named
<1>2. CASE Next
  BY <1>2, ArriveType, RunType, CrashType, AroundType DEF Next
<1> QED BY <1>1, <1>2

\* Every variable stays in its range, and every call that names a booking names
\* one whose row exists, unless it will insert it.
THEOREM TypeCorrect == Spec => []TypeOK
<1>1. TypeOK /\ [Next]_vars => TypeOK'  BY TypeStep
<1> QED BY InitType, <1>1, PTL DEF Spec

-----------------------------------------------------------------------------
\* Only the two booking transactions write what the calendar and the events of a
\* booking depend on.
LEMMA WhoWrites ==
  ASSUME [Next]_vars
  PROVE  \/ UNCHANGED <<status, nights, log>>
         \/ \E p \in Request : InsertBooking(p) \/ UpdateBooking(p)
<1>1. ASSUME NEW p \in Request, Arrive(p) PROVE UNCHANGED <<status, nights, log>>
  <2>1. ASSUME NEW r, Start(p, r) PROVE UNCHANGED <<status, nights, log>>
    BY <2>1 DEF Start, rows
  <2>2. \E r : Start(p, r)
    BY <1>1 DEF Arrive, StartCreate, StartModify, StartTransition, StartAuto, StartSettle,
                StartBlock, StartDeactivate
  <2> QED BY <2>1, <2>2
<1>2. ASSUME NEW p \in Request, Run(p)
      PROVE  \/ UNCHANGED <<status, nights, log>>
             \/ InsertBooking(p) \/ UpdateBooking(p)
  BY <1>2 DEF Run, Check, InsertBlock, UpdateCoupon, Mark, rows
<1>3. ASSUME NEW p \in Request, Crash(p) PROVE UNCHANGED <<status, nights, log>>
  BY <1>3 DEF Crash, rows
<1>4. CASE Around
  BY <1>4 DEF Around, Unblock, CompleteSplit, SyncAccount, EditInstantBook, Midnight, rows
<1> QED BY <1>1, <1>2, <1>3, <1>4 DEF Next, vars, rows

\* The exclusion constraint on every write is enough: neither transaction lets
\* two active rows share a night, however stale the status it writes.
LEMMA CalendarStep ==
  ASSUME TypeOK, NoDoubleBooking, [Next]_vars
  PROVE  NoDoubleBooking'
<1>1. CASE UNCHANGED <<status, nights, log>>
  BY <1>1 DEF NoDoubleBooking
<1>2. ASSUME NEW p \in Request, InsertBooking(p) \/ UpdateBooking(p)
      PROVE  NoDoubleBooking'
  <2>1. PICK b, s, stay :
          \/ UNCHANGED <<status, nights>>
          \/ /\ Accepts(b, stay, s)
             /\ status' = [status EXCEPT ![b] = s]
             /\ nights' = [nights EXCEPT ![b] = stay]
    <3>1. CASE InsertBooking(p)
      BY <3>1 DEF InsertBooking, rows
    <3>2. CASE UpdateBooking(p)
      <4>1. nights' = [nights EXCEPT ![req[p].b] = nights[req[p].b]]
        BY <3>2 DEF UpdateBooking, TypeOK
      <4> DEFINE b == req[p].b
                 s == Target(req[p].op)
                 stay == nights[req[p].b]
      <4>2. \/ UNCHANGED <<status, nights>>
            \/ /\ Accepts(b, stay, s)
               /\ status' = [status EXCEPT ![b] = s]
               /\ nights' = [nights EXCEPT ![b] = stay]
        BY <3>2, <4>1 DEF UpdateBooking
      <4> HIDE DEF b, s, stay
      <4> QED BY <4>2
    <3> QED BY <1>2, <3>1, <3>2
  <2>2. CASE UNCHANGED <<status, nights>>
    BY <2>2 DEF NoDoubleBooking
  <2>3. CASE /\ Accepts(b, stay, s)
             /\ status' = [status EXCEPT ![b] = s]
             /\ nights' = [nights EXCEPT ![b] = stay]
    <3> SUFFICES ASSUME NEW x \in Booking, NEW y \in Booking, x # y,
                        status'[x] \in Active, status'[y] \in Active
                 PROVE  Disjoint(nights'[x], nights'[y])
      BY DEF NoDoubleBooking
    <3> USE DEF TypeOK
    <3>1. CASE x # b /\ y # b
      BY <2>3, <3>1 DEF NoDoubleBooking
    <3>2. CASE x = b
      BY <2>3, <3>2 DEF Accepts, Free, Disjoint
    <3>3. CASE y = b
      BY <2>3, <3>3 DEF Accepts, Free, Disjoint
    <3> QED BY <3>1, <3>2, <3>3
  <2> QED BY <2>1, <2>2, <2>3
<1> QED BY <1>1, <1>2, WhoWrites

\* No two bookings that hold the calendar share a night, for any number of
\* bookings and goroutines (migration 0018).
THEOREM NeverDoubleBooked == Spec => []NoDoubleBooking
<1>1. Init => NoDoubleBooking
  BY DEF Init, NoDoubleBooking, Active
<1>2. TypeOK /\ NoDoubleBooking /\ [Next]_vars => NoDoubleBooking'
  BY CalendarStep
<1> QED BY <1>1, <1>2, TypeCorrect, PTL DEF Spec

-----------------------------------------------------------------------------
\* What a status update appends tells the status it writes.
LEMMA EventMatchesTarget ==
  ASSUME NEW s \in Seq(EventName), NEW op \in Transition
  PROVE  Told(Append(s, Event(op))) = Target(op)
<1>1. Event(op) \in EventName  BY DEF Event, EventName
<1>2. Append(s, Event(op)) # <<>> /\ Last(Append(s, Event(op))) = Event(op)
  BY <1>1 DEF Last
<1> QED BY <1>2 DEF Told, Event, Target, Transition

\* Every step keeps rows and events together.
LEMMA EventsStep ==
  ASSUME TypeOK, LastEventTellsStatus, [Next]_vars
  PROVE  LastEventTellsStatus'
<1>1. CASE UNCHANGED <<status, nights, log>>
  BY <1>1 DEF LastEventTellsStatus, Told, Last
<1>2. ASSUME NEW p \in Request, InsertBooking(p) PROVE LastEventTellsStatus'
  <2>1. Told(<<"Requested">>) = "pending" /\ Told(<<"Requested", "Confirmed">>) = "confirmed"
    BY DEF Told, Last
  <2>2. PICK b, s, events :
          /\ Told(events) = s
          /\ \/ UNCHANGED <<status, log>>
             \/ status' = [status EXCEPT ![b] = s] /\ log' = [log EXCEPT ![b] = events]
    <3> DEFINE auto == req[p].instant /\ ~req[p].split
               s == IF auto THEN "confirmed" ELSE "pending"
               e == IF auto THEN <<"Requested", "Confirmed">> ELSE <<"Requested">>
    <3>1. Told(e) = s
      BY <2>1
    <3>2. \/ UNCHANGED <<status, log>>
          \/ /\ status' = [status EXCEPT ![req[p].b] = s]
             /\ log' = [log EXCEPT ![req[p].b] = e]
      BY <1>2 DEF InsertBooking, rows
    <3> HIDE DEF s, e
    <3> QED BY <3>1, <3>2
  <2> QED BY <2>2 DEF LastEventTellsStatus, TypeOK
<1>3. ASSUME NEW p \in Request, UpdateBooking(p) PROVE LastEventTellsStatus'
  <2>1. req[p].op \in Transition /\ req[p].b \in Booking
    BY <1>3 DEF UpdateBooking, Ready, TypeOK, Named
  <2>2. Told(Append(log[req[p].b], Event(req[p].op))) = Target(req[p].op)
    BY <2>1, EventMatchesTarget DEF TypeOK
  <2> QED BY <1>3, <2>1, <2>2 DEF UpdateBooking, LastEventTellsStatus, TypeOK
<1> QED BY <1>1, <1>2, <1>3, WhoWrites

\* A row's status is always the one its last committed event announces.
THEOREM RowsFollowEvents == Spec => []LastEventTellsStatus
<1>1. Init => LastEventTellsStatus
  BY DEF Init, LastEventTellsStatus, Told
<1>2. TypeOK /\ LastEventTellsStatus /\ [Next]_vars => LastEventTellsStatus'
  BY EventsStep
<1> QED BY <1>1, <1>2, TypeCorrect, PTL DEF Spec

-----------------------------------------------------------------------------
(* What the calls in flight know: which facts a call has read are still true *)
(* when it writes, although nothing locks the rows in between.               *)

unread == <<rows, listing, coupon, redeemed, settlement, today, crashes>>

\* A call that arrives starts with nothing read, about a row that exists, or,
\* when it creates one, about an id that nobody else uses.
LEMMA ArriveShape ==
  ASSUME TypeOK, NEW p \in Request, Arrive(p)
  PROVE  /\ UNCHANGED unread
         /\ req[p] = Idle
         /\ \A q \in Request \ {p} : req'[q] = req[q]
         /\ req'[p].done = 0 /\ req'[p].seen = 0
         /\ req'[p].standing \subseteq {k \in Block : block[k] # {}}
         /\ req'[p].op = "create" => Fresh(req'[p].b) /\ req'[p].stay \in Stay
<1>1. ASSUME NEW r \in CallRecord, Start(p, r), r.done = 0, r.seen = 0,
             r.op = "create" => Fresh(r.b) /\ r.stay \in Stay
      PROVE  /\ UNCHANGED unread
             /\ req[p] = Idle
             /\ \A q \in Request \ {p} : req'[q] = req[q]
             /\ req'[p].done = 0 /\ req'[p].seen = 0
             /\ req'[p].standing \subseteq {k \in Block : block[k] # {}}
             /\ req'[p].op = "create" => Fresh(req'[p].b) /\ req'[p].stay \in Stay
  <2> DEFINE standing == IF r.op = "create" THEN {k \in Block : block[k] # {}} ELSE {}
             s == [r EXCEPT !.standing = standing]
  <2>1. standing \subseteq {k \in Block : block[k] # {}}
    OBVIOUS
  <2>2. req' = [req EXCEPT ![p] = s] /\ req[p] = Idle
    BY <1>1 DEF Start
  <2> HIDE DEF standing
  <2>3. /\ s.done = 0 /\ s.seen = 0 /\ s.standing = standing /\ s.op = r.op /\ s.b = r.b
        /\ s.stay = r.stay
    BY <1>1 DEF CallRecord
  <2> HIDE DEF s
  <2>4. req'[p] = s
    BY <2>2 DEF TypeOK
  <2> QED BY <1>1, <2>1, <2>2, <2>3, <2>4 DEF Start, unread, TypeOK
<1>2. CASE StartCreate(p)
  <2>1. PICK b \in Booking, stay \in Stay, withSplit \in BOOLEAN, withCoupon \in BOOLEAN :
          /\ Fresh(b)
          /\ Start(p, [Call("create") EXCEPT !.b = b, !.stay = stay, !.split = withSplit,
                                             !.coupon = withCoupon, !.instant = instant])
    BY <1>2 DEF StartCreate
  <2> DEFINE r == [Call("create") EXCEPT !.b = b, !.stay = stay, !.split = withSplit,
                                         !.coupon = withCoupon, !.instant = instant]
  <2>2. r \in CallRecord
    <3>1. "create" \in Calls /\ instant \in BOOLEAN  BY DEF TypeOK, Calls
    <3> QED BY <3>1, Zenon DEF Call, CallRecord
  <2>3. r.done = 0 /\ r.seen = 0 /\ r.b = b /\ r.stay = stay
    BY DEF Call
  <2> HIDE DEF r
  <2>4. Start(p, r) BY <2>1 DEF r
  <2> QED BY <2>1, <2>2, <2>3, <2>4, <1>1
<1>3. CASE StartModify(p)
  <2>1. PICK b \in Booking, stay \in Stay : Start(p, [Call("modify") EXCEPT !.b = b, !.stay = stay])
    BY <1>3 DEF StartModify
  <2> DEFINE r == [Call("modify") EXCEPT !.b = b, !.stay = stay]
  <2>2. r \in CallRecord
    BY CallFields DEF Calls, Transition
  <2>3. r.done = 0 /\ r.seen = 0 /\ r.op = "modify"
    BY DEF Call
  <2> HIDE DEF r
  <2>4. Start(p, r) BY <2>1 DEF r
  <2> QED BY <2>2, <2>3, <2>4, <1>1
<1>4. CASE StartTransition(p) \/ StartAuto(p) \/ StartSettle(p)
  <2>1. PICK b \in Booking, op \in Transition : Start(p, [Call(op) EXCEPT !.b = b])
    <3>1. "auto" \in Transition /\ "settle" \in Transition
          /\ {"confirm", "cancel", "complete"} \subseteq Transition
      BY DEF Transition
    <3>2. due \subseteq Booking
      BY DEF TypeOK
    <3> QED BY <1>4, <3>1, <3>2 DEF StartTransition, StartAuto, StartSettle
  <2> DEFINE r == [Call(op) EXCEPT !.b = b]
  <2>2. r \in CallRecord
    BY CallBooking DEF Calls
  <2>3. r.done = 0 /\ r.seen = 0 /\ r.op # "create"
    BY DEF Call, Transition
  <2> HIDE DEF r
  <2>4. Start(p, r) BY <2>1 DEF r
  <2> QED BY <2>2, <2>3, <2>4, <1>1
<1>5. CASE StartBlock(p)
  <2>1. PICK op \in {"block", "import"}, stay \in Stay : Start(p, [Call(op) EXCEPT !.stay = stay])
    BY <1>5 DEF StartBlock
  <2> DEFINE r == [Call(op) EXCEPT !.stay = stay]
  <2>2. r \in CallRecord
    <3>1. op \in Calls  BY DEF Calls
    <3> QED BY <3>1 DEF Call, CallRecord
  <2>3. r.done = 0 /\ r.seen = 0 /\ r.op # "create"
    BY DEF Call
  <2> HIDE DEF r
  <2>4. Start(p, r) BY <2>1 DEF r
  <2> QED BY <2>2, <2>3, <2>4, <1>1
<1>6. CASE StartDeactivate(p)
  <2> DEFINE r == Call("deactivate")
  <2>1. r \in CallRecord /\ r.op = "deactivate"
    BY FreshCall DEF Calls
  <2>2. r.done = 0 /\ r.seen = 0
    BY DEF Call
  <2> HIDE DEF r
  <2>3. Start(p, r) BY <1>6 DEF StartDeactivate, r
  <2> QED BY <2>1, <2>2, <2>3, <1>1
<1> QED BY <1>2, <1>3, <1>4, <1>5, <1>6 DEF Arrive

\* The read a call does next, and the call once the answer has let it go on.
NextRead(r) == Reads(r)[r.done + 1]
Passed(r) == [r EXCEPT !.done = @ + 1,
                       !.seen = IF NextRead(r) \in {"coupon", "row"} THEN coupon.uses ELSE @]

\* The call once a block was lifted.
Lifted(r, k) == [r EXCEPT !.standing = @ \ {k}]

\* A call goes on only when the answer admits it; else it is over.
LEMMA CheckShape ==
  ASSUME TypeOK, NEW p \in Request, Check(p)
  PROVE  /\ UNCHANGED unread
         /\ req[p].done < Len(Reads(req[p]))
         /\ \A q \in Request \ {p} : req'[q] = req[q]
         /\ \/ Admits(NextRead(req[p]), req[p]) /\ req'[p] = Passed(req[p])
            \/ req'[p] = Over(req[p])
  BY DEF Check, unread, TypeOK, NextRead, Passed, CallRecord

\* Going on changes what was read and nothing else; lifting a block changes
\* only what stood.
LEMMA SameCall ==
  ASSUME NEW r \in CallRecord, NEW k
  PROVE  /\ LET s == Passed(r) IN
              /\ s.op = r.op /\ s.b = r.b /\ s.stay = r.stay /\ s.split = r.split
              /\ s.coupon = r.coupon /\ s.instant = r.instant /\ s.standing = r.standing
              /\ s.done = r.done + 1
              /\ s.seen = IF NextRead(r) \in {"coupon", "row"} THEN coupon.uses ELSE r.seen
         /\ LET s == Lifted(r, k) IN
              /\ s.op = r.op /\ s.b = r.b /\ s.stay = r.stay /\ s.split = r.split
              /\ s.coupon = r.coupon /\ s.instant = r.instant /\ s.done = r.done
              /\ s.seen = r.seen /\ s.standing = r.standing \ {k}
<1> DEFINE look == NextRead(r)
<1> HIDE DEF look
<1>1. Passed(r) = [r EXCEPT !.done = @ + 1,
                            !.seen = IF look \in {"coupon", "row"} THEN coupon.uses ELSE @]
  BY DEF Passed, look
<1>2. LET s == Passed(r) IN
        /\ s.op = r.op /\ s.b = r.b /\ s.stay = r.stay /\ s.split = r.split
        /\ s.coupon = r.coupon /\ s.instant = r.instant /\ s.standing = r.standing
        /\ s.done = r.done + 1
        /\ s.seen = IF look \in {"coupon", "row"} THEN coupon.uses ELSE r.seen
  BY <1>1 DEF CallRecord
<1>3. LET s == Lifted(r, k) IN
        /\ s.op = r.op /\ s.b = r.b /\ s.stay = r.stay /\ s.split = r.split
        /\ s.coupon = r.coupon /\ s.instant = r.instant /\ s.done = r.done
        /\ s.seen = r.seen /\ s.standing = r.standing \ {k}
  BY DEF CallRecord, Lifted
<1> QED BY <1>2, <1>3 DEF look

\* How one step changes the call of one goroutine.
LEMMA CallStep ==
  ASSUME TypeOK, [Next]_vars, NEW q \in Request
  PROVE  \/ req'[q] = req[q]
         \/ Arrive(q)
         \/ /\ Check(q)
            /\ req[q].done < Len(Reads(req[q]))
            /\ Admits(NextRead(req[q]), req[q])
            /\ req'[q] = Passed(req[q])
         \/ \E k \in Block : Unblock(k) /\ req'[q] = Lifted(req[q], k)
         \/ req'[q].op \in {"idle", "mark"}
<1>1. CASE UNCHANGED vars
  BY <1>1 DEF vars
<1>2. ASSUME NEW p \in Request, Arrive(p) PROVE Arrive(q) \/ req'[q] = req[q]
  BY <1>2, ArriveShape
<1>3. Idle.op = "idle" /\ \A r \in CallRecord : Over(r).op \in {"idle", "mark"}
  BY OverType DEF Idle, Call
<1>4. req[q] \in CallRecord
  BY DEF TypeOK
<1>5. ASSUME NEW p \in Request, Run(p) \/ Crash(p)
      PROVE  \/ req'[q] = req[q]
             \/ /\ Check(q)
                /\ req[q].done < Len(Reads(req[q]))
                /\ Admits(NextRead(req[q]), req[q])
                /\ req'[q] = Passed(req[q])
             \/ req'[q].op \in {"idle", "mark"}
  <2>1. CASE Check(p)
    BY <2>1, <1>3, <1>4, CheckShape
  <2>2. CASE UpdateBooking(p)
    BY <2>2, <1>3, <1>4 DEF UpdateBooking, TypeOK
  <2>3. CASE InsertBooking(p) \/ InsertBlock(p) \/ UpdateCoupon(p) \/ Mark(p) \/ Crash(p)
    <3>1. req' = [req EXCEPT ![p] = Idle]
      BY <2>3 DEF InsertBooking, InsertBlock, UpdateCoupon, Mark, Crash
    <3> QED BY <3>1, <1>3 DEF TypeOK
  <2> QED BY <1>5, <2>1, <2>2, <2>3 DEF Run
<1>6. CASE Around
  <2>1. ASSUME NEW k \in Block, Unblock(k)
        PROVE  req'[q] = Lifted(req[q], k)
    BY <2>1 DEF Unblock, Lifted
  <2> QED BY <1>6, <2>1 DEF Around, CompleteSplit, SyncAccount, EditInstantBook, Midnight
<1> QED BY <1>1, <1>2, <1>5, <1>6 DEF Next

-----------------------------------------------------------------------------
(* The id of a booking belongs to one create until its row is inserted.     *)

IdsAreFresh ==
  \A p \in Request : req[p].op = "create" =>
    /\ status[req[p].b] = "none"
    /\ \A q \in Request \ {p} : req[q].op = "create" => req[q].b # req[p].b

\* Ids stay fresh: a row appears only by the create that owns its id.
LEMMA FreshStep ==
  ASSUME TypeOK, IdsAreFresh, [Next]_vars
  PROVE  IdsAreFresh'
<1>1. ASSUME NEW p \in Request, req'[p].op = "create"
      PROVE  Arrive(p) \/ (req[p].op = "create" /\ req'[p].b = req[p].b)
  <2>1. req[p] \in CallRecord
    BY DEF TypeOK
  <2>2. /\ Passed(req[p]).op = req[p].op /\ Passed(req[p]).b = req[p].b
        /\ \A k : Lifted(req[p], k).op = req[p].op /\ Lifted(req[p], k).b = req[p].b
    BY <2>1, SameCall
  <2>3. \/ req'[p] = req[p] \/ Arrive(p) \/ req'[p] = Passed(req[p])
        \/ (\E k \in Block : req'[p] = Lifted(req[p], k)) \/ req'[p].op \in {"idle", "mark"}
    BY CallStep
  <2> QED BY <1>1, <2>2, <2>3
<1>2. SUFFICES ASSUME NEW p \in Request, req'[p].op = "create"
               PROVE  /\ status'[req'[p].b] = "none"
                      /\ \A q \in Request \ {p} : req'[q].op = "create" => req'[q].b # req'[p].b
  BY DEF IdsAreFresh
<1>3. CASE Arrive(p)
  BY <1>2, <1>3, ArriveShape DEF Fresh, unread, rows
<1>4. ASSUME req[p].op = "create", req'[p].b = req[p].b
      PROVE  status'[req'[p].b] = "none"
  <2>1. ASSUME NEW x \in Request, InsertBooking(x)
        PROVE  status'[req'[p].b] = "none"
    <3>1. x # p /\ req[x].op = "create"
      BY <1>2, <2>1 DEF InsertBooking, Ready, Idle, Call, TypeOK
    <3>2. req[x].b # req[p].b
      BY <3>1, <1>4 DEF IdsAreFresh
    <3>3. status' = status \/ \E s : status' = [status EXCEPT ![req[x].b] = s]
      BY <2>1 DEF InsertBooking, rows
    <3>4. status[req[p].b] = "none" /\ req[p].b \in Booking /\ status \in [Booking -> Status]
      BY <1>4 DEF IdsAreFresh, TypeOK, Named
    <3> QED BY <1>4, <3>2, <3>3, <3>4
  <2>2. ASSUME NEW x \in Request, UpdateBooking(x)
        PROVE  status'[req'[p].b] = "none"
    <3>1. req[x].op \in Transition /\ status[req[x].b] # "none"
      BY <2>2 DEF UpdateBooking, Ready, TypeOK, Named, Transition
    <3>2. req[x].b # req[p].b
      BY <3>1, <1>4 DEF IdsAreFresh
    <3>3. status' = status \/ \E s : status' = [status EXCEPT ![req[x].b] = s]
      BY <2>2 DEF UpdateBooking
    <3>4. status[req[p].b] = "none" /\ req[p].b \in Booking /\ status \in [Booking -> Status]
      BY <1>4 DEF IdsAreFresh, TypeOK, Named
    <3> QED BY <1>4, <3>2, <3>3, <3>4
  <2> QED BY <1>4, <2>1, <2>2, WhoWrites DEF IdsAreFresh
<1>5. ASSUME req[p].op = "create", req'[p].b = req[p].b,
             NEW q \in Request \ {p}, req'[q].op = "create"
      PROVE  req'[q].b # req'[p].b
  <2>1. CASE Arrive(q)
    BY <1>5, <2>1, ArriveShape DEF Fresh
  <2>2. CASE req[q].op = "create" /\ req'[q].b = req[q].b
    BY <1>5, <2>2 DEF IdsAreFresh
  <2> QED BY <1>1, <1>5, <2>1, <2>2
<1> QED BY <1>1, <1>2, <1>3, <1>4, <1>5

\* So they always are.
LEMMA FreshAlways == Spec => []IdsAreFresh
<1>1. Init => IdsAreFresh
  BY DEF Init, IdsAreFresh, Idle, Call
<1>2. TypeOK /\ IdsAreFresh /\ [Next]_vars => IdsAreFresh'
  BY FreshStep
<1> QED BY <1>1, <1>2, TypeCorrect, PTL DEF Spec

-----------------------------------------------------------------------------
(* The payout gate. *)

\* What a call reads depends on its kind and the options it came with.
LEMMA ReadsSame ==
  ASSUME NEW r, NEW s, s.op = r.op, s.split = r.split, s.coupon = r.coupon,
         s.instant = r.instant
  PROVE  Reads(s) = Reads(r) /\ Gated(s) = Gated(r)
<1>1. Gated(s) = Gated(r)
  BY DEF Gated
<1> QED BY <1>1 DEF Reads

\* Appending one read at the end.
LEMMA LastOfCat ==
  ASSUME NEW S, NEW s \in Seq(S), NEW x \in S
  PROVE  /\ s \o <<x>> \in Seq(S)
         /\ Len(s \o <<x>>) = Len(s) + 1
         /\ (s \o <<x>>)[Len(s) + 1] = x
<1> DEFINE t == <<x>>
<1>1. t \in Seq(S) /\ Len(t) = 1 /\ t[1] = x
  OBVIOUS
<1> HIDE DEF t
<1>2. s \o t \in Seq(S) /\ Len(s \o t) = Len(s) + Len(t)
  BY <1>1, ConcatProperties
<1>3. (s \o t)[Len(s) + 1] = t[1]
  BY <1>1, ConcatProperties
<1> QED BY <1>1, <1>2, <1>3 DEF t

\* What an extended sequence holds.
LEMMA InAppend ==
  ASSUME NEW S, NEW s \in Seq(S), NEW e \in S, NEW i \in DOMAIN Append(s, e)
  PROVE  \/ (i \in DOMAIN s /\ Append(s, e)[i] = s[i])
         \/ (i = Len(s) + 1 /\ Append(s, e)[i] = e)
  OBVIOUS

LookUp == {"calendar", "blocks", "coupon", "gate", "load", "reserved", "row"}

\* A call that is gated asks the gate last.
LEMMA GateIsLast ==
  ASSUME NEW r \in CallRecord, Gated(r)
  PROVE  /\ Len(Reads(r)) \in Nat \ {0}
         /\ Reads(r)[Len(Reads(r))] = "gate"
<1>1. PICK s \in Seq(LookUp) : Reads(r) = s \o <<"gate">>
  <2> DEFINE cb == <<"calendar", "blocks">>
             c  == <<"coupon">>
             l  == <<"load">>
  <2>1. cb \in Seq(LookUp) /\ c \in Seq(LookUp) /\ l \in Seq(LookUp) /\ <<>> \in Seq(LookUp)
    <3>1. "calendar" \in LookUp /\ "blocks" \in LookUp /\ "coupon" \in LookUp /\ "load" \in LookUp
      BY DEF LookUp
    <3> HIDE DEF LookUp
    <3> QED BY <3>1
  <2>2. CASE r.op = "create" /\ r.coupon
    <3>1. Reads(r) = cb \o c \o <<"gate">>
      BY <2>2 DEF Reads
    <3> HIDE DEF cb, c
    <3>2. cb \o c \in Seq(LookUp)
      BY <2>1, ConcatProperties
    <3> QED BY <3>1, <3>2
  <2>3. CASE r.op = "create" /\ ~r.coupon
    <3>1. Reads(r) = cb \o <<>> \o <<"gate">>
      BY <2>3 DEF Reads
    <3> HIDE DEF cb
    <3>2. cb \o <<>> \in Seq(LookUp)
      BY <2>1, ConcatProperties
    <3> QED BY <3>1, <3>2
  <2>4. CASE r.op \in {"confirm", "auto", "settle"}
    <3>1. Reads(r) = l \o <<"gate">>
      BY <2>4 DEF Reads
    <3> HIDE DEF l
    <3> QED BY <2>1, <3>1
  <2> QED BY <2>2, <2>3, <2>4 DEF Gated
<1>2. "gate" \in LookUp /\ Len(s) \in Nat
  BY DEF LookUp
<1> HIDE DEF LookUp
<1> QED BY <1>1, <1>2, LastOfCat

\* An account that is enabled now was enabled once; a gated call that has read
\* everything saw it enabled.
GateHolds ==
  /\ onboarded => wasOnboarded
  /\ \A p \in Request :
       Gated(req[p]) /\ req[p].done = Len(Reads(req[p])) => wasOnboarded

\* Every step keeps what calls know of the gate.
LEMMA GateStep ==
  ASSUME TypeOK, GateHolds, [Next]_vars
  PROVE  GateHolds' /\ (wasOnboarded => wasOnboarded')
<1>1. \/ UNCHANGED <<onboarded, wasOnboarded>>
      \/ wasOnboarded'
  <2>1. ASSUME NEW p \in Request, Arrive(p) \/ Run(p) \/ Crash(p)
        PROVE  UNCHANGED <<onboarded, wasOnboarded>>
    <3>1. CASE Arrive(p)
      BY <3>1, ArriveShape DEF unread, listing
    <3>2. CASE Run(p) \/ Crash(p)
      BY <3>2 DEF Run, Check, InsertBooking, UpdateBooking, InsertBlock, UpdateCoupon, Mark,
                  Crash, listing
    <3> QED BY <2>1, <3>1, <3>2
  <2>2. ASSUME Around PROVE UNCHANGED <<onboarded, wasOnboarded>> \/ wasOnboarded'
    BY <2>2 DEF Around, Unblock, CompleteSplit, SyncAccount, EditInstantBook, Midnight, listing
  <2>3. CASE UNCHANGED vars
    BY <2>3 DEF vars, listing
  <2> QED BY <2>1, <2>2, <2>3 DEF Next
<1>2. SUFFICES ASSUME NEW p \in Request, Gated(req[p])', (req[p].done = Len(Reads(req[p])))'
               PROVE  wasOnboarded'
  BY <1>1 DEF GateHolds
<1>3. req[p] \in CallRecord /\ req'[p] \in CallRecord
  BY TypeStep DEF TypeOK
<1>4. ASSUME Gated(req[p]), req[p].done = Len(Reads(req[p]))
      PROVE  wasOnboarded'
  BY <1>1, <1>4 DEF GateHolds
<1>5. CASE req'[p] = req[p]
  BY <1>2, <1>4, <1>5
<1>6. CASE Arrive(p)
  BY <1>2, <1>3, <1>6, ArriveShape, GateIsLast
<1>7. CASE /\ req[p].done < Len(Reads(req[p]))
           /\ Admits(NextRead(req[p]), req[p])
           /\ req'[p] = Passed(req[p])
  <2>1. /\ req'[p].op = req[p].op /\ req'[p].split = req[p].split
        /\ req'[p].coupon = req[p].coupon /\ req'[p].instant = req[p].instant
        /\ req'[p].done = req[p].done + 1
    BY <1>3, <1>7, SameCall
  <2>2. Gated(req[p]) /\ req[p].done + 1 = Len(Reads(req[p]))
    BY <1>2, <2>1, ReadsSame
  <2>3. NextRead(req[p]) = "gate"
    BY <1>3, <2>2, GateIsLast DEF NextRead
  <2>4. onboarded
    BY <1>7, <2>3 DEF Admits
  <2> QED BY <1>1, <2>4 DEF GateHolds
<1>8. ASSUME NEW k \in Block, req'[p] = Lifted(req[p], k)
      PROVE  wasOnboarded'
  <2>1. /\ req'[p].op = req[p].op /\ req'[p].split = req[p].split
        /\ req'[p].coupon = req[p].coupon /\ req'[p].instant = req[p].instant
        /\ req'[p].done = req[p].done
    BY <1>3, <1>8, SameCall
  <2> QED BY <1>2, <1>4, <2>1, ReadsSame
<1>9. CASE req'[p].op \in {"idle", "mark"}
  BY <1>2, <1>9 DEF Gated
<1> QED BY <1>5, <1>6, <1>7, <1>8, <1>9, CallStep

\* No step confirms a booking before the host was onboarded.
LEMMA ConfirmedStep ==
  ASSUME TypeOK, GateHolds, NeverOnboardedNeverConfirmed, [Next]_vars
  PROVE  NeverOnboardedNeverConfirmed'
<1>1. SUFFICES ASSUME ~wasOnboarded', NEW b \in Booking, NEW i \in DOMAIN log'[b]
               PROVE  log'[b][i] # "Confirmed"
  BY DEF NeverOnboardedNeverConfirmed
<1>2. ~wasOnboarded /\ \A j \in DOMAIN log[b] : log[b][j] # "Confirmed"
  BY <1>1, GateStep DEF NeverOnboardedNeverConfirmed
<1>3. ASSUME NEW p \in Request, Gated(req[p]), req[p].done = Len(Reads(req[p]))
      PROVE  FALSE
  BY <1>2, <1>3 DEF GateHolds
<1>4. ASSUME NEW p \in Request, InsertBooking(p)
      PROVE  log'[b][i] # "Confirmed"
  <2>1. ~(req[p].instant /\ ~req[p].split)
    BY <1>3, <1>4 DEF InsertBooking, Ready, Gated
  <2>2. log' = log \/ log' = [log EXCEPT ![req[p].b] = <<"Requested">>]
    BY <1>4, <2>1 DEF InsertBooking, rows
  <2> QED BY <1>1, <1>2, <2>2 DEF TypeOK
<1>5. ASSUME NEW p \in Request, UpdateBooking(p)
      PROVE  log'[b][i] # "Confirmed"
  <2>1. Event(req[p].op) # "Confirmed"
    BY <1>3, <1>5 DEF UpdateBooking, Ready, Transition, Gated, Event
  <2>2. log' = log \/ log' = [log EXCEPT ![req[p].b] = Append(@, Event(req[p].op))]
    BY <1>5 DEF UpdateBooking
  <2>3. log[b] \in Seq(EventName) /\ Event(req[p].op) \in EventName
    BY DEF TypeOK, Event, EventName
  <2>4. CASE log' = log
    BY <1>1, <1>2, <2>4
  <2>5. CASE log' = [log EXCEPT ![req[p].b] = Append(@, Event(req[p].op))] /\ b = req[p].b
    <3>1. log'[b] = Append(log[b], Event(req[p].op))
      BY <2>5 DEF TypeOK
    <3> QED BY <1>1, <1>2, <2>1, <2>3, <3>1, InAppend
  <2>6. CASE log' = [log EXCEPT ![req[p].b] = Append(@, Event(req[p].op))] /\ b # req[p].b
    <3>1. log'[b] = log[b]
      BY <2>6 DEF TypeOK
    <3> QED BY <1>1, <1>2, <3>1
  <2> QED BY <2>2, <2>4, <2>5, <2>6
<1> QED BY <1>1, <1>2, <1>4, <1>5, WhoWrites

\* No booking of a host who never finished payout onboarding is confirmed, on
\* whatever path (enforcePayoutOnboarding, booking/service.go).
THEOREM GateIsEnforced == Spec => []NeverOnboardedNeverConfirmed
<1>1. Init => GateHolds /\ NeverOnboardedNeverConfirmed
  BY DEF Init, GateHolds, NeverOnboardedNeverConfirmed, Gated, Idle, Call
<1>2. TypeOK /\ GateHolds /\ NeverOnboardedNeverConfirmed /\ [Next]_vars
        => GateHolds' /\ NeverOnboardedNeverConfirmed'
  BY GateStep, ConfirmedStep
<1> QED BY <1>1, <1>2, TypeCorrect, PTL DEF Spec

-----------------------------------------------------------------------------
(* Completion follows the stay. *)

\* What a row and its log say of the past stays, once there is a row.
LEMMA PastStays ==
  ASSUME TypeOK, IdsAreFresh, [Next]_vars, NEW b \in Booking, status[b] # "none"
  PROVE  /\ StayOver(b) => StayOver(b)'
         /\ \A j \in DOMAIN log[b] : j \in DOMAIN log'[b] /\ log'[b][j] = log[b][j]
<1>1. /\ nights'[b] = nights[b]
      /\ \A j \in DOMAIN log[b] : j \in DOMAIN log'[b] /\ log'[b][j] = log[b][j]
  <2>1. ASSUME NEW p \in Request, InsertBooking(p)
        PROVE  nights'[b] = nights[b] /\ log'[b] = log[b]
    <3>1. req[p].b # b
      BY <2>1 DEF InsertBooking, Ready, IdsAreFresh
    <3> QED BY <2>1, <3>1 DEF InsertBooking, rows, TypeOK
  <2>2. ASSUME NEW p \in Request, UpdateBooking(p)
        PROVE  /\ nights' = nights
               /\ \A j \in DOMAIN log[b] : j \in DOMAIN log'[b] /\ log'[b][j] = log[b][j]
    <3>1. log' = log \/ log' = [log EXCEPT ![req[p].b] = Append(@, Event(req[p].op))]
      BY <2>2 DEF UpdateBooking
    <3>2. log[b] \in Seq(EventName) /\ Event(req[p].op) \in EventName
      BY DEF TypeOK, Event, EventName
    <3>3. log'[b] = log[b] \/ log'[b] = Append(log[b], Event(req[p].op))
      BY <3>1 DEF TypeOK
    <3> HIDE DEF EventName
    <3> QED BY <2>2, <3>2, <3>3 DEF UpdateBooking
  <2> QED BY <2>1, <2>2, WhoWrites
<1>2. today \in Nat /\ today' \in Nat /\ today <= today'
  <2>1. today' = today \/ today' = today + 1
    <3>1. ASSUME NEW p \in Request, Arrive(p) PROVE today' = today
      BY <3>1, ArriveShape DEF unread
    <3>2. ASSUME NEW p \in Request, Run(p) \/ Crash(p) PROVE today' = today
      BY <3>2 DEF Run, Check, InsertBooking, UpdateBooking, InsertBlock, UpdateCoupon, Mark, Crash
    <3>3. ASSUME Around PROVE today' = today \/ today' = today + 1
      BY <3>3 DEF Around, Unblock, CompleteSplit, SyncAccount, EditInstantBook, Midnight
    <3>4. CASE UNCHANGED vars
      BY <3>4 DEF vars
    <3> QED BY <3>1, <3>2, <3>3, <3>4 DEF Next
  <2> QED BY <2>1, ReservationsAssumption DEF TypeOK
<1>3. \A n \in nights[b] : n \in Nat
  <2>1. nights[b] \in Stay \cup {{}}
    BY DEF TypeOK
  <2>2. \A s \in Stay : \A n \in s : n \in Nat
    BY DEF Stay
  <2> QED BY <2>1, <2>2
<1> QED BY <1>1, <1>2, <1>3 DEF StayOver

\* A call that completes a booking and has loaded it saw a confirmed stay that
\* is over; both are still true when it writes.
StayWasSeen ==
  \A p \in Request : req[p].op = "complete" /\ req[p].done > 0 =>
    /\ StayOver(req[p].b)
    /\ \E j \in DOMAIN log[req[p].b] : log[req[p].b][j] = "Confirmed"

\* A row that is confirmed has the event in its log, and a log has a row.
LEMMA ConfirmedIsLogged ==
  ASSUME TypeOK, LastEventTellsStatus, NEW b \in Booking
  PROVE  /\ status[b] = "confirmed" => \E j \in DOMAIN log[b] : log[b][j] = "Confirmed"
         /\ \A j \in DOMAIN log[b] : status[b] # "none"
<1>1. status[b] = Told(log[b]) /\ log[b] \in Seq(EventName)
  BY DEF LastEventTellsStatus, TypeOK
<1>2. ASSUME log[b] # <<>>
      PROVE  Len(log[b]) \in DOMAIN log[b] /\ Last(log[b]) = log[b][Len(log[b])]
  BY <1>1, <1>2 DEF Last
<1> QED BY <1>1, <1>2 DEF Told

\* What a completing call saw stays true: rows keep their nights, logs only grow.
LEMMA StayStep ==
  ASSUME TypeOK, IdsAreFresh, LastEventTellsStatus, StayWasSeen, [Next]_vars
  PROVE  StayWasSeen'
<1>1. SUFFICES ASSUME NEW p \in Request, req'[p].op = "complete", req'[p].done > 0,
                      NEW b, b = req'[p].b
               PROVE  /\ \A n \in nights'[b] : n < today'
                      /\ \E j \in DOMAIN log'[b] : log'[b][j] = "Confirmed"
  BY DEF StayWasSeen, StayOver
<1>2. req[p] \in CallRecord /\ req'[p] \in CallRecord /\ b \in Booking
  <2>1. TypeOK'
    BY TypeStep
  <2> QED BY <1>1, <2>1 DEF TypeOK, Named, Transition
<1>3. ASSUME req[p].op = "complete", b = req[p].b, StayOver(b),
             \E j \in DOMAIN log[b] : log[b][j] = "Confirmed"
      PROVE  /\ \A n \in nights'[b] : n < today'
             /\ \E j \in DOMAIN log'[b] : log'[b][j] = "Confirmed"
  <2>1. status[b] # "none"
    BY <1>3 DEF TypeOK, Named, Transition
  <2> QED BY <1>2, <1>3, <2>1, PastStays DEF StayOver
<1>4. ASSUME req[p].op = "complete", req[p].done > 0, b = req[p].b
      PROVE  /\ \A n \in nights'[b] : n < today'
             /\ \E j \in DOMAIN log'[b] : log'[b][j] = "Confirmed"
  BY <1>3, <1>4 DEF StayWasSeen
<1>5. CASE req'[p] = req[p]
  BY <1>1, <1>4, <1>5
<1>6. CASE Arrive(p)
  BY <1>1, <1>6, ArriveShape
<1>7. CASE /\ req[p].done < Len(Reads(req[p]))
           /\ Admits(NextRead(req[p]), req[p])
           /\ req'[p] = Passed(req[p])
  <2>1. /\ req[p].op = "complete" /\ b = req[p].b
        /\ req'[p].done = req[p].done + 1
    BY <1>1, <1>2, <1>7, SameCall
  <2>2. Reads(req[p]) = <<"load">> \o <<>>
    BY <2>1 DEF Reads, Gated
  <2>3. Reads(req[p]) = <<"load">> /\ Len(<<"load">>) = 1
    BY <2>2
  <2>4. req[p].done = 0
    BY <1>2, <1>7, <2>3 DEF CallRecord
  <2>5. NextRead(req[p]) = "load"
    BY <2>3, <2>4 DEF NextRead
  <2>6. status[b] = "confirmed" /\ StayOver(b)
    BY <1>7, <2>1, <2>5 DEF Admits, From
  <2> QED BY <1>2, <1>3, <2>1, <2>6, ConfirmedIsLogged
<1>8. ASSUME NEW k \in Block, req'[p] = Lifted(req[p], k)
      PROVE  /\ \A n \in nights'[b] : n < today'
             /\ \E j \in DOMAIN log'[b] : log'[b][j] = "Confirmed"
  <2>1. req'[p].op = req[p].op /\ req'[p].b = req[p].b /\ req'[p].done = req[p].done
    BY <1>2, <1>8, SameCall
  <2> QED BY <1>1, <1>4, <2>1
<1>9. CASE req'[p].op \in {"idle", "mark"}
  BY <1>1, <1>9
<1> QED BY <1>5, <1>6, <1>7, <1>8, <1>9, CallStep

\* No step adds a completion that did not follow the stay.
LEMMA CompletedStep ==
  ASSUME TypeOK, IdsAreFresh, LastEventTellsStatus, StayWasSeen, CompletedWasStayed, [Next]_vars
  PROVE  CompletedWasStayed'
<1>1. SUFFICES ASSUME NEW b \in Booking, NEW i \in DOMAIN log'[b], log'[b][i] = "Completed"
               PROVE  /\ \E j \in 1 .. i - 1 : log'[b][j] = "Confirmed"
                      /\ StayOver(b)'
  BY DEF CompletedWasStayed, StayOver
<1>2. log[b] \in Seq(EventName) /\ log'[b] \in Seq(EventName)
  BY TypeStep DEF TypeOK
<1>3. CASE i \in DOMAIN log[b] /\ log[b][i] = "Completed"
  <2>1. StayOver(b) /\ \E j \in 1 .. i - 1 : log[b][j] = "Confirmed"
    BY <1>3 DEF CompletedWasStayed, StayOver
  <2>2. status[b] # "none"
    BY <1>3, ConfirmedIsLogged
  <2>3. \A j \in 1 .. i - 1 : j \in DOMAIN log[b]
    BY <1>2, <1>3
  <2> QED BY <2>1, <2>2, <2>3, PastStays
<1>4. CASE ~(i \in DOMAIN log[b] /\ log[b][i] = "Completed")
  <2>1. ASSUME NEW p \in Request, InsertBooking(p)
        PROVE  FALSE
    <3>1. \/ log' = log
          \/ log' = [log EXCEPT ![req[p].b] = <<"Requested">>]
          \/ log' = [log EXCEPT ![req[p].b] = <<"Requested", "Confirmed">>]
      BY <2>1 DEF InsertBooking, rows
    <3>2. \/ log'[b] = log[b] \/ log'[b] = <<"Requested">>
          \/ log'[b] = <<"Requested", "Confirmed">>
      BY <3>1 DEF TypeOK
    <3> QED BY <1>1, <1>4, <3>2
  <2>2. ASSUME NEW p \in Request, UpdateBooking(p)
        PROVE  /\ \E j \in 1 .. i - 1 : log'[b][j] = "Confirmed"
               /\ StayOver(b)'
    <3>1. log' = log \/ log' = [log EXCEPT ![req[p].b] = Append(@, Event(req[p].op))]
      BY <2>2 DEF UpdateBooking
    <3>2. Event(req[p].op) \in EventName
      BY DEF Event, EventName
    <3>3. log'[b] = Append(log[b], Event(req[p].op)) /\ b = req[p].b
      BY <1>1, <1>4, <3>1 DEF TypeOK
    <3>4. i = Len(log[b]) + 1 /\ Event(req[p].op) = "Completed"
      BY <1>1, <1>2, <1>4, <3>2, <3>3, InAppend
    <3>5. req[p].op = "complete" /\ req[p].done > 0 /\ status[b] # "none"
      <4>1. req[p].op = "complete"
        BY <3>4 DEF Event
      <4>2. Reads(req[p]) = <<"load">> \o <<>>
        BY <4>1 DEF Reads, Gated
      <4>3. Len(Reads(req[p])) = 1
        BY <4>2
      <4> QED BY <2>2, <3>3, <4>1, <4>3 DEF UpdateBooking, Ready, TypeOK, Named, Transition
    <3>6. StayOver(b) /\ \E j \in DOMAIN log[b] : log[b][j] = "Confirmed"
      BY <3>3, <3>5 DEF StayWasSeen
    <3>7. \A j \in DOMAIN log[b] : j \in 1 .. i - 1
      BY <1>2, <3>4
    <3> QED BY <3>5, <3>6, <3>7, PastStays
  <2>3. CASE UNCHANGED <<status, nights, log>>
    BY <1>1, <1>4, <2>3
  <2> QED BY <2>1, <2>2, <2>3, WhoWrites
<1> QED BY <1>3, <1>4

\* A stay is completed only after it was confirmed and is over, whatever is
\* written in between (Complete, booking/service.go).
THEOREM CompletionFollowsStay == Spec => []CompletedWasStayed
<1>1. Init => StayWasSeen /\ CompletedWasStayed
  BY DEF Init, StayWasSeen, CompletedWasStayed, Idle, Call
<1>2. TypeOK /\ IdsAreFresh /\ LastEventTellsStatus /\ StayWasSeen /\ CompletedWasStayed
        /\ [Next]_vars => StayWasSeen' /\ CompletedWasStayed'
  BY StayStep, CompletedStep
<1> QED BY <1>1, <1>2, TypeCorrect, FreshAlways, RowsFollowEvents, PTL DEF Spec

-----------------------------------------------------------------------------
(* The coupon. *)

\* The counter, and every copy of it a call will write back, is at most the
\* number of bookings that have the discount.
UsesAreCounted ==
  /\ IsFiniteSet(redeemed)
  /\ \A b \in redeemed : status[b] # "none"
  /\ coupon.uses <= Cardinality(redeemed)
  /\ \A p \in Request :
       req[p].op \notin {"idle", "mark"} => req[p].seen <= Cardinality(redeemed)

\* No row disappears.
LEMMA RowsStay ==
  ASSUME TypeOK, [Next]_vars, NEW b \in Booking, status[b] # "none"
  PROVE  status'[b] # "none"
<1>1. ASSUME NEW p \in Request, InsertBooking(p) PROVE status'[b] # "none"
  <2>1. \/ status' = status
        \/ status' = [status EXCEPT ![req[p].b] = "confirmed"]
        \/ status' = [status EXCEPT ![req[p].b] = "pending"]
    BY <1>1 DEF InsertBooking, rows
  <2> QED BY <2>1 DEF TypeOK
<1>2. ASSUME NEW p \in Request, UpdateBooking(p) PROVE status'[b] # "none"
  <2>1. \/ status' = status
        \/ status' = [status EXCEPT ![req[p].b] = Target(req[p].op)]
    BY <1>2 DEF UpdateBooking
  <2>2. Target(req[p].op) # "none"
    BY DEF Target
  <2> QED BY <2>1, <2>2 DEF TypeOK
<1> QED BY <1>1, <1>2, WhoWrites

\* A booking gets the discount together with its row; its count is one more than
\* its create read.  The other way to write the coupon puts back what was read.
LEMMA WhoRedeems ==
  ASSUME TypeOK, [Next]_vars
  PROVE  \/ UNCHANGED <<coupon, redeemed>>
         \/ \E p \in Request :
              /\ req[p].op = "deactivate"
              /\ coupon' = [uses |-> req[p].seen, active |-> FALSE]
              /\ UNCHANGED redeemed
         \/ \E p \in Request :
              /\ req[p].op = "create"
              /\ coupon' = [uses |-> req[p].seen + 1, active |-> TRUE]
              /\ redeemed' = redeemed \cup {req[p].b}
              /\ status'[req[p].b] # "none"
<1>1. ASSUME NEW p \in Request, Arrive(p) PROVE UNCHANGED <<coupon, redeemed>>
  BY <1>1, ArriveShape DEF unread
<1>2. ASSUME NEW p \in Request,
             Check(p) \/ UpdateBooking(p) \/ InsertBlock(p) \/ Mark(p) \/ Crash(p)
      PROVE  UNCHANGED <<coupon, redeemed>>
  BY <1>2 DEF Check, UpdateBooking, InsertBlock, Mark, Crash
<1>3. ASSUME NEW p \in Request, UpdateCoupon(p)
      PROVE  /\ req[p].op = "deactivate"
             /\ coupon' = [uses |-> req[p].seen, active |-> FALSE]
             /\ UNCHANGED redeemed
  BY <1>3 DEF UpdateCoupon, Ready
<1>4. ASSUME NEW p \in Request, InsertBooking(p)
      PROVE  \/ UNCHANGED <<coupon, redeemed>>
             \/ /\ req[p].op = "create"
                /\ coupon' = [uses |-> req[p].seen + 1, active |-> TRUE]
                /\ redeemed' = redeemed \cup {req[p].b}
                /\ status'[req[p].b] # "none"
  <2>1. req[p].op = "create" /\ req[p].b \in Booking
    BY <1>4 DEF InsertBooking, Ready, TypeOK, Named
  <2>2. \/ UNCHANGED <<coupon, redeemed>>
        \/ /\ coupon' = [uses |-> req[p].seen + 1, active |-> TRUE]
           /\ redeemed' = redeemed \cup {req[p].b}
           /\ \/ status' = [status EXCEPT ![req[p].b] = "confirmed"]
              \/ status' = [status EXCEPT ![req[p].b] = "pending"]
    BY <1>4 DEF InsertBooking
  <2> QED BY <2>1, <2>2 DEF TypeOK
<1>5. ASSUME Around PROVE UNCHANGED <<coupon, redeemed>>
  BY <1>5 DEF Around, Unblock, CompleteSplit, SyncAccount, EditInstantBook, Midnight
<1>6. CASE UNCHANGED vars
  BY <1>6 DEF vars
<1> QED BY <1>1, <1>2, <1>3, <1>4, <1>5, <1>6 DEF Next, Run

\* Every step keeps the counter and its copies within the discounts given.
LEMMA CouponStep ==
  ASSUME TypeOK, IdsAreFresh, UsesAreCounted, [Next]_vars
  PROVE  UsesAreCounted'
<1> DEFINE n == Cardinality(redeemed)
           m == Cardinality(redeemed')
<1>1. n \in Nat /\ coupon.uses \in Nat /\ \A p \in Request : req[p].seen \in Nat
  <2>1. n \in Nat
    BY FS_CardinalityType DEF UsesAreCounted
  <2> QED BY <2>1 DEF TypeOK, CallRecord
<1>2. /\ IsFiniteSet(redeemed')
      /\ m \in Nat /\ n <= m
      /\ coupon'.uses <= m
      /\ \A b \in redeemed' : status'[b] # "none"
  <2>1. \A b \in redeemed : status'[b] # "none"
    BY RowsStay DEF UsesAreCounted, TypeOK
  <2>2. CASE UNCHANGED <<coupon, redeemed>>
    BY <1>1, <2>1, <2>2 DEF UsesAreCounted
  <2>3. ASSUME NEW p \in Request, req[p].op = "deactivate",
               coupon' = [uses |-> req[p].seen, active |-> FALSE], UNCHANGED redeemed
        PROVE  /\ IsFiniteSet(redeemed')
               /\ m \in Nat /\ n <= m
               /\ coupon'.uses <= m
               /\ \A b \in redeemed' : status'[b] # "none"
    BY <1>1, <2>1, <2>3 DEF UsesAreCounted
  <2>4. ASSUME NEW p \in Request, req[p].op = "create",
               coupon' = [uses |-> req[p].seen + 1, active |-> TRUE],
               redeemed' = redeemed \cup {req[p].b}, status'[req[p].b] # "none"
        PROVE  /\ IsFiniteSet(redeemed')
               /\ m \in Nat /\ n <= m
               /\ coupon'.uses <= m
               /\ \A b \in redeemed' : status'[b] # "none"
    <3>1. req[p].b \notin redeemed
      BY <2>4 DEF UsesAreCounted, IdsAreFresh
    <3>2. IsFiniteSet(redeemed') /\ m = n + 1
      BY <2>4, <3>1, FS_AddElement DEF UsesAreCounted
    <3>3. req[p].seen <= n
      BY <2>4 DEF UsesAreCounted
    <3> HIDE DEF n, m
    <3> QED BY <1>1, <2>1, <2>4, <3>2, <3>3
  <2> QED BY <2>2, <2>3, <2>4, WhoRedeems
<1>3. ASSUME NEW p \in Request, req'[p].op \notin {"idle", "mark"}
      PROVE  req'[p].seen <= m
  <2>1. req[p] \in CallRecord
    BY DEF TypeOK
  <2>2. CASE req'[p] = req[p]
    BY <1>1, <1>2, <1>3, <2>2 DEF UsesAreCounted
  <2>3. CASE Arrive(p)
    BY <1>2, <2>3, ArriveShape
  <2>4. CASE req'[p] = Passed(req[p]) /\ req[p].op \notin {"idle", "mark"}
    <3>1. req'[p].seen = coupon.uses \/ req'[p].seen = req[p].seen
      BY <2>1, <2>4, SameCall
    <3> QED BY <1>1, <1>2, <2>4, <3>1 DEF UsesAreCounted
  <2>5. ASSUME NEW k \in Block, req'[p] = Lifted(req[p], k), req[p].op \notin {"idle", "mark"}
        PROVE  req'[p].seen <= m
    BY <1>1, <1>2, <2>1, <2>5, SameCall DEF UsesAreCounted
  <2>6. /\ Passed(req[p]).op = req[p].op
        /\ \A k : Lifted(req[p], k).op = req[p].op
    BY <2>1, SameCall
  <2> HIDE DEF m
  <2> QED BY <1>3, <2>2, <2>3, <2>4, <2>5, <2>6, CallStep
<1> QED BY <1>2, <1>3 DEF UsesAreCounted

\* The coupon never counts a use that no reservation had, for any number of
\* creates and deactivations that overlap (redeemCoupon, booking/service.go).
THEOREM NoUseWithoutBooking == Spec => []NoUseIsBurnt
<1>1. Init => UsesAreCounted
  <2> SUFFICES ASSUME Init PROVE UsesAreCounted
    OBVIOUS
  <2>1. redeemed = {} /\ Cardinality({}) = 0 /\ IsFiniteSet({})
    BY FS_EmptySet DEF Init
  <2> QED BY <2>1 DEF Init, UsesAreCounted, Idle, Call
<1>2. TypeOK /\ IdsAreFresh /\ UsesAreCounted /\ [Next]_vars => UsesAreCounted'
  BY CouponStep
<1>3. UsesAreCounted => NoUseIsBurnt
  BY DEF UsesAreCounted, NoUseIsBurnt
<1> QED BY <1>1, <1>2, <1>3, TypeCorrect, FreshAlways, PTL DEF Spec

-----------------------------------------------------------------------------
(* Blocks. *)

\* A create reads the calendar, then the blocks.
LEMMA CreateReads ==
  ASSUME NEW r \in CallRecord, r.op = "create"
  PROVE  Len(Reads(r)) \in Nat /\ Len(Reads(r)) >= 2 /\ Reads(r)[2] = "blocks"
<1> DEFINE cb == <<"calendar", "blocks">>
<1>1. /\ cb \in Seq(LookUp) /\ Len(cb) = 2 /\ cb[2] = "blocks"
      /\ <<"coupon">> \in Seq(LookUp) /\ <<"gate">> \in Seq(LookUp) /\ <<>> \in Seq(LookUp)
  <2>1. {"calendar", "blocks", "coupon", "gate"} \subseteq LookUp
    BY DEF LookUp
  <2> HIDE DEF LookUp
  <2> QED BY <2>1
<1>2. PICK x \in Seq(LookUp), y \in Seq(LookUp) : Reads(r) = cb \o x \o y
  <2>1. CASE r.coupon /\ Gated(r)
    <3>1. Reads(r) = cb \o <<"coupon">> \o <<"gate">>
      BY <2>1 DEF Reads
    <3> QED BY <1>1, <3>1
  <2>2. CASE r.coupon /\ ~Gated(r)
    <3>1. Reads(r) = cb \o <<"coupon">> \o <<>>
      BY <2>2 DEF Reads
    <3> QED BY <1>1, <3>1
  <2>3. CASE ~r.coupon /\ Gated(r)
    <3>1. Reads(r) = cb \o <<>> \o <<"gate">>
      BY <2>3 DEF Reads
    <3> QED BY <1>1, <3>1
  <2>4. CASE ~r.coupon /\ ~Gated(r)
    <3>1. Reads(r) = cb \o <<>> \o <<>>
      BY <2>4 DEF Reads
    <3> QED BY <1>1, <3>1
  <2> QED BY <2>1, <2>2, <2>3, <2>4
<1> HIDE DEF cb
<1>3. /\ cb \o x \in Seq(LookUp)
      /\ Len(cb \o x) = Len(cb) + Len(x)
      /\ \A i \in 1 .. Len(cb) + Len(x) :
           (cb \o x)[i] = IF i <= Len(cb) THEN cb[i] ELSE x[i - Len(cb)]
  BY <1>1, <1>2, ConcatProperties
<1>4. Len(x) \in Nat /\ Len(y) \in Nat
  BY <1>2
<1>5. Len(cb \o x) = 2 + Len(x) /\ (cb \o x)[2] = "blocks"
  BY <1>1, <1>3, <1>4
<1> DEFINE c == cb \o x
<1> HIDE DEF c
<1>6. /\ Len(c \o y) = Len(c) + Len(y)
      /\ \A i \in 1 .. Len(c) + Len(y) :
           (c \o y)[i] = IF i <= Len(c) THEN c[i] ELSE y[i - Len(c)]
  <2>1. c \in Seq(LookUp)
    BY <1>3 DEF c
  <2> QED BY <1>2, <2>1, ConcatProperties
<1>7. Len(c) = 2 + Len(x) /\ c[2] = "blocks" /\ Reads(r) = c \o y
  BY <1>2, <1>5 DEF c
<1>8. Len(c \o y) \in Nat /\ Len(c \o y) >= 2 /\ (c \o y)[2] = "blocks"
  BY <1>4, <1>6, <1>7
<1> QED BY <1>7, <1>8

\* The blocks that stood when a create began and still stand leave its stay free
\* once it has read them.
StandingIsFree ==
  \A p \in Request : req[p].op = "create" =>
    \A k \in req[p].standing :
      block[k] # {} /\ (req[p].done >= 2 => Disjoint(block[k], req[p].stay))

\* A block that stands is not changed, only lifted.
LEMMA BlocksStand ==
  ASSUME TypeOK, [Next]_vars, NEW k \in Block, block[k] # {}
  PROVE  \/ block'[k] = block[k]
         \/ \A p \in Request : req'[p].standing = req[p].standing \ {k}
<1>1. ASSUME NEW p \in Request, Arrive(p) PROVE block' = block
  BY <1>1, ArriveShape DEF unread, listing
<1>2. ASSUME NEW p \in Request, Run(p) \/ Crash(p) PROVE block'[k] = block[k]
  <2>1. CASE InsertBlock(p)
    BY <2>1 DEF InsertBlock, TypeOK
  <2>2. CASE \/ Check(p) \/ InsertBooking(p) \/ UpdateBooking(p) \/ UpdateCoupon(p)
             \/ Mark(p) \/ Crash(p)
    BY <2>2 DEF Check, InsertBooking, UpdateBooking, UpdateCoupon, Mark, Crash, listing
  <2> QED BY <1>2, <2>1, <2>2 DEF Run
<1>3. ASSUME NEW x \in Block, Unblock(x)
      PROVE  \/ block'[k] = block[k]
             \/ \A p \in Request : req'[p].standing = req[p].standing \ {k}
  <2>1. CASE x = k
    <3>1. \A p \in Request : req'[p] = Lifted(req[p], k) /\ req[p] \in CallRecord
      BY <1>3, <2>1 DEF Unblock, Lifted, TypeOK
    <3> QED BY <3>1, SameCall
  <2>2. CASE x # k
    BY <1>3, <2>2 DEF Unblock, TypeOK
  <2> QED BY <2>1, <2>2
<1>4. ASSUME Around, \A x \in Block : ~Unblock(x) PROVE block' = block
  BY <1>4 DEF Around, CompleteSplit, SyncAccount, EditInstantBook, Midnight, listing
<1>5. CASE UNCHANGED vars
  BY <1>5 DEF vars, listing
<1> QED BY <1>1, <1>2, <1>3, <1>4, <1>5 DEF Next

\* What a create read of the blocks stays true of those that still stand.
LEMMA BlockStep ==
  ASSUME TypeOK, StandingIsFree, [Next]_vars
  PROVE  StandingIsFree'
<1>1. SUFFICES ASSUME NEW p \in Request, req'[p].op = "create", NEW k \in req'[p].standing
               PROVE  /\ block'[k] # {}
                      /\ req'[p].done >= 2 => Disjoint(block'[k], req'[p].stay)
  BY DEF StandingIsFree
<1>2. req[p] \in CallRecord /\ req'[p] \in CallRecord /\ k \in Block
  <2>1. TypeOK'
    BY TypeStep
  <2> QED BY <1>1, <2>1 DEF TypeOK, CallRecord
<1>3. CASE Arrive(p)
  BY <1>1, <1>3, ArriveShape DEF unread, listing
<1>4. ASSUME req[p].op = "create", k \in req[p].standing, req'[p].stay = req[p].stay,
             req'[p].done >= 2 => Disjoint(block[k], req[p].stay)
      PROVE  /\ block'[k] # {}
             /\ req'[p].done >= 2 => Disjoint(block'[k], req'[p].stay)
  <2>1. block[k] # {}
    BY <1>4 DEF StandingIsFree
  <2>2. block'[k] = block[k]
    BY <1>1, <1>2, <2>1, BlocksStand
  <2> QED BY <1>4, <2>1, <2>2
<1>5. CASE req'[p] = req[p]
  BY <1>1, <1>4, <1>5 DEF StandingIsFree
<1>6. CASE Admits(NextRead(req[p]), req[p]) /\ req'[p] = Passed(req[p])
  <2>1. /\ req[p].op = "create" /\ k \in req[p].standing /\ req'[p].stay = req[p].stay
        /\ req'[p].done = req[p].done + 1
    BY <1>1, <1>2, <1>6, SameCall
  <2>2. CASE req[p].done >= 2
    BY <1>4, <2>1, <2>2 DEF StandingIsFree
  <2>3. CASE req[p].done = 1
    <3>1. NextRead(req[p]) = "blocks"
      BY <1>2, <2>1, <2>3, CreateReads DEF NextRead
    <3>2. BlockFree(req[p].stay)
      BY <1>6, <3>1 DEF Admits
    <3> QED BY <1>2, <1>4, <2>1, <3>2 DEF BlockFree
  <2>4. CASE req[p].done = 0
    BY <1>4, <2>1, <2>4
  <2>5. req[p].done \in Nat
    BY <1>2 DEF CallRecord
  <2> QED BY <2>2, <2>3, <2>4, <2>5
<1>7. ASSUME NEW x \in Block, req'[p] = Lifted(req[p], x)
      PROVE  /\ block'[k] # {}
             /\ req'[p].done >= 2 => Disjoint(block'[k], req'[p].stay)
  <2>1. /\ req[p].op = "create" /\ k \in req[p].standing /\ req'[p].stay = req[p].stay
        /\ req'[p].done = req[p].done
    BY <1>1, <1>2, <1>7, SameCall
  <2> QED BY <1>4, <2>1 DEF StandingIsFree
<1>8. CASE req'[p].op \in {"idle", "mark"}
  BY <1>1, <1>8
<1> QED BY <1>3, <1>5, <1>6, <1>7, <1>8, CallStep

\* So a row that appears is clear of them.
LEMMA InsertStep ==
  ASSUME TypeOK, StandingIsFree, [Next]_vars
  PROVE  InsertRespectsBlocks
<1>1. SUFFICES ASSUME NEW b \in Booking, status[b] = "none", status'[b] # "none"
               PROVE  \E p \in Request :
                        /\ req[p].op = "create" /\ req[p].b = b
                        /\ \A k \in req[p].standing : Disjoint(block[k], nights'[b])
  BY DEF InsertRespectsBlocks
<1>2. ASSUME NEW p \in Request, UpdateBooking(p) PROVE FALSE
  <2>1. status[req[p].b] # "none"
    BY <1>2 DEF UpdateBooking, Ready, TypeOK, Named, Transition
  <2>2. status' = status \/ status' = [status EXCEPT ![req[p].b] = Target(req[p].op)]
    BY <1>2 DEF UpdateBooking
  <2> QED BY <1>1, <2>1, <2>2 DEF TypeOK
<1>3. PICK p \in Request : InsertBooking(p)
  BY <1>1, <1>2, WhoWrites
<1>4. req[p].op = "create" /\ req[p].done >= 2
  <2>1. req[p].op = "create" /\ req[p].done = Len(Reads(req[p])) /\ req[p] \in CallRecord
    BY <1>3 DEF InsertBooking, Ready, TypeOK
  <2> QED BY <2>1, CreateReads
<1>5. \/ UNCHANGED status
      \/ /\ nights' = [nights EXCEPT ![req[p].b] = req[p].stay]
         /\ \E s : status' = [status EXCEPT ![req[p].b] = s]
  BY <1>3 DEF InsertBooking, rows
<1>6. req[p].b = b /\ nights'[b] = req[p].stay
  BY <1>1, <1>5 DEF TypeOK
<1> QED BY <1>4, <1>6 DEF StandingIsFree

\* No reservation is inserted over a block that stood when its call began and
\* was not lifted since (Create, booking/service.go).
THEOREM InsertsRespectBlocks == Spec => BlocksRespected
<1>1. Init => StandingIsFree
  BY DEF Init, StandingIsFree, Idle, Call
<1>2. TypeOK /\ StandingIsFree /\ [Next]_vars => StandingIsFree'
  BY BlockStep
<1>3. TypeOK /\ StandingIsFree /\ [Next]_vars => [InsertRespectsBlocks]_vars
  BY InsertStep
<1> QED BY <1>1, <1>2, <1>3, TypeCorrect, PTL DEF Spec, BlocksRespected

-----------------------------------------------------------------------------
(* When the calls of a listing do not overlap in time (one goroutine), the    *)
(* booking service implements the lifecycle of the aggregate, whatever dies.  *)

Alone == \E p : Request = {p}

\* A call that changes a booking loads it first.
LEMMA LoadIsFirst ==
  ASSUME NEW r \in CallRecord, r.op \in Transition
  PROVE  Len(Reads(r)) \in Nat \ {0} /\ Reads(r)[1] = "load"
<1> DEFINE l == <<"load">>
           m == <<"load", "calendar", "blocks">>
<1>1. /\ l \in Seq(LookUp) /\ Len(l) = 1 /\ l[1] = "load"
      /\ m \in Seq(LookUp) /\ Len(m) = 3 /\ m[1] = "load"
      /\ <<"gate">> \in Seq(LookUp) /\ <<>> \in Seq(LookUp)
  <2>1. {"calendar", "blocks", "load", "gate"} \subseteq LookUp
    BY DEF LookUp
  <2> HIDE DEF LookUp
  <2> QED BY <2>1
<1>2. CASE r.op = "modify"
  <2>1. Reads(r) = m
    BY <1>2 DEF Reads
  <2>2. Len(m) = 3 /\ m[1] = "load"
    OBVIOUS
  <2> HIDE DEF m
  <2> QED BY <2>1, <2>2
<1>3. CASE r.op # "modify"
  <2>1. PICK y \in Seq(LookUp) : Reads(r) = l \o y
    <3>1. CASE Gated(r)
      <4>1. Reads(r) = l \o <<"gate">>
        <5>1. r.op \in {"confirm", "auto", "settle", "cancel", "complete"}
          BY <1>3 DEF Transition
        <5> QED BY <3>1, <5>1 DEF Reads
      <4> QED BY <1>1, <4>1
    <3>2. CASE ~Gated(r)
      <4>1. Reads(r) = l \o <<>>
        BY <1>3, <3>2 DEF Reads, Transition
      <4> QED BY <1>1, <4>1
    <3> QED BY <3>1, <3>2
  <2> HIDE DEF l
  <2>2. /\ Len(l \o y) = Len(l) + Len(y)
        /\ \A i \in 1 .. Len(l) + Len(y) :
             (l \o y)[i] = IF i <= Len(l) THEN l[i] ELSE y[i - Len(l)]
    BY <1>1, <2>1, ConcatProperties
  <2>3. Len(y) \in Nat
    BY <2>1
  <2>4. Len(l \o y) \in Nat \ {0} /\ (l \o y)[1] = "load"
    BY <1>1, <2>2, <2>3
  <2> QED BY <2>1, <2>4
<1> QED BY <1>2, <1>3

\* The status a call has loaded is still there: nobody else runs.
LoadedIsCurrent ==
  \A p \in Request :
    /\ req[p].op \in Transition /\ req[p].done > 0 => status[req[p].b] \in From(req[p].op)
    /\ req[p].op = "create" => req[p].stay \in Stay

\* Nobody else writes between the load of a call and its transaction.
LEMMA CurrentStep ==
  ASSUME Alone, TypeOK, LoadedIsCurrent, [Next]_vars
  PROVE  LoadedIsCurrent'
<1>1. SUFFICES ASSUME NEW p \in Request, Request = {p},
                      req'[p].op \in Transition \cup {"create"}
               PROVE  /\ req'[p].op \in Transition /\ req'[p].done > 0 =>
                           status'[req'[p].b] \in From(req'[p].op)
                      /\ req'[p].op = "create" => req'[p].stay \in Stay
  BY DEF LoadedIsCurrent, Alone
<1>2. req[p] \in CallRecord /\ req'[p] \in CallRecord
  <2>1. TypeOK'
    BY TypeStep
  <2> QED BY <2>1 DEF TypeOK
<1>3. "idle" \notin Transition \cup {"create"} /\ "mark" \notin Transition \cup {"create"}
  BY DEF Transition
<1>4. status' = status
  <2>1. ASSUME NEW q \in Request, InsertBooking(q) \/ UpdateBooking(q)
        PROVE  FALSE
    <3>1. q = p
      BY <1>1
    <3>2. req'[p] = Idle \/ req'[p] = Over(req[p])
      BY <2>1, <3>1 DEF InsertBooking, UpdateBooking, TypeOK
    <3>3. Idle.op = "idle" /\ Over(req[p]).op \in {"idle", "mark"}
      BY <1>2, OverType DEF Idle, Call
    <3> QED BY <1>1, <1>3, <3>2, <3>3
  <2> QED BY <2>1, WhoWrites
<1>5. CASE req'[p] = req[p]
  BY <1>4, <1>5 DEF LoadedIsCurrent
<1>6. CASE Arrive(p)
  BY <1>6, ArriveShape
<1>7. CASE Admits(NextRead(req[p]), req[p]) /\ req'[p] = Passed(req[p])
  <2>1. /\ req'[p].op = req[p].op /\ req'[p].b = req[p].b /\ req'[p].stay = req[p].stay
        /\ req'[p].done = req[p].done + 1
    BY <1>2, <1>7, SameCall
  <2>2. CASE req[p].done > 0
    BY <1>4, <2>1, <2>2 DEF LoadedIsCurrent
  <2>3. ASSUME req[p].done = 0, req[p].op \in Transition
        PROVE  status[req[p].b] \in From(req[p].op)
    <3>1. NextRead(req[p]) = "load"
      BY <1>2, <2>3, LoadIsFirst DEF NextRead
    <3> QED BY <1>7, <3>1 DEF Admits
  <2>4. req[p].done \in Nat
    BY <1>2 DEF CallRecord
  <2> QED BY <1>4, <2>1, <2>2, <2>3, <2>4 DEF LoadedIsCurrent
<1>8. ASSUME NEW k \in Block, req'[p] = Lifted(req[p], k)
      PROVE  /\ req'[p].op \in Transition /\ req'[p].done > 0 =>
                  status'[req'[p].b] \in From(req'[p].op)
             /\ req'[p].op = "create" => req'[p].stay \in Stay
  <2>1. /\ req'[p].op = req[p].op /\ req'[p].b = req[p].b /\ req'[p].stay = req[p].stay
        /\ req'[p].done = req[p].done
    BY <1>2, <1>8, SameCall
  <2> QED BY <1>4, <2>1 DEF LoadedIsCurrent
<1>9. CASE req'[p].op \in {"idle", "mark"}
  BY <1>1, <1>3, <1>9
<1> QED BY <1>5, <1>6, <1>7, <1>8, <1>9, CallStep

\* The transaction of a create is a Book of the aggregate, or changes nothing.
LEMMA InsertBooks ==
  ASSUME TypeOK, IdsAreFresh, LoadedIsCurrent, LastEventTellsStatus,
         NEW p \in Request, InsertBooking(p)
  PROVE  (\E b \in Booking : Lifecycle!Book(b)) \/ UNCHANGED Lifecycle!vars
<1> DEFINE b == req[p].b
           stay == req[p].stay
           auto == req[p].instant /\ ~req[p].split
           s == IF auto THEN "confirmed" ELSE "pending"
<1>1. req[p].op = "create" /\ b \in Booking /\ stay \in Stay /\ status[b] = "none"
  BY DEF InsertBooking, Ready, TypeOK, Named, LoadedIsCurrent, IdsAreFresh
<1>2. log[b] = <<>>
  <2>1. log[b] \in Seq(EventName) /\ \A j \in DOMAIN log[b] : FALSE
    BY <1>1, ConfirmedIsLogged DEF TypeOK
  <2>2. ASSUME NEW e \in Seq(EventName), \A j \in DOMAIN e : FALSE
        PROVE  e = <<>>
    <3>1. SUFFICES ASSUME e # <<>> PROVE FALSE
      OBVIOUS
    <3>2. Len(e) \in Nat \ {0}
      BY <3>1, EmptySeq
    <3>3. 1 \in DOMAIN e
      BY <3>2
    <3> QED BY <2>2, <3>3
  <2> QED BY <2>1, <2>2
<1>3. CASE UNCHANGED <<status, nights, log>>
  BY <1>3 DEF Lifecycle!vars
<1>4. CASE /\ Accepts(b, stay, s)
           /\ status' = [status EXCEPT ![b] = s]
           /\ nights' = [nights EXCEPT ![b] = stay]
           /\ log' = [log EXCEPT ![b] = IF auto THEN <<"Requested", "Confirmed">>
                                                ELSE <<"Requested">>]
  <2>1. Lifecycle!Vacant(stay)
    BY <1>1, <1>4 DEF Accepts, Free, Active, Disjoint, Lifecycle!Vacant, Lifecycle!Holds
  <2>2. Append(log[b], "Requested") = <<"Requested">>
    BY <1>2
  <2>3. log' = [log EXCEPT ![b] = Append(@, "Requested")] \/ auto
    BY <1>4, <2>2
  <2>4. Lifecycle!Book(b)
    BY <1>1, <1>4, <2>1, <2>3 DEF Lifecycle!Book, Lifecycle!Announce
  <2> QED BY <1>1, <2>4
<1> QED BY <1>3, <1>4 DEF InsertBooking, rows

\* The transaction of any other call is a move of the aggregate, or nothing.
LEMMA UpdateMoves ==
  ASSUME TypeOK, LoadedIsCurrent, NEW p \in Request, UpdateBooking(p)
  PROVE  Lifecycle!Next \/ UNCHANGED Lifecycle!vars
<1> DEFINE b == req[p].b
           op == req[p].op
<1>1. op \in Transition /\ b \in Booking /\ status[b] \in From(op)
  <2>1. op \in Transition /\ b \in Booking
    BY DEF UpdateBooking, Ready, TypeOK, Named
  <2>2. req[p] \in CallRecord /\ req[p].done = Len(Reads(req[p]))
    BY DEF UpdateBooking, Ready, TypeOK
  <2>3. req[p].done > 0
    BY <2>1, <2>2, LoadIsFirst
  <2> QED BY <2>1, <2>3 DEF LoadedIsCurrent
<1>2. CASE UNCHANGED <<status, nights, log>>
  BY <1>2 DEF Lifecycle!vars
<1>3. CASE /\ status' = [status EXCEPT ![b] = Target(op)]
           /\ log' = [log EXCEPT ![b] = Append(@, Event(op))]
           /\ nights' = nights
  <2>1. Lifecycle!Move(b, From(op), Target(op), Event(op))
    BY <1>1, <1>3 DEF Lifecycle!Move, Lifecycle!Announce
  <2>2. \/ Lifecycle!Modify(b) \/ Lifecycle!Confirm(b) \/ Lifecycle!Cancel(b)
        \/ Lifecycle!Complete(b)
    <3> HIDE DEF b, op
    <3> QED BY <1>1, <2>1 DEF Transition, From, Target, Event, Active, Lifecycle!Modify,
              Lifecycle!Confirm, Lifecycle!Cancel, Lifecycle!Complete
  <2> QED BY <1>1, <2>2 DEF Lifecycle!Next
<1> QED BY <1>2, <1>3 DEF UpdateBooking

\* One call at a time, crashes included, the booking service implements the
\* lifecycle of the booking aggregate (domain/booking/booking.go).
THEOREM ImplementsLifecycle == ASSUME Alone PROVE Spec => LifecycleImplemented
<1>1. Init => LoadedIsCurrent /\ Lifecycle!Init
  BY DEF Init, LoadedIsCurrent, Lifecycle!Init, Idle, Call, Transition
<1>2. TypeOK /\ LoadedIsCurrent /\ [Next]_vars => LoadedIsCurrent'
  BY CurrentStep
<1>3. TypeOK /\ IdsAreFresh /\ LoadedIsCurrent /\ LastEventTellsStatus /\ [Next]_vars
        => [Lifecycle!Next]_(Lifecycle!vars)
  BY WhoWrites, InsertBooks, UpdateMoves DEF Lifecycle!vars, Lifecycle!Next
<1> QED BY <1>1, <1>2, <1>3, TypeCorrect, FreshAlways, RowsFollowEvents, PTL
        DEF Spec, LifecycleImplemented, Lifecycle!Spec
=============================================================================
