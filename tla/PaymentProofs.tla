--------------------------- MODULE PaymentProofs ---------------------------
(***************************************************************************)
(* What Payment promises, for any number of workers, disputes, references, *)
(* faults and crashes, and for any amounts: what its tables say of the     *)
(* gateway's money is true, and what retries, stale copies and races       *)
(* cannot do to the holds of a booking, to its deposit, to its books and   *)
(* to a decision.                                                          *)
(***************************************************************************)
EXTENDS Payment, Sequences, SumsProofs, TLAPS

-----------------------------------------------------------------------------
(* Types.  A table row is only written over from a copy of a row that was   *)
(* there, so that the amount of the copy is the one of the row.              *)

\* A reference is not used yet, or it was made for a purpose with its key.
Made(i) ==
  \/ i = Unused
  \/ i.use = "rental"  /\ i.key = <<"rental">>  /\ i.amount \in {Total, NewTotal}
  \/ i.use = "deposit" /\ i.key = <<"deposit">> /\ i.amount = Deposit

\* The payments row, or a copy of it.
Sound(r) ==
  /\ r.status = "none" => r = NoRow
  /\ r.status # "none" => r.amount = Total
  /\ r.refunded <= r.amount
  /\ r.ref # 0 => intent[r.ref].use = "rental"

Writing == {"release", "replace", "charge", "return", "write", "claim"}

SoundJob(j) ==
  /\ Sound(j.row)
  /\ j.hold.ref # 0 => intent[j.hold.ref].use = "deposit"
  /\ j.at \in Writing => j.row.status # "none" /\ row.status # "none"
  /\ j.at = "insert" => j.row.status # "none"
  /\ j.op = "resolve" /\ j.at # "done" => j.d \in Dispute
  /\ j.at \in {"overflow", "claim"} => j.op = "resolve"

Shape ==
  /\ \A r \in Ref : Made(intent[r])
  /\ Sound(row)
  /\ \A w \in Worker : SoundJob(job[w])


-----------------------------------------------------------------------------
(* How jobs go on. *)

\* Job w has gone on with at, with the copies r and h.
WentOn(w, at, r, h) ==
  LET j == job[w]  k == job'[w] IN
  /\ \A v \in Worker \ {w} : job'[v] = job[v]
  /\ k.op = j.op /\ k.hook = j.hook /\ k.at = at
  /\ IF at = "done" THEN k.row = NoRow /\ k.hold = NoHold
     ELSE /\ k.row = r /\ k.hold = h
          /\ k.d = j.d /\ k.refund = j.refund /\ k.damage = j.damage /\ k.seen = j.seen

Becomes(w, at, r, h) == job' \in [Worker -> JobType] /\ WentOn(w, at, r, h)

\* Blank rows and holds have their types.
LEMMA BlankTypes ==
  /\ NoRow \in RowType /\ NoHold \in HoldType
  /\ Idle \in JobType /\ Idle.row = NoRow /\ Idle.hold = NoHold /\ Idle.at = "done"
<1>1. NoRow \in RowType
  BY PaymentAssumption DEF NoRow, RowType, Status, Amount
<1>2. NoHold \in HoldType
  BY DEF NoHold, HoldType
<1>3. Idle \in JobType /\ Idle.row = NoRow /\ Idle.hold = NoHold /\ Idle.at = "done"
  BY <1>1, <1>2, PaymentAssumption DEF Idle, JobType, Steps
<1> QED BY <1>1, <1>2, <1>3

\* A job that goes on keeps what it carries, or drops it when it is done.
LEMMA GoingFields ==
  ASSUME NEW j \in JobType, NEW at \in Steps
  PROVE  /\ Going(j, at) \in JobType
         /\ Going(j, at).op = j.op /\ Going(j, at).hook = j.hook /\ Going(j, at).at = at
         /\ at = "done" => Going(j, at).row = NoRow /\ Going(j, at).hold = NoHold
         /\ at # "done" => /\ Going(j, at).row = j.row /\ Going(j, at).hold = j.hold
                           /\ Going(j, at).d = j.d /\ Going(j, at).refund = j.refund
                           /\ Going(j, at).damage = j.damage /\ Going(j, at).seen = j.seen
<1>1. CASE at = "done"
  BY <1>1, BlankTypes DEF Going, JobType, Idle
<1>2. CASE at # "done"
  BY <1>2 DEF Going, JobType
<1> QED BY <1>1, <1>2

\* What Goto, Carry and CarryHold do.
LEMMA GotoFacts ==
  ASSUME TypeOK, NEW w \in Worker, NEW at \in Steps, Goto(w, at)
  PROVE  Becomes(w, at, job[w].row, job[w].hold)
<1>1. job[w] \in JobType /\ job \in [Worker -> JobType]
  BY DEF TypeOK
<1> DEFINE k == Going(job[w], at)
<1>2. job' = [job EXCEPT ![w] = k]
  BY DEF Goto
<1>3. /\ k \in JobType /\ k.op = job[w].op /\ k.hook = job[w].hook /\ k.at = at
      /\ at = "done" => k.row = NoRow /\ k.hold = NoHold
      /\ at # "done" => /\ k.row = job[w].row /\ k.hold = job[w].hold
                        /\ k.d = job[w].d /\ k.refund = job[w].refund
                        /\ k.damage = job[w].damage /\ k.seen = job[w].seen
  BY <1>1, GoingFields
<1> HIDE DEF k
<1> QED BY <1>1, <1>2, <1>3 DEF Becomes, WentOn

\* A job that goes on with another copy of the payments row.
LEMMA CarryFacts ==
  ASSUME TypeOK, NEW w \in Worker, NEW at \in Steps, NEW r \in RowType, Carry(w, r, at)
  PROVE  Becomes(w, at, r, job[w].hold)
<1> DEFINE j == [job[w] EXCEPT !.row = r]
           k == Going(j, at)
<1>1. job[w] \in JobType /\ job \in [Worker -> JobType]
  BY DEF TypeOK
<1>2. job' = [job EXCEPT ![w] = k]
  BY DEF Carry
<1>3. /\ j \in JobType /\ j.row = r /\ j.hold = job[w].hold /\ j.op = job[w].op
      /\ j.hook = job[w].hook /\ j.d = job[w].d /\ j.refund = job[w].refund
      /\ j.damage = job[w].damage /\ j.seen = job[w].seen
  BY <1>1 DEF JobType
<1> HIDE DEF j
<1>4. /\ k \in JobType /\ k.op = j.op /\ k.hook = j.hook /\ k.at = at
      /\ at = "done" => k.row = NoRow /\ k.hold = NoHold
      /\ at # "done" => /\ k.row = j.row /\ k.hold = j.hold
                        /\ k.d = j.d /\ k.refund = j.refund
                        /\ k.damage = j.damage /\ k.seen = j.seen
  BY <1>3, GoingFields
<1> HIDE DEF k
<1> QED BY <1>1, <1>2, <1>3, <1>4 DEF Becomes, WentOn

\* A job that goes on with another copy of the deposit's row.
LEMMA CarryHoldFacts ==
  ASSUME TypeOK, NEW w \in Worker, NEW at \in Steps, NEW h \in HoldType, CarryHold(w, h, at)
  PROVE  Becomes(w, at, NoRow, h)
<1> DEFINE j == [job[w] EXCEPT !.hold = h, !.row = NoRow]
           k == Going(j, at)
<1>1. job[w] \in JobType /\ job \in [Worker -> JobType]
  BY DEF TypeOK
<1>2. job' = [job EXCEPT ![w] = k]
  BY DEF CarryHold
<1>3. /\ j \in JobType /\ j.row = NoRow /\ j.hold = h /\ j.op = job[w].op
      /\ j.hook = job[w].hook /\ j.d = job[w].d /\ j.refund = job[w].refund
      /\ j.damage = job[w].damage /\ j.seen = job[w].seen
  BY <1>1, BlankTypes DEF JobType
<1> HIDE DEF j
<1>4. /\ k \in JobType /\ k.op = j.op /\ k.hook = j.hook /\ k.at = at
      /\ at = "done" => k.row = NoRow /\ k.hold = NoHold
      /\ at # "done" => /\ k.row = j.row /\ k.hold = j.hold
                        /\ k.d = j.d /\ k.refund = j.refund
                        /\ k.damage = j.damage /\ k.seen = j.seen
  BY <1>3, GoingFields
<1> HIDE DEF k
<1> QED BY <1>1, <1>2, <1>3, <1>4 DEF Becomes, WentOn

-----------------------------------------------------------------------------
(* What a call of the gateway does to its record.                           *)

\* A reference keeps its purpose and amount, what was charged stays charged,
\* what was given back stays given back, and what is not held is not held again.
Grown(i, k) ==
  /\ k \in IntentType /\ k.back <= k.amount /\ Made(k)
  /\ i.use # "none" => k.use = i.use /\ k.amount = i.amount
  /\ i.captured => k.captured
  /\ i.back <= k.back
  /\ i.use # "none" /\ Held(i) = 0 => Held(k) = 0

\* A webhook tells what the gateway did.
Tells(h) ==
  /\ h.kind # "none" => intent[h.ref].use # "none"
  /\ h.kind = "captured" => intent[h.ref].captured
  /\ h.kind = "refunded" => Held(intent[h.ref]) = 0

\* Every reference has grown, and new webhooks tell the truth.
GatewayMoved ==
  /\ intent' \in [Ref -> IntentType] /\ \A r \in Ref : Grown(intent[r], intent'[r])
  /\ hooks' \subseteq HookType /\ \A h \in hooks' \ hooks : Tells(h)'
  /\ faults' \in 0 .. MaxFaults

\* No reference is made.
UsesKept ==
  \A q \in Ref : intent'[q].use = intent[q].use /\ intent'[q].amount = intent[q].amount

Sane == TypeOK /\ \A r \in Ref : Made(intent[r])

\* Keys of different purposes differ.
LEMMA KeysDiffer ==
  /\ <<"rental">> # <<"deposit">> /\ <<"rental">> # <<>> /\ <<"deposit">> # <<>>
<1>1. <<"rental">>[1] = "rental" /\ <<"deposit">>[1] = "deposit"
  OBVIOUS
<1>2. Len(<<"rental">>) = 1 /\ Len(<<"deposit">>) = 1 /\ Len(<<>>) = 0
  OBVIOUS
<1> QED BY <1>1, <1>2

\* A reference nobody asked for holds nothing.
LEMMA UnusedFacts ==
  /\ Unused \in IntentType /\ Unused.use = "none" /\ Unused.key = <<>> /\ Unused.amount = 0
  /\ ~Unused.captured /\ Unused.back = 0 /\ Held(Unused) = 0 /\ Made(Unused)
BY PaymentAssumption DEF Unused, IntentType, Amount, Held, Made

\* A reference that is left alone has, trivially, only grown.
LEMMA GrownSame ==
  ASSUME Sane, NEW r \in Ref
  PROVE  Grown(intent[r], intent[r])
<1>1. intent[r] \in IntentType /\ intent[r].back <= intent[r].amount /\ Made(intent[r])
  BY DEF Sane, TypeOK
<1>2. intent[r].back \in Nat
  BY <1>1, PaymentAssumption DEF IntentType, Amount
<1> QED BY <1>1, <1>2 DEF Grown

\* An answered call was accepted and took effect.
LEMMA AnsweredFacts ==
  ASSUME TypeOK, NEW accepts \in BOOLEAN, NEW effect \in BOOLEAN, NEW ok \in BOOLEAN,
         Answered(accepts, effect, ok)
  PROVE  faults' \in 0 .. MaxFaults /\ (effect => accepts) /\ (ok => effect)
BY PaymentAssumption DEF Answered, TypeOK

\* A capture only adds to a reference, and one that is answered has charged it.
LEMMA CaptureFacts ==
  ASSUME Sane, NEW r \in Ref \cup {0}, NEW ok \in BOOLEAN, Capture(r, ok)
  PROVE  GatewayMoved /\ UsesKept /\ (ok => r \in Ref /\ intent'[r].captured)
<1>0. intent \in [Ref -> IntentType] /\ hooks \subseteq HookType
  BY DEF Sane, TypeOK
<1>1. PICK effect \in BOOLEAN :
        /\ Answered(r # 0 /\ Held(intent[r]) > 0, effect, ok)
        /\ IF effect
             THEN /\ intent' = [intent EXCEPT ![r].captured = TRUE]
                  /\ hooks' = hooks \cup {[kind |-> "captured", ref |-> r, amount |-> 0]}
             ELSE UNCHANGED <<intent, hooks>>
  BY DEF Capture
<1>2. faults' \in 0 .. MaxFaults /\ (effect => r # 0 /\ Held(intent[r]) > 0) /\ (ok => effect)
  <2>1. TypeOK /\ (r # 0 /\ Held(intent[r]) > 0) \in BOOLEAN
    BY DEF Sane
  <2> QED BY <1>1, <2>1, AnsweredFacts
<1>3. CASE effect
  <2> DEFINE i == intent[r]
             k == [i EXCEPT !.captured = TRUE]
             h == [kind |-> "captured", ref |-> r, amount |-> 0]
  <2>1. r \in Ref /\ i \in IntentType /\ Held(i) > 0 /\ Made(i) /\ i.back <= i.amount
    BY <1>0, <1>2, <1>3 DEF Sane, TypeOK
  <2>2. intent' = [intent EXCEPT ![r] = k] /\ hooks' = hooks \cup {h}
    BY <1>1, <1>3
  <2>3. i # Unused
    BY <2>1, UnusedFacts
  <2>4. /\ k \in IntentType /\ k.captured /\ k.use = i.use /\ k.amount = i.amount
        /\ k.back = i.back /\ k.key = i.key /\ Held(k) = 0
    BY <2>1 DEF IntentType, Held
  <2>5. h \in HookType /\ h.kind = "captured" /\ h.ref = r
    BY <2>1, PaymentAssumption DEF HookType, Amount
  <2> HIDE DEF i, k, h
  <2>6. intent'[r] = k /\ (\A q \in Ref \ {r} : intent'[q] = intent[q]) /\ intent' \in [Ref -> IntentType]
    BY <1>0, <2>1, <2>2, <2>4
  <2>7. Made(k) /\ k.use # "none"
    BY <2>1, <2>3, <2>4, UnusedFacts DEF Made
  <2>8. Grown(i, k)
    <3>1. i.back \in Nat
      BY <2>1, PaymentAssumption DEF IntentType, Amount
    <3> QED BY <2>1, <2>4, <2>7, <3>1 DEF Grown
  <2>9. \A q \in Ref : Grown(intent[q], intent'[q])
    BY <2>6, <2>8, GrownSame DEF i
  <2>10. Tells(h)'
    BY <2>4, <2>5, <2>6, <2>7 DEF Tells
  <2>11. UsesKept
    BY <2>4, <2>6 DEF UsesKept, i
  <2> QED BY <1>0, <1>2, <2>1, <2>2, <2>4, <2>5, <2>6, <2>9, <2>10, <2>11 DEF GatewayMoved
<1>4. CASE ~effect
  BY <1>0, <1>1, <1>2, <1>4, GrownSame DEF GatewayMoved, UsesKept
<1> QED BY <1>3, <1>4

\* A refund only adds to a reference, and one that is answered fitted what was left.
LEMMA RefundFacts ==
  ASSUME Sane, NEW r \in Ref \cup {0}, r # 0 => intent[r].use # "none",
         NEW amount \in Nat, NEW ok \in BOOLEAN, Refund(r, amount, ok)
  PROVE  /\ GatewayMoved /\ UsesKept
         /\ ok => /\ r \in Ref /\ Refundable(intent[r], amount)
                  /\ intent'[r].back = intent[r].back + amount /\ Held(intent'[r]) = 0
<1>0. intent \in [Ref -> IntentType] /\ hooks \subseteq HookType
  BY DEF Sane, TypeOK
<1>1. PICK effect \in BOOLEAN :
        /\ Answered(r # 0 /\ Refundable(intent[r], amount), effect, ok)
        /\ IF effect
             THEN /\ intent' = [intent EXCEPT ![r].back = @ + amount]
                  /\ hooks' = hooks \cup {[kind |-> "refunded", ref |-> r,
                                           amount |-> intent[r].back + amount]}
             ELSE UNCHANGED <<intent, hooks>>
  BY DEF Refund
<1>2. faults' \in 0 .. MaxFaults /\ (effect => r # 0 /\ Refundable(intent[r], amount)) /\ (ok => effect)
  <2>1. TypeOK /\ (r # 0 /\ Refundable(intent[r], amount)) \in BOOLEAN
    BY DEF Sane
  <2> QED BY <1>1, <2>1, AnsweredFacts
<1>3. CASE effect
  <2> DEFINE i == intent[r]
             k == [i EXCEPT !.back = @ + amount]
             h == [kind |-> "refunded", ref |-> r, amount |-> intent[r].back + amount]
  <2>1. /\ r \in Ref /\ i \in IntentType /\ Made(i) /\ i.use # "none"
        /\ i.amount \in Nat /\ i.back \in Nat /\ i.amount \in Amount
        /\ i.back + amount <= i.amount /\ (i.captured \/ i.back + amount = i.amount)
    BY <1>0, <1>2, <1>3, PaymentAssumption DEF Sane, TypeOK, Refundable, IntentType, Amount
  <2>2. intent' = [intent EXCEPT ![r] = k] /\ hooks' = hooks \cup {h}
    BY <1>1, <1>3
  <2>3. i.back + amount \in Amount
    BY <2>1, PaymentAssumption DEF Amount
  <2>4. /\ k \in IntentType /\ k.captured = i.captured /\ k.use = i.use /\ k.amount = i.amount
        /\ k.back = i.back + amount /\ k.key = i.key
    BY <2>1, <2>3 DEF IntentType
  <2>5. h \in HookType /\ h.kind = "refunded" /\ h.ref = r
    BY <2>1, <2>3 DEF HookType
  <2> HIDE DEF i, k, h
  <2>6. intent'[r] = k /\ (\A q \in Ref \ {r} : intent'[q] = intent[q]) /\ intent' \in [Ref -> IntentType]
    BY <1>0, <2>1, <2>2, <2>4
  <2>7. Made(k)
    BY <2>1, <2>4, UnusedFacts DEF Made
  <2>8. Held(k) = 0
    BY <2>1, <2>4 DEF Held
  <2>9. Grown(i, k)
    BY <2>1, <2>4, <2>7, <2>8 DEF Grown
  <2>10. \A q \in Ref : Grown(intent[q], intent'[q])
    BY <2>6, <2>9, GrownSame DEF i
  <2>11. ASSUME NEW g, g = h PROVE Tells(g)'
    <3>1. intent'[g.ref].use # "none" /\ Held(intent'[g.ref]) = 0 /\ g.kind = "refunded"
      BY <2>1, <2>4, <2>5, <2>6, <2>8, <2>11
    <3> QED BY ONLY <3>1 DEF Tells
  <2>12. GatewayMoved
    <3>1. hooks' \subseteq HookType /\ \A g \in hooks' \ hooks : Tells(g)'
      BY <1>0, <2>2, <2>5, <2>11
    <3> QED BY <1>2, <2>6, <2>10, <3>1 DEF GatewayMoved
  <2>13. UsesKept
    BY <2>4, <2>6 DEF UsesKept, i
  <2> QED BY <1>2, <1>3, <2>1, <2>4, <2>6, <2>8, <2>12, <2>13 DEF i
<1>4. CASE ~effect
  BY <1>0, <1>1, <1>2, <1>4, GrownSame DEF GatewayMoved, UsesKept
<1> QED BY <1>3, <1>4

\* An authorization that is answered has a reference of that purpose and amount;
\* a new one is made only where there was none.
LEMMA AuthorizeFacts ==
  ASSUME Sane, NEW w \in Worker, NEW r \in Ref, NEW ok \in BOOLEAN,
         NEW use \in {"rental", "deposit"}, NEW amount \in Nat,
         use = "rental" => amount \in {Total, NewTotal}, use = "deposit" => amount = Deposit,
         Authorize(w, use, amount, r, ok)
  PROVE  /\ GatewayMoved /\ hooks' = hooks
         /\ ok => intent'[r].use = use /\ intent'[r].amount = amount
         /\ \A q \in Ref : intent'[q] # intent[q] =>
              /\ q = r /\ intent[r] = Unused
              /\ intent'[r].use = use /\ intent'[r].amount = amount /\ intent'[r].back = 0
              /\ \A p \in Ref : ~(intent[p].use = use /\ intent[p].amount = amount)
<1>0. intent \in [Ref -> IntentType] /\ hooks \subseteq HookType
  BY DEF Sane, TypeOK
<1> DEFINE k == [Unused EXCEPT !.use = use, !.key = Key(w, use), !.amount = amount]
<1>1. PICK effect \in BOOLEAN :
        /\ r \in Placed(Key(w, use), amount)
        /\ Answered(TRUE, effect, ok)
        /\ intent' = IF effect /\ intent[r] = Unused THEN [intent EXCEPT ![r] = k] ELSE intent
        /\ hooks' = hooks
  BY DEF Authorize
<1>2. faults' \in 0 .. MaxFaults /\ (ok => effect)
  <2>1. TypeOK /\ TRUE \in BOOLEAN
    BY DEF Sane
  <2> QED BY <1>1, <2>1, AnsweredFacts
<1>3. /\ k \in IntentType /\ k.use = use /\ k.key = <<use>> /\ k.amount = amount
      /\ ~k.captured /\ k.back = 0
  <2>1. <<use>> \in {<<>>, <<"rental">>, <<"deposit">>} /\ amount \in Amount
    BY PaymentAssumption DEF Amount
  <2> DEFINE y == <<use>>
  <2> HIDE DEF y
  <2>2. /\ k = [Unused EXCEPT !.use = use, !.key = y, !.amount = amount]
        /\ y \in {<<>>, <<"rental">>, <<"deposit">>}
    BY <2>1 DEF Key, y
  <2>3. Unused \in IntentType /\ ~Unused.captured /\ Unused.back = 0
    BY UnusedFacts
  <2> HIDE DEF k
  <2>4. /\ k \in IntentType /\ k.use = use /\ k.key = y /\ k.amount = amount
        /\ ~k.captured /\ k.back = 0
    BY <2>1, <2>2, <2>3 DEF IntentType
  <2> QED BY <2>4 DEF y
<1> HIDE DEF k
<1>4. \A p \in Ref : intent[p].key = <<use>> <=> intent[p].use = use
  BY KeysDiffer, UnusedFacts DEF Sane, Made
<1>5. \/ intent[r].use = use /\ intent[r].amount = amount
      \/ intent[r] = Unused /\ \A p \in Ref : ~(intent[p].use = use /\ intent[p].amount = amount)
  BY <1>1, <1>4 DEF Placed, Key
<1>6. CASE effect /\ intent[r] = Unused
  <2>1. intent'[r] = k /\ (\A q \in Ref \ {r} : intent'[q] = intent[q]) /\ intent' \in [Ref -> IntentType]
    BY <1>0, <1>1, <1>3, <1>6
  <2>2. Grown(Unused, k)
    BY <1>3, UnusedFacts DEF Grown, Made
  <2>3. \A q \in Ref : Grown(intent[q], intent'[q])
    BY <1>6, <2>1, <2>2, GrownSame
  <2>4. intent[r].use # use
    BY <1>6, UnusedFacts
  <2> QED BY <1>0, <1>1, <1>2, <1>3, <1>5, <1>6, <2>1, <2>3, <2>4 DEF GatewayMoved
<1>7. CASE ~(effect /\ intent[r] = Unused)
  <2>1. intent' = intent
    BY <1>1, <1>7
  <2>2. ok => intent[r] # Unused
    BY <1>2, <1>7
  <2> QED BY <1>0, <1>1, <1>2, <1>5, <2>1, <2>2, GrownSame DEF GatewayMoved
<1> QED BY <1>6, <1>7

\* The provider withdrawing a hold only gives money back.
LEMMA DeclineFacts ==
  ASSUME Sane, NEW r \in Ref, Decline(r)
  PROVE  GatewayMoved /\ UsesKept
<1>0. intent \in [Ref -> IntentType] /\ hooks \subseteq HookType
  BY DEF Sane, TypeOK
<1> DEFINE i == intent[r]
           k == [i EXCEPT !.back = intent[r].amount]
           h == [kind |-> "failed", ref |-> r, amount |-> 0]
<1>1. /\ intent' = [intent EXCEPT ![r] = k] /\ hooks' = hooks \cup {h}
      /\ faults < MaxFaults /\ faults' = faults + 1 /\ Held(i) > 0
  BY DEF Decline
<1>2. /\ i \in IntentType /\ Made(i) /\ i.amount \in Nat /\ i.back \in Nat /\ i.amount \in Amount
      /\ i.back <= i.amount
  BY <1>0, PaymentAssumption DEF Sane, TypeOK, IntentType, Amount
<1>3. i # Unused
  BY <1>1, UnusedFacts
<1>4. /\ k \in IntentType /\ k.captured = i.captured /\ k.use = i.use /\ k.amount = i.amount
      /\ k.back = i.amount /\ k.key = i.key
  BY <1>2 DEF IntentType
<1>5. h \in HookType /\ h.kind = "failed" /\ h.ref = r
  BY PaymentAssumption DEF HookType, Amount
<1> HIDE DEF i, k, h
<1>6. intent'[r] = k /\ (\A q \in Ref \ {r} : intent'[q] = intent[q]) /\ intent' \in [Ref -> IntentType]
  BY <1>0, <1>1, <1>4
<1>7. Made(k) /\ i.use # "none"
  BY <1>2, <1>3, <1>4, UnusedFacts DEF Made
<1>8. Grown(i, k)
  <2>1. Held(k) = 0
    BY <1>2, <1>4 DEF Held
  <2> QED BY <1>2, <1>4, <1>7, <2>1 DEF Grown
<1>9. \A q \in Ref : Grown(intent[q], intent'[q])
  BY <1>6, <1>8, GrownSame DEF i
<1>10. Tells(h)'
  BY <1>4, <1>5, <1>6, <1>7 DEF Tells
<1>11. faults' \in 0 .. MaxFaults
  BY <1>1, PaymentAssumption DEF Sane, TypeOK
<1>12. UsesKept
  BY <1>4, <1>6 DEF UsesKept, i
<1> QED BY <1>0, <1>1, <1>4, <1>5, <1>6, <1>9, <1>10, <1>11, <1>12 DEF GatewayMoved

-----------------------------------------------------------------------------
(* Every step keeps the types.  First what the parts of a step keep, then    *)
(* the actions.                                                              *)

\* What a step may do to the tables.
TablesMoved ==
  /\ row' \in RowType /\ Sound(row)' /\ (row.status # "none" => row'.status # "none")
  /\ hold' \in HoldType /\ (hold'.ref # 0 => intent'[hold'.ref].use = "deposit")
  /\ refunds' \in [Dispute -> 0 .. Total] /\ claims' \subseteq Dispute
  /\ case' \in [Dispute -> {"none", "open", "resolved", "rejected"}]

JobsMoved == job' \in [Worker -> JobType] /\ \A w \in Worker : SoundJob(job[w])'

Typed == TypeOK /\ Shape

\* A step that leaves the gateway alone moves nothing there.
LEMMA SameGateway ==
  ASSUME Typed, UNCHANGED <<intent, hooks, faults>>
  PROVE  GatewayMoved
<1>1. Sane
  BY DEF Typed, Shape, Sane
<1> QED BY <1>1, GrownSame DEF GatewayMoved, Typed, TypeOK

\* A sound row, or copy, stays sound.
LEMMA SoundStays ==
  ASSUME Typed, GatewayMoved, NEW r \in RowType, Sound(r)
  PROVE  Sound(r)'
BY DEF Sound, GatewayMoved, Grown, RowType

\* A step that leaves the tables alone keeps their rows sound while the gateway grows.
LEMMA SameTables ==
  ASSUME Typed, GatewayMoved, UNCHANGED database
  PROVE  TablesMoved
<1>1. /\ row \in RowType /\ Sound(row) /\ hold \in HoldType
      /\ hold.ref # 0 => intent[hold.ref].use = "deposit"
  BY DEF Typed, TypeOK, Shape
<1>2. Sound(row)'
  <2>1. ASSUME NEW r, r = row PROVE Sound(r)'
    BY <1>1, <2>1, SoundStays
  <2> QED BY <2>1 DEF database, Sound
<1>3. hold.ref # 0 => intent'[hold.ref].use = "deposit"
  BY <1>1 DEF GatewayMoved, Grown, HoldType
<1> QED BY <1>1, <1>2, <1>3 DEF TablesMoved, database, Typed, TypeOK

\* A job that takes no step stays sound while the gateway grows.
LEMMA JobStays ==
  ASSUME Typed, GatewayMoved, row.status # "none" => row'.status # "none",
         NEW j \in JobType, SoundJob(j)
  PROVE  SoundJob(j)'
<1>1. j.row \in RowType /\ j.hold \in HoldType
  BY DEF JobType
<1>2. Sound(j.row)'
  BY <1>1, SoundStays DEF SoundJob
<1>3. j.hold.ref # 0 => intent'[j.hold.ref].use = "deposit"
  BY <1>1 DEF SoundJob, GatewayMoved, Grown, HoldType
<1> QED BY <1>2, <1>3 DEF SoundJob

\* The blank row is sound.
LEMMA BlankIsSound ==
  /\ Sound(NoRow) /\ Sound(NoRow)' /\ NoRow.status = "none" /\ NoHold.ref = 0
BY DEF NoRow, NoHold, Sound

\* A job that goes on soundly leaves all jobs sound.
LEMMA BecomesSound ==
  ASSUME Typed, GatewayMoved, row.status # "none" => row'.status # "none",
         NEW w \in Worker, NEW at \in Steps, NEW r \in RowType, NEW h \in HoldType,
         Becomes(w, at, r, h), Sound(r)', h.ref # 0 => intent'[h.ref].use = "deposit",
         job[w].at # "done",
         at \in Writing => r.status # "none" /\ row'.status # "none",
         at = "insert" => r.status # "none",
         at \in {"overflow", "claim"} => job[w].op = "resolve"
  PROVE  JobsMoved
<1>1. job \in [Worker -> JobType] /\ \A v \in Worker : SoundJob(job[v])
  BY DEF Typed, TypeOK, Shape
<1>2. ASSUME NEW v \in Worker, v # w PROVE SoundJob(job[v])'
  <2>1. ASSUME NEW j, j = job[v] PROVE SoundJob(j)'
    BY <1>1, <2>1, JobStays
  <2>2. job'[v] = job[v]
    BY <1>2 DEF Becomes, WentOn
  <2>3. ASSUME NEW j, j = job'[v] PROVE SoundJob(j)'
    BY <2>1, <2>2, <2>3
  <2> QED BY <2>3 DEF SoundJob, Sound
<1>3. SoundJob(job[w])'
  BY <1>1, BlankIsSound DEF Becomes, WentOn, SoundJob, Sound, Writing
<1> QED BY <1>1, <1>2, <1>3 DEF JobsMoved, Becomes

\* A step whose parts keep the types keeps them.
LEMMA Assembled ==
  ASSUME Typed, GatewayMoved, TablesMoved, JobsMoved,
         booking' \in {"pending", "confirmed", "cancelled", "completed"},
         policy' \in 0 .. Total, due' \subseteq Event, crashes' \in 0 .. MaxCrashes
  PROVE  Typed'
<1>1. \A r \in Ref : Made(intent[r])'
  BY DEF GatewayMoved, Grown, Made
<1>2. Shape'
  BY <1>1 DEF TablesMoved, JobsMoved, Shape
<1>3. /\ row'.refunded <= row'.amount
      /\ row'.ref # 0 => intent'[row'.ref].use = "rental"
  BY DEF TablesMoved, Sound
<1>4. TypeOK'
  BY <1>3 DEF GatewayMoved, Grown, TablesMoved, JobsMoved, TypeOK
<1> QED BY <1>2, <1>4 DEF Typed

\* A job that starts or ends is sound.
LEMMA JobReplaced ==
  ASSUME Typed, NEW w \in Worker, NEW j \in JobType, SoundJob(j),
         job' = [job EXCEPT ![w] = j], GatewayMoved, UNCHANGED row
  PROVE  JobsMoved
<1>1. job \in [Worker -> JobType] /\ \A v \in Worker : SoundJob(job[v])
  BY DEF Typed, TypeOK, Shape
<1>2. ASSUME NEW v \in Worker PROVE SoundJob(job[v])'
  <2>1. job'[v] \in JobType /\ SoundJob(job'[v])
    BY <1>1
  <2>2. ASSUME NEW i, i = job'[v] PROVE SoundJob(i)'
    BY <2>1, <2>2, JobStays
  <2> QED BY <2>2 DEF SoundJob, Sound
<1>3. job' \in [Worker -> JobType]
  BY <1>1
<1> QED BY <1>2, <1>3 DEF JobsMoved

\* The next step of a job that loaded the row.
LEMMA TurnFacts ==
  ASSUME Typed, NEW j \in JobType
  PROVE  /\ Turn(j) \in Steps
         /\ Turn(j) \in Writing => row.status # "none"
         /\ Turn(j) \notin {"insert", "overflow", "claim", "row"}
<1>1. row.status = "none" => Reconciled(j.hook, row) = row
  <2>1. row.status = "none" => row.ref = 0
    BY DEF Typed, Shape, Sound, NoRow
  <2>2. j.hook.ref = 0 => j.hook.kind = "none"
    BY PaymentAssumption DEF JobType, HookType, NoHook
  <2> QED BY <2>1, <2>2 DEF Reconciled
<1> QED BY <1>1 DEF Turn, AfterRefund, Steps, Writing

\* A webhook leaves a sound row.
LEMMA ReconciledFacts ==
  ASSUME NEW r \in RowType, NEW h \in HookType \cup {NoHook}, Sound(r)
  PROVE  /\ Reconciled(h, r) \in RowType /\ Sound(Reconciled(h, r))
         /\ Reconciled(h, r).ref = r.ref /\ Reconciled(h, r).amount = r.amount
         /\ Reconciled(h, r).status = "none" <=> r.status = "none"
         /\ r.status = "none" => Reconciled(h, r) = r
<1>1. /\ r.amount \in Amount /\ r.amount \in Nat /\ h.amount \in Nat
      /\ h.ref = 0 => h.kind = "none"
  BY PaymentAssumption DEF RowType, HookType, NoHook, Amount
<1> DEFINE paid == IF h.amount \in 1 .. r.amount THEN h.amount ELSE r.amount
<1>2. paid \in Amount /\ paid <= r.amount
  BY <1>1, PaymentAssumption DEF Amount
<1> HIDE DEF paid
<1>3. \/ Reconciled(h, r) = r
      \/ Reconciled(h, r) = [r EXCEPT !.status = "captured"] /\ r.status # "none"
      \/ Reconciled(h, r) = [r EXCEPT !.status = "refunded", !.refunded = paid] /\ r.status # "none"
      \/ Reconciled(h, r) = [r EXCEPT !.status = "failed"] /\ r.status # "none"
  BY DEF Reconciled, paid
<1> QED BY <1>1, <1>2, <1>3 DEF RowType, Status, Sound

\* A step that reads, or calls the gateway, and goes on.
LEMMA JobOnly ==
  ASSUME Typed, GatewayMoved, JobsMoved, UNCHANGED <<database, outside, crashes>>
  PROVE  Typed'
<1>1. TablesMoved
  BY SameTables
<1>2. /\ booking' \in {"pending", "confirmed", "cancelled", "completed"}
      /\ policy' \in 0 .. Total /\ due' \subseteq Event /\ crashes' \in 0 .. MaxCrashes
  BY DEF Typed, TypeOK, outside
<1> QED BY <1>1, <1>2, Assembled

\* A step that writes a table and goes on.
LEMMA TableOnly ==
  ASSUME Typed, TablesMoved, JobsMoved, UNCHANGED <<gateway, outside, crashes>>
  PROVE  Typed'
<1>1. GatewayMoved
  BY SameGateway DEF gateway
<1>2. /\ booking' \in {"pending", "confirmed", "cancelled", "completed"}
      /\ policy' \in 0 .. Total /\ due' \subseteq Event /\ crashes' \in 0 .. MaxCrashes
  BY DEF Typed, TypeOK, outside
<1> QED BY <1>1, <1>2, Assembled

\* What a worker's job looks like before its step.
LEMMA JobFacts ==
  ASSUME Typed, NEW w \in Worker
  PROVE  /\ job[w] \in JobType /\ SoundJob(job[w]) /\ Sane
         /\ job[w].row \in RowType /\ job[w].hold \in HoldType
         /\ job[w].hook \in HookType \cup {NoHook} /\ job[w].refund \in 0 .. Total
         /\ job[w].op \in Event \cup {"idle", "webhook", "resolve", "reject"}
         /\ Sound(job[w].row) /\ job[w].row.amount \in Nat
         /\ job[w].row.ref # 0 => intent[job[w].row.ref].use # "none"
         /\ job[w].hold.ref # 0 => intent[job[w].hold.ref].use # "none"
<1>1. job[w] \in JobType /\ SoundJob(job[w])
  BY DEF Typed, TypeOK, Shape
<1>2. job[w].row \in RowType /\ job[w].row.amount \in Nat
  BY <1>1, PaymentAssumption DEF JobType, RowType, Amount
<1>3. Sane
  BY DEF Typed, Shape, Sane
<1> QED BY <1>1, <1>2, <1>3 DEF JobType, SoundJob, Sound

\* A job that goes on with its own row or a blank one.
LEMMA GotoTyped ==
  ASSUME Typed, GatewayMoved, NEW w \in Worker, NEW at \in Steps, Goto(w, at),
         row.status # "none" => row'.status # "none", job[w].at # "done",
         at \in Writing => job[w].at \in Writing, at # "insert",
         at \in {"overflow", "claim"} => job[w].op = "resolve"
  PROVE  JobsMoved
<1>1. Becomes(w, at, job[w].row, job[w].hold)
  BY GotoFacts DEF Typed
<1>2. /\ job[w].row \in RowType /\ job[w].hold \in HoldType
      /\ Sound(job[w].row) /\ SoundJob(job[w])
  BY JobFacts
<1>3. ASSUME NEW r, r = job[w].row PROVE Sound(r)'
  BY <1>2, <1>3, SoundStays
<1>4. job[w].hold.ref # 0 => intent'[job[w].hold.ref].use = "deposit"
  BY <1>2 DEF SoundJob, GatewayMoved, Grown, HoldType
<1>5. ASSUME NEW r \in RowType, NEW h \in HoldType, r = job[w].row, h = job[w].hold
      PROVE  JobsMoved
  <2>1. at \in Writing => r.status # "none" /\ row'.status # "none"
    BY <1>2, <1>5 DEF SoundJob
  <2> QED BY <1>1, <1>3, <1>4, <1>5, <2>1, BecomesSound
<1> QED BY <1>2, <1>5

\* A job that goes on with another row.
LEMMA CarryTyped ==
  ASSUME Typed, GatewayMoved, NEW w \in Worker, NEW at \in Steps, NEW r \in RowType,
         Carry(w, r, at), Sound(r)',
         row.status # "none" => row'.status # "none", job[w].at # "done",
         at \in Writing => r.status # "none" /\ row'.status # "none",
         at = "insert" => r.status # "none",
         at \in {"overflow", "claim"} => job[w].op = "resolve"
  PROVE  JobsMoved
<1>1. Becomes(w, at, r, job[w].hold)
  BY CarryFacts DEF Typed
<1>2. job[w].hold \in HoldType /\ SoundJob(job[w])
  BY JobFacts
<1>3. job[w].hold.ref # 0 => intent'[job[w].hold.ref].use = "deposit"
  BY <1>2 DEF SoundJob, GatewayMoved, Grown, HoldType
<1>4. ASSUME NEW h \in HoldType, h = job[w].hold
      PROVE  JobsMoved
  BY <1>1, <1>3, <1>4, BecomesSound
<1> QED BY <1>2, <1>4

\* A job that goes on with another hold.
LEMMA CarryHoldTyped ==
  ASSUME Typed, GatewayMoved, NEW w \in Worker, NEW at \in Steps, NEW h \in HoldType,
         CarryHold(w, h, at), h.ref # 0 => intent'[h.ref].use = "deposit",
         row.status # "none" => row'.status # "none", job[w].at # "done",
         at \notin Writing, at # "insert",
         at = "overflow" => job[w].op = "resolve"
  PROVE  JobsMoved
<1>1. Becomes(w, at, NoRow, h)
  BY CarryHoldFacts DEF Typed
<1>2. at # "claim"
  BY DEF Writing
<1> QED BY <1>1, <1>2, BlankTypes, BlankIsSound, BecomesSound

\* Jobs about the payments row: what they read and ask the gateway.
LEMMA RowJobsTyped ==
  ASSUME Typed, NEW w \in Worker,
         LoadRow(w) \/ PlaceHold(w) \/ ReleaseHold(w) \/ ReplaceHold(w) \/ Charge(w)
           \/ ReturnMoney(w) \/ AwardRefund(w)
  PROVE  Typed'
<1> DEFINE j == job[w]
           c == job[w].row
<1>0. /\ j \in JobType /\ SoundJob(j) /\ Sane /\ c \in RowType /\ Sound(c) /\ c.amount \in Nat
      /\ j.hook \in HookType \cup {NoHook} /\ j.refund \in 0 .. Total
      /\ c.ref # 0 => intent[c.ref].use # "none"
      /\ c.ref \in Ref \cup {0} /\ j.refund \in Nat /\ policy \in Nat /\ policy \in 0 .. Total
      /\ Total \in Nat /\ NewTotal \in Nat /\ row \in RowType /\ Sound(row)
  BY JobFacts, PaymentAssumption DEF RowType, Typed, TypeOK, Shape
<1> HIDE DEF j, c
<1>1. CASE LoadRow(w)
  <2> DEFINE r == IF j.op = "webhook" THEN Reconciled(j.hook, row) ELSE row
  <2>1. Carry(w, r, Turn(j)) /\ UNCHANGED <<database, gateway, outside, crashes>> /\ j.at = "row"
    BY <1>1 DEF LoadRow, At, j
  <2>2. r \in RowType /\ Sound(r) /\ (row.status # "none" => r.status # "none")
    BY <1>0, ReconciledFacts
  <2> HIDE DEF r
  <2>3. GatewayMoved
    BY <2>1, SameGateway DEF gateway
  <2>4. ASSUME NEW q, q = r PROVE Sound(q)'
    BY <2>2, <2>3, <2>4, SoundStays
  <2>5. JobsMoved
    <3>1. row' = row /\ j.at # "done"
      BY <2>1 DEF database
    <3>2. ASSUME NEW q \in RowType, q = r, NEW at \in Steps, at = Turn(j) PROVE JobsMoved
      BY <1>0, <2>1, <2>2, <2>3, <2>4, <3>1, <3>2, TurnFacts, CarryTyped DEF j
    <3> QED BY <1>0, <2>2, <3>2, TurnFacts
  <2> QED BY <2>1, <2>3, <2>5, JobOnly
<1>2. CASE PlaceHold(w)
  <2>1. PICK r \in Ref, ok \in BOOLEAN :
          /\ Authorize(w, "rental", Total, r, ok)
          /\ Carry(w, [status |-> IF ok THEN "authorized" ELSE "failed",
                       ref |-> IF ok THEN r ELSE 0, amount |-> Total, refunded |-> 0], "insert")
    BY <1>2 DEF PlaceHold
  <2>2. UNCHANGED <<database, outside, crashes>> /\ job[w].at = "place"
    BY <1>2 DEF PlaceHold, At
  <2>3. GatewayMoved /\ (ok => intent'[r].use = "rental")
    BY <1>0, <2>1, AuthorizeFacts
  <2>4. PICK q \in RowType : Carry(w, q, "insert") /\ q.status # "none" /\ Sound(q)'
    <3> DEFINE q == [status |-> IF ok THEN "authorized" ELSE "failed",
                     ref |-> IF ok THEN r ELSE 0, amount |-> Total, refunded |-> 0]
    <3>1. q \in RowType
      BY <1>0, PaymentAssumption DEF RowType, Status, Amount
    <3>2. Carry(w, q, "insert") /\ q.status # "none"
      BY <2>1
    <3>3. Sound(q)'
      BY <1>0, <2>3, PaymentAssumption DEF Sound
    <3> QED BY <3>1, <3>2, <3>3
  <2>5. JobsMoved
    BY <2>2, <2>3, <2>4, CarryTyped DEF Steps, Writing, database
  <2> QED BY <2>2, <2>3, <2>5, JobOnly
<1>3. CASE ReleaseHold(w)
  <2>1. PICK ok \in BOOLEAN :
          Refund(c.ref, c.amount, ok) /\ Goto(w, IF ok THEN "replace" ELSE "done")
    BY <1>3 DEF ReleaseHold, c
  <2>2. UNCHANGED <<database, outside, crashes>> /\ job[w].at = "release"
    BY <1>3 DEF ReleaseHold, At
  <2>3. GatewayMoved
    BY <1>0, <2>1, RefundFacts
  <2>4. JobsMoved
    BY <2>1, <2>2, <2>3, GotoTyped DEF Steps, Writing, database
  <2> QED BY <2>2, <2>3, <2>4, JobOnly
<1>4. CASE ReplaceHold(w)
  <2>1. PICK r \in Ref, ok \in BOOLEAN :
          /\ Authorize(w, "rental", NewTotal, r, ok)
          /\ Carry(w, IF ok THEN [c EXCEPT !.ref = r] ELSE [c EXCEPT !.status = "failed"], "write")
    BY <1>4 DEF ReplaceHold, c
  <2>2. UNCHANGED <<database, outside, crashes>> /\ job[w].at = "replace"
    BY <1>4 DEF ReplaceHold, At
  <2>3. GatewayMoved /\ (ok => intent'[r].use = "rental")
    BY <1>0, <2>1, AuthorizeFacts
  <2>4. c.status # "none" /\ row.status # "none"
    BY <1>0, <2>2 DEF SoundJob, Writing, j, c
  <2>5. ASSUME NEW z, z = c PROVE Sound(z)'
    BY <1>0, <2>3, <2>5, SoundStays
  <2>6. PICK q \in RowType : Carry(w, q, "write") /\ q.status # "none" /\ Sound(q)'
    <3>1. CASE ok
      <4>1. /\ [c EXCEPT !.ref = r] \in RowType /\ [c EXCEPT !.ref = r].status # "none"
            /\ Carry(w, [c EXCEPT !.ref = r], "write")
        BY <1>0, <2>1, <2>4, <3>1 DEF RowType
      <4>2. ASSUME NEW q, q = [c EXCEPT !.ref = r] PROVE Sound(q)'
        BY <1>0, <2>3, <2>4, <3>1, <4>2 DEF Sound, RowType
      <4> QED BY <4>1, <4>2
    <3>2. CASE ~ok
      <4>1. /\ [c EXCEPT !.status = "failed"] \in RowType
            /\ [c EXCEPT !.status = "failed"].status # "none"
            /\ Carry(w, [c EXCEPT !.status = "failed"], "write")
        BY <1>0, <2>1, <2>4, <3>2 DEF RowType, Status
      <4>2. ASSUME NEW q, q = [c EXCEPT !.status = "failed"], NEW z, z = c PROVE Sound(q)'
        BY <1>0, <2>4, <2>5, <3>2, <4>2 DEF Sound, RowType
      <4> QED BY <4>1, <4>2
    <3> QED BY <3>1, <3>2
  <2>7. JobsMoved
    BY <2>2, <2>3, <2>4, <2>6, CarryTyped DEF Steps, database
  <2> QED BY <2>2, <2>3, <2>7, JobOnly
<1>5. CASE Charge(w)
  <2>1. PICK ok \in BOOLEAN :
          /\ Capture(c.ref, ok)
          /\ \/ c.status = "authorized" /\ Carry(w, [c EXCEPT !.status = "captured"], "write")
             \/ Goto(w, "hold")
    BY <1>5 DEF Charge, c
  <2>2. UNCHANGED <<database, outside, crashes>> /\ job[w].at = "charge"
    BY <1>5 DEF Charge, At
  <2>3. GatewayMoved
    BY <1>0, <2>1, CaptureFacts
  <2>4. row.status # "none"
    BY <1>0, <2>2 DEF SoundJob, Writing, j
  <2>5. CASE Goto(w, "hold")
    <3>1. JobsMoved
      BY <2>2, <2>3, <2>5, GotoTyped DEF Steps, Writing, database
    <3> QED BY <2>2, <2>3, <3>1, JobOnly
  <2>6. CASE c.status = "authorized" /\ Carry(w, [c EXCEPT !.status = "captured"], "write")
    <3>1. PICK q \in RowType : Carry(w, q, "write") /\ q.status # "none" /\ Sound(q)
      BY <1>0, <2>6 DEF RowType, Status, Sound
    <3>2. Sound(q)'
      BY <2>3, <3>1, SoundStays
    <3>3. JobsMoved
      BY <2>2, <2>3, <2>4, <3>1, <3>2, CarryTyped DEF Steps, database
    <3> QED BY <2>2, <2>3, <3>3, JobOnly
  <2> QED BY <2>1, <2>5, <2>6
<1>6. CASE ReturnMoney(w)
  <2> DEFINE owed == Owed(c)
             q == [c EXCEPT !.status = "refunded", !.refunded = owed]
  <2>1. PICK ok \in BOOLEAN : Refund(c.ref, owed, ok) /\ (Carry(w, q, "write") \/ Goto(w, "hold"))
    BY <1>6 DEF ReturnMoney, c
  <2>2. UNCHANGED <<database, outside, crashes>> /\ job[w].at = "return"
    BY <1>6 DEF ReturnMoney, At
  <2>3. c.status # "none" /\ row.status # "none" /\ c.amount = Total
    BY <1>0, <2>2 DEF SoundJob, Writing, Sound, j, c
  <2>4. owed \in Nat /\ owed <= Total /\ owed \in Amount
    BY <1>0, <2>3, PaymentAssumption DEF Owed, Amount
  <2> HIDE DEF owed
  <2>5. GatewayMoved
    BY <1>0, <2>1, <2>4, RefundFacts
  <2>6. q \in RowType /\ q.status # "none" /\ Sound(q)
    BY <1>0, <2>3, <2>4 DEF RowType, Status, Sound
  <2> HIDE DEF q
  <2>7. CASE Carry(w, q, "write")
    <3>1. PICK z \in RowType : Carry(w, z, "write") /\ z.status # "none" /\ Sound(z)
      BY <2>6, <2>7
    <3>2. Sound(z)'
      BY <2>5, <3>1, SoundStays
    <3>3. JobsMoved
      BY <2>2, <2>3, <2>5, <3>1, <3>2, CarryTyped DEF Steps, database
    <3> QED BY <2>2, <2>5, <3>3, JobOnly
  <2>8. CASE Goto(w, "hold")
    <3>1. JobsMoved
      BY <2>2, <2>5, <2>8, GotoTyped DEF Steps, Writing, database
    <3> QED BY <2>2, <2>5, <3>1, JobOnly
  <2> QED BY <2>1, <2>7, <2>8
<1>7. CASE AwardRefund(w)
  <2> DEFINE q == Credited(c, j.refund)
  <2>1. PICK ok \in BOOLEAN :
          /\ Refund(c.ref, j.refund, ok)
          /\ \/ Acceptable(c, j.refund) /\ Carry(w, q, "write")
             \/ Goto(w, "done")
    BY <1>7 DEF AwardRefund, c, j
  <2>2. UNCHANGED <<database, outside, crashes>> /\ job[w].at = "return"
    BY <1>7 DEF AwardRefund, At
  <2>3. row.status # "none"
    BY <1>0, <2>2 DEF SoundJob, Writing, j
  <2>4. GatewayMoved
    BY <1>0, <2>1, RefundFacts
  <2>5. CASE Acceptable(c, j.refund) /\ Carry(w, q, "write")
    <3>1. c.refunded \in Nat /\ c.refunded + j.refund <= c.amount /\ c.status # "none" /\ c.amount = Total
      BY <1>0, <2>5, PaymentAssumption DEF Acceptable, RowType, Amount, Sound
    <3>2. c.refunded + j.refund \in Amount
      BY <1>0, <3>1, PaymentAssumption DEF Amount
    <3>3. q \in RowType /\ q.status # "none" /\ Sound(q)
      BY <1>0, <3>1, <3>2 DEF Credited, RowType, Status, Sound
    <3> HIDE DEF q
    <3>4. PICK z \in RowType : Carry(w, z, "write") /\ z.status # "none" /\ Sound(z)
      BY <2>5, <3>3
    <3>5. Sound(z)'
      BY <2>4, <3>4, SoundStays
    <3>6. JobsMoved
      BY <2>2, <2>3, <2>4, <3>4, <3>5, CarryTyped DEF Steps, database
    <3> QED BY <2>2, <2>4, <3>6, JobOnly
  <2>6. CASE Goto(w, "done")
    <3>1. JobsMoved
      BY <2>2, <2>4, <2>6, GotoTyped DEF Steps, Writing, database
    <3> QED BY <2>2, <2>4, <3>1, JobOnly
  <2> QED BY <2>1, <2>5, <2>6
<1> QED BY <1>1, <1>2, <1>3, <1>4, <1>5, <1>6, <1>7

\* The update writes the copy back, since the amounts agree.
LEMMA WrittenFacts ==
  ASSUME Typed, NEW r \in RowType, Sound(r), r.status # "none", row.status # "none"
  PROVE  Written(r) = r
<1>1. row \in RowType /\ row.amount = r.amount
  BY DEF Typed, TypeOK, Shape, Sound
<1> QED BY <1>1 DEF Written, RowType

\* Writing a sound row.
LEMMA RowWritten ==
  ASSUME Typed, NEW r \in RowType, Sound(r), r.status # "none" \/ row.status = "none", row' = r,
         UNCHANGED <<gateway, hold, case>>,
         refunds' \in [Dispute -> 0 .. Total], claims' \subseteq Dispute
  PROVE  GatewayMoved /\ TablesMoved
<1>1. GatewayMoved
  BY SameGateway DEF gateway
<1>2. Sound(row)'
  <2>1. Sound(r)'
    BY <1>1, SoundStays
  <2> QED BY <2>1 DEF Sound
<1>3. hold'.ref # 0 => intent'[hold'.ref].use = "deposit"
  BY DEF Typed, TypeOK, gateway
<1> QED BY <1>1, <1>2, <1>3 DEF TablesMoved, Typed, TypeOK

\* Jobs that write the payments row.
LEMMA RowWritersTyped ==
  ASSUME Typed, NEW w \in Worker, InsertRow(w) \/ UpdateRow(w) \/ RecordClaim(w)
  PROVE  Typed'
<1> DEFINE j == job[w]
           c == job[w].row
<1>0. /\ j \in JobType /\ SoundJob(j) /\ c \in RowType /\ Sound(c) /\ c = j.row
      /\ j.refund \in 0 .. Total /\ row \in RowType /\ Sound(row)
      /\ refunds \in [Dispute -> 0 .. Total] /\ claims \subseteq Dispute
  BY JobFacts DEF Typed, TypeOK, Shape
<1> HIDE DEF j, c
<1>1. CASE InsertRow(w)
  <2>1. /\ row' = (IF row.status = "none" THEN c ELSE row) /\ Goto(w, "done") /\ job[w].at = "insert"
        /\ UNCHANGED <<hold, refunds, claims, case, gateway, outside, crashes>>
    BY <1>1 DEF InsertRow, At, c
  <2>2. GatewayMoved /\ TablesMoved
    <3>1. CASE row.status = "none"
      BY <1>0, <2>1, <3>1, RowWritten
    <3>2. CASE row.status # "none"
      BY <1>0, <2>1, <3>2, RowWritten
    <3> QED BY <3>1, <3>2
  <2>3. JobsMoved
    BY <2>1, <2>2, GotoTyped DEF Steps, Writing, TablesMoved
  <2> QED BY <2>1, <2>2, <2>3, TableOnly
<1>2. CASE UpdateRow(w)
  <2>1. job[w].at = "write" /\ UNCHANGED <<hold, claims, case, gateway, outside, crashes>>
    BY <1>2 DEF UpdateRow, At
  <2>2. c.status # "none" /\ row.status # "none"
    BY <1>0, <2>1 DEF SoundJob, Writing, j
  <2>3. Written(c) = c
    BY <1>0, <2>2, WrittenFacts
  <2>4. CASE Goto(w, "done") /\ UNCHANGED <<row, refunds>>
    <3>1. GatewayMoved /\ TablesMoved
      BY <1>0, <2>1, <2>2, <2>4, RowWritten
    <3>2. JobsMoved
      BY <2>1, <2>4, <3>1, GotoTyped DEF Steps, Writing
    <3> QED BY <2>1, <3>1, <3>2, TableOnly
  <2>5. CASE /\ row' = Written(c)
             /\ refunds' = IF j.op = "resolve" THEN [refunds EXCEPT ![j.d] = j.refund] ELSE refunds
             /\ \E at \in {"hold", "decide", "done"} : Goto(w, at)
    <3>1. refunds' \in [Dispute -> 0 .. Total]
      BY <1>0, <2>5
    <3>2. GatewayMoved /\ TablesMoved
      BY <1>0, <2>1, <2>2, <2>3, <2>5, <3>1, RowWritten
    <3>3. JobsMoved
      BY <2>1, <2>5, <3>2, GotoTyped DEF Steps, Writing, TablesMoved
    <3> QED BY <2>1, <3>2, <3>3, TableOnly
  <2> QED BY <1>2, <2>4, <2>5 DEF UpdateRow, AfterRefund, j, c
<1>3. CASE RecordClaim(w)
  <2>1. /\ job[w].at = "claim" /\ UNCHANGED <<hold, refunds, case, gateway, outside, crashes>>
        /\ \/ Goto(w, "done") /\ UNCHANGED <<row, claims>>
           \/ row' = Written(c) /\ claims' = claims \cup {j.d} /\ Goto(w, "decide")
    BY <1>3 DEF RecordClaim, At, j, c
  <2>2. c.status # "none" /\ row.status # "none" /\ j.d \in Dispute
    BY <1>0, <2>1 DEF SoundJob, Writing, j
  <2>3. Written(c) = c
    BY <1>0, <2>2, WrittenFacts
  <2>4. row' \in {row, c} /\ claims' \subseteq Dispute /\ \E at \in {"decide", "done"} : Goto(w, at)
    BY <1>0, <2>1, <2>2, <2>3
  <2>5. GatewayMoved /\ TablesMoved
    BY <1>0, <2>1, <2>2, <2>4, RowWritten
  <2>6. JobsMoved
    BY <2>1, <2>4, <2>5, GotoTyped DEF Steps, Writing, TablesMoved
  <2> QED BY <2>1, <2>5, <2>6, TableOnly
<1> QED BY <1>1, <1>2, <1>3

\* Jobs about the deposit, and the end of a decision.
LEMMA HoldJobsTyped ==
  ASSUME Typed, NEW w \in Worker,
         LoadHold(w) \/ PlaceDeposit(w) \/ InsertDeposit(w) \/ ReturnDeposit(w) \/ WriteDeposit(w)
           \/ ChargeDeposit(w) \/ RecordDeposit(w) \/ LoadOverflow(w) \/ Decide(w)
  PROVE  Typed'
<1> DEFINE j == job[w]
           h == job[w].hold
<1>0. /\ j \in JobType /\ SoundJob(j) /\ Sane /\ h \in HoldType /\ h.ref \in Ref \cup {0} /\ h = j.hold
      /\ h.ref # 0 => intent[h.ref].use # "none"
      /\ hold \in HoldType /\ (hold.ref # 0 => intent[hold.ref].use = "deposit")
      /\ row \in RowType /\ Sound(row) /\ Deposit \in Nat
      /\ case \in [Dispute -> {"none", "open", "resolved", "rejected"}]
      /\ h.ref # 0 => intent[h.ref].use = "deposit"
  BY JobFacts, PaymentAssumption DEF HoldType, Typed, TypeOK, Shape, SoundJob
<1> HIDE DEF j, h
<1>1. CASE LoadHold(w)
  <2>1. /\ job[w].at = "hold" /\ UNCHANGED <<database, gateway, outside, crashes>>
        /\ \E at \in {"placeDeposit", "done", "chargeDeposit", "overflow", "returnDeposit"} :
             CarryHold(w, hold, at) /\ (at = "overflow" => job[w].op = "resolve")
    <3>1. /\ job[w].at = "hold" /\ UNCHANGED <<database, gateway, outside, crashes>>
          /\ CarryHold(w, hold,
               CASE job[w].op = "confirmed" -> IF hold.status = "none" /\ Deposit > 0
                                          THEN "placeDeposit" ELSE "done"
                 [] job[w].op = "resolve"   -> IF hold.status = "authorized"
                                          THEN "chargeDeposit" ELSE "overflow"
                 [] OTHER -> IF hold.status = "authorized" THEN "returnDeposit" ELSE "done")
      BY <1>1 DEF LoadHold, At
    <3> QED BY <3>1
  <2>2. GatewayMoved
    BY <2>1, SameGateway DEF gateway
  <2>3. hold.ref # 0 => intent'[hold.ref].use = "deposit"
    BY <1>0, <2>1 DEF gateway
  <2>4. JobsMoved
    <3>1. PICK at \in {"placeDeposit", "done", "chargeDeposit", "overflow", "returnDeposit"} :
            CarryHold(w, hold, at) /\ (at = "overflow" => job[w].op = "resolve")
      BY <2>1
    <3>2. at \in Steps /\ at \notin Writing /\ at # "insert" /\ job[w].at # "done" /\ row' = row
      BY <2>1 DEF Steps, Writing, database
    <3>3. ASSUME NEW k \in HoldType, k = hold PROVE JobsMoved
      BY <1>0, <2>2, <2>3, <3>1, <3>2, <3>3, CarryHoldTyped
    <3> QED BY <1>0, <3>3
  <2> QED BY <2>1, <2>2, <2>4, JobOnly
<1>2. CASE PlaceDeposit(w)
  <2>1. PICK r \in Ref, ok \in BOOLEAN :
          /\ Authorize(w, "deposit", Deposit, r, ok)
          /\ CarryHold(w, [status |-> IF ok THEN "authorized" ELSE "failed",
                           ref |-> IF ok THEN r ELSE 0], "insertDeposit")
    BY <1>2 DEF PlaceDeposit
  <2>2. UNCHANGED <<database, outside, crashes>> /\ job[w].at = "placeDeposit"
    BY <1>2 DEF PlaceDeposit, At
  <2>3. GatewayMoved /\ (ok => intent'[r].use = "deposit")
    BY <1>0, <2>1, AuthorizeFacts
  <2>4. PICK k \in HoldType : /\ CarryHold(w, k, "insertDeposit")
                              /\ k.ref # 0 => intent'[k.ref].use = "deposit"
    <3> DEFINE k == [status |-> IF ok THEN "authorized" ELSE "failed", ref |-> IF ok THEN r ELSE 0]
    <3>1. k \in HoldType /\ (k.ref # 0 => intent'[k.ref].use = "deposit")
      BY <2>3 DEF HoldType
    <3> QED BY <2>1, <3>1
  <2>5. JobsMoved
    BY <2>2, <2>3, <2>4, CarryHoldTyped DEF Steps, Writing, database
  <2> QED BY <2>2, <2>3, <2>5, JobOnly
<1>3. CASE InsertDeposit(w) \/ WriteDeposit(w)
  <2>1. /\ job[w].at \in {"insertDeposit", "writeDeposit"} /\ Goto(w, "done")
        /\ UNCHANGED <<row, refunds, claims, case, gateway, outside, crashes>>
        /\ hold' \in HoldType /\ (hold'.ref # 0 => intent'[hold'.ref].use = "deposit")
    <3>1. CASE InsertDeposit(w)
      BY <1>0, <3>1 DEF InsertDeposit, At, h, gateway
    <3>2. CASE WriteDeposit(w)
      BY <1>0, <3>2 DEF WriteDeposit, At, HoldType, gateway
    <3> QED BY <1>3, <3>1, <3>2
  <2>2. GatewayMoved
    BY <2>1, SameGateway DEF gateway
  <2>3. TablesMoved
    <3>1. Sound(row)'
      BY <1>0, <2>1 DEF Sound, gateway
    <3> QED BY <2>1, <3>1 DEF TablesMoved, Typed, TypeOK
  <2>4. JobsMoved
    BY <2>1, <2>2, GotoTyped DEF Steps, Writing
  <2> QED BY <2>1, <2>3, <2>4, TableOnly
<1>4. CASE ReturnDeposit(w)
  <2>1. PICK ok \in BOOLEAN :
          Refund(h.ref, Deposit, ok) /\ Goto(w, IF ok THEN "writeDeposit" ELSE "done")
    BY <1>4 DEF ReturnDeposit, h
  <2>2. UNCHANGED <<database, outside, crashes>> /\ job[w].at = "returnDeposit"
    BY <1>4 DEF ReturnDeposit, At
  <2>3. GatewayMoved
    BY <1>0, <2>1, RefundFacts
  <2>4. JobsMoved
    BY <2>1, <2>2, <2>3, GotoTyped DEF Steps, Writing, database
  <2> QED BY <2>2, <2>3, <2>4, JobOnly
<1>5. CASE ChargeDeposit(w)
  <2>1. PICK ok \in BOOLEAN : Capture(h.ref, ok) /\ Goto(w, "recordDeposit")
    BY <1>5 DEF ChargeDeposit, h
  <2>2. UNCHANGED <<database, outside, crashes>> /\ job[w].at = "chargeDeposit"
    BY <1>5 DEF ChargeDeposit, At
  <2>3. GatewayMoved
    BY <1>0, <2>1, CaptureFacts
  <2>4. JobsMoved
    BY <2>1, <2>2, <2>3, GotoTyped DEF Steps, Writing, database
  <2> QED BY <2>2, <2>3, <2>4, JobOnly
<1>6. CASE RecordDeposit(w)
  <2>1. /\ job[w].at = "recordDeposit" /\ Goto(w, "done")
        /\ UNCHANGED <<database, gateway, outside, crashes>>
    BY <1>6 DEF RecordDeposit, At
  <2>2. GatewayMoved
    BY <2>1, SameGateway DEF gateway
  <2>3. JobsMoved
    BY <2>1, <2>2, GotoTyped DEF Steps, Writing, database
  <2> QED BY <2>1, <2>2, <2>3, JobOnly
<1>7. CASE LoadOverflow(w)
  <2>1. /\ job[w].at = "overflow" /\ UNCHANGED <<database, gateway, outside, crashes>>
        /\ \E at \in {"done", "decide", "claim"} :
             Carry(w, row, at) /\ (at = "claim" => row.status # "none")
    <3>1. /\ job[w].at = "overflow" /\ UNCHANGED <<database, gateway, outside, crashes>>
          /\ Carry(w, row, IF row.status = "none" THEN "done"
                           ELSE IF job[w].d \in claims THEN "decide" ELSE "claim")
      BY <1>7 DEF LoadOverflow, At
    <3> QED BY <3>1
  <2>2. GatewayMoved
    BY <2>1, SameGateway DEF gateway
  <2>3. Sound(row)'
    BY <1>0, <2>1 DEF Sound, gateway, database
  <2>4. JobsMoved
    <3>1. PICK at \in {"done", "decide", "claim"} :
            Carry(w, row, at) /\ (at = "claim" => row.status # "none")
      BY <2>1
    <3>2. /\ at \in Steps /\ (at \in Writing => at = "claim") /\ at # "insert" /\ job[w].at # "done"
          /\ row' = row /\ job[w].op = "resolve"
      BY <1>0, <2>1 DEF Steps, Writing, database, SoundJob, j
    <3>3. ASSUME NEW r \in RowType, r = row PROVE JobsMoved
      <4>1. Sound(r)'
        BY <1>0, <2>2, <3>3, SoundStays
      <4> QED BY <2>2, <3>1, <3>2, <3>3, <4>1, CarryTyped
    <3> QED BY <1>0, <3>3
  <2> QED BY <2>1, <2>2, <2>4, JobOnly
<1>8. CASE Decide(w)
  <2>1. /\ job[w].at = "decide" /\ Goto(w, "done")
        /\ UNCHANGED <<row, hold, refunds, claims, gateway, outside, crashes>>
        /\ case' \in [Dispute -> {"none", "open", "resolved", "rejected"}]
    BY <1>0, <1>8 DEF Decide, At
  <2>2. GatewayMoved
    BY <2>1, SameGateway DEF gateway
  <2>3. TablesMoved
    <3>1. Sound(row)'
      BY <1>0, <2>1 DEF Sound, gateway
    <3>2. hold'.ref # 0 => intent'[hold'.ref].use = "deposit"
      BY <1>0, <2>1 DEF gateway
    <3> QED BY <2>1, <3>1, <3>2 DEF TablesMoved, Typed, TypeOK
  <2>4. JobsMoved
    BY <2>1, <2>2, GotoTyped DEF Steps, Writing
  <2> QED BY <2>1, <2>3, <2>4, TableOnly
<1> QED BY <1>1, <1>2, <1>3, <1>4, <1>5, <1>6, <1>7, <1>8

\* Jobs that arrive know nothing yet.
LEMMA ArriveShape ==
  ASSUME Typed, NEW w \in Worker, Arrive(w)
  PROVE  \E j \in JobType :
           /\ job[w] = Idle /\ job' = [job EXCEPT ![w] = j]
           /\ UNCHANGED <<database, gateway, outside, crashes>>
           /\ j.row = NoRow /\ j.hold = NoHold /\ (j.hook = NoHook \/ j.hook \in hooks)
           /\ j.at \in {"row", "hold", "decide"}
           /\ j.op = "resolve" => j.d \in Dispute /\ (j.at # "row" => j.refund = 0)
           /\ j.op \in {"resolve", "reject"} => j.d \in Dispute
<1>0. /\ Idle \in JobType /\ Idle.row = NoRow /\ Idle.hold = NoHold /\ Idle.hook = NoHook
      /\ Idle.refund = 0
  BY BlankTypes DEF Idle
<1>1. CASE Deliver(w)
  <2>1. PICK e \in due : Start(w, Job(e, IF e = "completed" THEN "hold" ELSE "row"))
    BY <1>1 DEF Deliver
  <2>2. e \in Event
    BY DEF Typed, TypeOK
  <2> DEFINE x == IF e = "completed" THEN "hold" ELSE "row"
             j == Job(e, x)
  <2>0. x \in {"row", "hold"} /\ x \in Steps
    BY DEF Steps
  <2> HIDE DEF x
  <2>3. /\ j \in JobType /\ j.row = NoRow /\ j.hold = NoHold /\ j.hook = NoHook
        /\ j.at \in {"row", "hold"} /\ j.op \notin {"resolve", "reject"}
    BY <1>0, <2>0, <2>2 DEF Job, JobType, Event
  <2> QED BY <2>1, <2>3 DEF Start, x
<1>2. CASE Webhook(w)
  <2>1. PICK h \in hooks : Start(w, [Job("webhook", "row") EXCEPT !.hook = h])
    BY <1>2 DEF Webhook
  <2>2. h \in HookType
    BY DEF Typed, TypeOK
  <2> DEFINE j == [Job("webhook", "row") EXCEPT !.hook = h]
  <2> DEFINE k == Job("webhook", "row")
  <2>0. /\ k \in JobType /\ k.row = NoRow /\ k.hold = NoHold /\ k.at = "row"
        /\ k.op = "webhook"
    <3>1. "row" \in Steps
      BY DEF Steps
    <3> QED BY <1>0, <3>1 DEF Job, JobType
  <2> HIDE DEF k
  <2>3. /\ j \in JobType /\ j.row = NoRow /\ j.hold = NoHold /\ j.hook = h
        /\ j.at = "row" /\ j.op \notin {"resolve", "reject"}
    <3>1. j = [k EXCEPT !.hook = h]
      BY DEF k
    <3> HIDE DEF j
    <3> QED BY <2>0, <2>2, <3>1 DEF JobType
  <2> QED BY <2>1, <2>3 DEF Start
<1>3. CASE Resolve(w)
  <2>1. PICK d \in Dispute, refund \in Awards, damage \in BOOLEAN :
          Start(w, [Job("resolve", IF refund > 0 THEN "row" ELSE IF damage THEN "hold" ELSE "decide")
                      EXCEPT !.d = d, !.refund = refund, !.damage = damage, !.seen = case[d]])
    BY <1>3 DEF Resolve
  <2>2. refund \in 0 .. Total /\ refund \in Nat /\ case[d] \in {"none", "open", "resolved", "rejected"}
    BY PaymentAssumption DEF Typed, TypeOK
  <2> DEFINE x == IF refund > 0 THEN "row" ELSE IF damage THEN "hold" ELSE "decide"
             j == [Job("resolve", x)
                     EXCEPT !.d = d, !.refund = refund, !.damage = damage, !.seen = case[d]]
  <2>0. x \in {"row", "hold", "decide"} /\ x \in Steps /\ (x # "row" => refund = 0)
    BY <2>2 DEF Steps
  <2> HIDE DEF x
  <2>3. /\ j \in JobType /\ j.row = NoRow /\ j.hold = NoHold /\ j.hook = NoHook
        /\ j.at \in {"row", "hold", "decide"} /\ (j.at # "row" => j.refund = 0) /\ j.d \in Dispute
    BY <1>0, <2>0, <2>2 DEF Job, JobType
  <2> QED BY <2>1, <2>3 DEF Start, x
<1>4. CASE Reject(w)
  <2>1. PICK d \in Dispute :
          Start(w, [Job("reject", "decide") EXCEPT !.d = d, !.seen = case[d]])
    BY <1>4 DEF Reject
  <2>2. case[d] \in {"none", "open", "resolved", "rejected"}
    BY DEF Typed, TypeOK
  <2> DEFINE j == [Job("reject", "decide") EXCEPT !.d = d, !.seen = case[d]]
  <2>3. /\ j \in JobType /\ j.row = NoRow /\ j.hold = NoHold /\ j.hook = NoHook
        /\ j.at = "decide" /\ j.op = "reject" /\ j.d \in Dispute
    BY <1>0, <2>2 DEF Job, JobType, Steps
  <2> QED BY <2>1, <2>3 DEF Start
<1> QED BY <1>1, <1>2, <1>3, <1>4 DEF Arrive

\* An idle job is sound.
LEMMA IdleIsSound == SoundJob(Idle)
<1>1. /\ Idle.row = NoRow /\ Idle.hold = NoHold /\ Idle.at = "done" /\ NoHold.ref = 0
  BY BlankTypes, BlankIsSound
<1> QED BY <1>1, BlankIsSound DEF SoundJob, Writing

\* Every step keeps the types and the shape of rows and copies.
LEMMA TypeStep ==
  ASSUME Typed, [Next]_vars
  PROVE  Typed'
<1>0. /\ booking \in {"pending", "confirmed", "cancelled", "completed"}
      /\ policy \in 0 .. Total /\ due \subseteq Event /\ crashes \in 0 .. MaxCrashes
      /\ job \in [Worker -> JobType] /\ row \in RowType /\ Sound(row)
  BY DEF Typed, TypeOK, Shape
<1>1. ASSUME NEW w \in Worker, Arrive(w) PROVE Typed'
  <2>1. PICK j \in JobType :
          /\ job' = [job EXCEPT ![w] = j]
          /\ UNCHANGED <<database, gateway, outside, crashes>>
          /\ j.row = NoRow /\ j.hold = NoHold /\ j.at \in {"row", "hold", "decide"}
          /\ j.op = "resolve" => j.d \in Dispute
    BY <1>1, ArriveShape
  <2>2. SoundJob(j)
    BY <2>1, BlankIsSound DEF SoundJob, Writing
  <2>3. GatewayMoved
    BY <2>1, SameGateway DEF gateway
  <2>4. JobsMoved
    BY <2>1, <2>2, <2>3, JobReplaced DEF database
  <2> QED BY <2>1, <2>3, <2>4, JobOnly
<1>2. ASSUME NEW w \in Worker, Finish(w) PROVE Typed'
  <2>1. /\ job' = [job EXCEPT ![w] = Idle] /\ hooks' \subseteq hooks /\ due' \subseteq due
        /\ UNCHANGED <<database, intent, faults, booking, policy, crashes>>
    BY <1>2 DEF Finish
  <2>2. GatewayMoved
    <3>1. Sane
      BY DEF Typed, Shape, Sane
    <3> QED BY <2>1, <3>1, GrownSame DEF GatewayMoved, Typed, TypeOK
  <2>3. JobsMoved
    BY <2>1, <2>2, IdleIsSound, BlankTypes, JobReplaced DEF database
  <2>4. TablesMoved
    BY <2>1, <2>2, SameTables
  <2> QED BY <1>0, <2>1, <2>2, <2>3, <2>4, Assembled
<1>3. ASSUME NEW w \in Worker, Crash(w) PROVE Typed'
  <2>1. /\ job' = [job EXCEPT ![w] = Idle] /\ crashes' \in 0 .. MaxCrashes
        /\ UNCHANGED <<database, gateway, outside>>
    BY <1>0, <1>3, PaymentAssumption DEF Crash
  <2>2. GatewayMoved
    BY <2>1, SameGateway DEF gateway
  <2>3. JobsMoved
    BY <2>1, <2>2, IdleIsSound, BlankTypes, JobReplaced DEF database
  <2>4. TablesMoved
    BY <2>1, <2>2, SameTables
  <2> QED BY <1>0, <2>1, <2>2, <2>3, <2>4, Assembled DEF outside
<1>4. ASSUME NEW w \in Worker, Work(w) PROVE Typed'
  BY <1>2, <1>4, RowJobsTyped, RowWritersTyped, HoldJobsTyped DEF Work
<1>5. CASE (\E d \in Dispute : OpenDispute(d)) \/ Modify \/ Confirm \/ Cancel \/ Complete
           \/ UNCHANGED vars
  <2>1. /\ UNCHANGED <<row, hold, refunds, claims, gateway, job, crashes>>
        /\ case' \in [Dispute -> {"none", "open", "resolved", "rejected"}]
        /\ booking' \in {"pending", "confirmed", "cancelled", "completed"}
        /\ policy' \in 0 .. Total /\ due' \subseteq Event
    <3>1. ASSUME NEW d \in Dispute, OpenDispute(d)
          PROVE  /\ UNCHANGED <<row, hold, refunds, claims, gateway, job, crashes, outside>>
                 /\ case' \in [Dispute -> {"none", "open", "resolved", "rejected"}]
      BY <3>1 DEF OpenDispute, Typed, TypeOK
    <3>2. ASSUME UNCHANGED <<database, gateway, job, crashes>>
          PROVE  /\ UNCHANGED <<row, hold, refunds, claims, gateway, job, crashes>>
                 /\ case' \in [Dispute -> {"none", "open", "resolved", "rejected"}]
      BY <3>2 DEF database, Typed, TypeOK
    <3> QED BY <1>0, <1>5, <3>1, <3>2, PaymentAssumption
            DEF Modify, Confirm, Cancel, Complete, Publish, vars, outside, Event
  <2>2. GatewayMoved
    BY <2>1, SameGateway DEF gateway
  <2>3. TablesMoved
    <3>1. Sound(row)'
      BY <1>0, <2>1 DEF Sound, gateway
    <3>2. hold'.ref # 0 => intent'[hold'.ref].use = "deposit"
      BY <2>1 DEF gateway, Typed, TypeOK
    <3> QED BY <2>1, <3>1, <3>2 DEF TablesMoved, Typed, TypeOK
  <2>4. JobsMoved
    BY <2>1 DEF JobsMoved, SoundJob, Sound, Typed, TypeOK, Shape, gateway
  <2> QED BY <1>0, <2>1, <2>2, <2>3, <2>4, Assembled
<1>6. ASSUME NEW r \in Ref, Decline(r) PROVE Typed'
  <2>1. UNCHANGED <<database, outside, job, crashes>>
    BY <1>6 DEF Decline
  <2>2. GatewayMoved
    <3>1. Sane
      BY DEF Typed, Shape, Sane
    <3> QED BY <1>6, <3>1, DeclineFacts
  <2>3. JobsMoved
    <3>1. ASSUME NEW v \in Worker PROVE SoundJob(job[v])'
      <4>1. job[v] \in JobType /\ SoundJob(job[v]) /\ job'[v] = job[v] /\ row' = row
        BY <1>0, <2>1 DEF Typed, Shape, database
      <4>2. ASSUME NEW i, i = job'[v] PROVE SoundJob(i)'
        BY <2>2, <4>1, <4>2, JobStays
      <4> QED BY <4>2 DEF SoundJob, Sound
    <3> QED BY <1>0, <2>1, <3>1 DEF JobsMoved
  <2> QED BY <2>1, <2>2, <2>3, JobOnly
<1> QED BY <1>1, <1>3, <1>4, <1>5, <1>6 DEF Next, Around

\* The inductive invariant holds in every reachable state.
LEMMA TypedAlways == Spec => []Typed
<1>1. Init => Typed
  <2> SUFFICES ASSUME Init PROVE Typed
    OBVIOUS
  <2>1. /\ NoRow \in RowType /\ NoRow.refunded = 0 /\ NoRow.amount = 0 /\ NoRow.ref = 0
        /\ NoHold \in HoldType /\ NoHold.ref = 0 /\ Idle \in JobType
        /\ Unused \in IntentType /\ Unused.back = 0 /\ Unused.amount = 0 /\ Made(Unused)
    BY BlankTypes, UnusedFacts DEF NoRow, NoHold
  <2>2. TypeOK
    BY <2>1, PaymentAssumption DEF Init, TypeOK, Event
  <2>3. Shape
    BY <2>1, IdleIsSound, BlankIsSound DEF Init, Shape
  <2> QED BY <2>2, <2>3 DEF Typed
<1> QED BY <1>1, TypeStep, PTL DEF Spec

\* Every variable stays in its range, no running total exceeds its amount, and
\* the references in the tables are of their purpose (domain/payment,
\* application/payment).
THEOREM TypeCorrect == Spec => []TypeOK
<1>1. Typed => TypeOK
  BY DEF Typed
<1> QED BY <1>1, TypedAlways, PTL

-----------------------------------------------------------------------------
(* How a step looks from a worker, from the gateway and from the row.        *)

\* After Goto the job has its copies, or none.
LEMMA GotoWent ==
  ASSUME Typed, NEW w \in Worker, NEW at, Goto(w, at)
  PROVE  WentOn(w, at, job[w].row, job[w].hold)
<1>1. job[w] \in JobType /\ job \in [Worker -> JobType]
  BY DEF Typed, TypeOK
<1>2. job'[w] = Going(job[w], at) /\ \A v \in Worker \ {w} : job'[v] = job[v]
  BY <1>1 DEF Goto
<1>3. CASE at = "done"
  BY <1>1, <1>2, <1>3, BlankTypes DEF Going, WentOn, JobType, Idle
<1>4. CASE at # "done"
  BY <1>1, <1>2, <1>4 DEF Going, WentOn, JobType
<1> QED BY <1>3, <1>4

\* After Carry the job has the new copy of the payments row, or none.
LEMMA CarryWent ==
  ASSUME Typed, NEW w \in Worker, NEW at, NEW r, Carry(w, r, at)
  PROVE  WentOn(w, at, r, job[w].hold)
<1> DEFINE j == [job[w] EXCEPT !.row = r]
<1>1. job[w] \in JobType /\ job \in [Worker -> JobType]
  BY DEF Typed, TypeOK
<1>2. job'[w] = Going(j, at) /\ \A v \in Worker \ {w} : job'[v] = job[v]
  BY <1>1 DEF Carry
<1>3. CASE at = "done"
  <2>1. j.op = job[w].op /\ j.hook = job[w].hook
    BY <1>1 DEF JobType
  <2> HIDE DEF j
  <2> QED BY <1>2, <1>3, <2>1, BlankTypes DEF Going, WentOn, Idle
<1>4. CASE at # "done"
  BY <1>1, <1>2, <1>4 DEF Going, WentOn, JobType
<1> QED BY <1>3, <1>4

\* After CarryHold the job has the new copy of the deposit's row, or none.
LEMMA CarryHoldWent ==
  ASSUME Typed, NEW w \in Worker, NEW at, NEW h, CarryHold(w, h, at)
  PROVE  WentOn(w, at, NoRow, h)
<1> DEFINE j == [job[w] EXCEPT !.hold = h, !.row = NoRow]
<1>1. job[w] \in JobType /\ job \in [Worker -> JobType]
  BY DEF Typed, TypeOK
<1>2. job'[w] = Going(j, at) /\ \A v \in Worker \ {w} : job'[v] = job[v]
  BY <1>1 DEF CarryHold
<1>3. CASE at = "done"
  <2>1. j.op = job[w].op /\ j.hook = job[w].hook
    BY <1>1 DEF JobType
  <2> HIDE DEF j
  <2> QED BY <1>2, <1>3, <2>1, BlankTypes DEF Going, WentOn, Idle
<1>4. CASE at # "done"
  BY <1>1, <1>2, <1>4 DEF Going, WentOn, JobType
<1> QED BY <1>3, <1>4

\* A step is of one worker.
LEMMA OneWorks ==
  ASSUME Typed, NEW w \in Worker, Work(w)
  PROVE  \A v \in Worker \ {w} : job'[v] = job[v]
<1>1. job \in [Worker -> JobType]
  BY DEF Typed, TypeOK
<1>2. ASSUME NEW at, Goto(w, at) PROVE \A v \in Worker \ {w} : job'[v] = job[v]
  BY <1>1, <1>2 DEF Goto
<1>3. ASSUME NEW at, NEW r, Carry(w, r, at) PROVE \A v \in Worker \ {w} : job'[v] = job[v]
  BY <1>1, <1>3 DEF Carry
<1>4. ASSUME NEW at, NEW h, CarryHold(w, h, at) PROVE \A v \in Worker \ {w} : job'[v] = job[v]
  BY <1>1, <1>4 DEF CarryHold
<1>5. ASSUME LoadRow(w) \/ PlaceHold(w) \/ InsertRow(w) \/ ReleaseHold(w) \/ ReplaceHold(w)
      PROVE  \A v \in Worker \ {w} : job'[v] = job[v]
  BY <1>2, <1>3, <1>5 DEF LoadRow, PlaceHold, InsertRow, ReleaseHold, ReplaceHold
<1>6. ASSUME Charge(w) \/ ReturnMoney(w) \/ AwardRefund(w) \/ UpdateRow(w)
      PROVE  \A v \in Worker \ {w} : job'[v] = job[v]
  BY <1>2, <1>3, <1>6 DEF Charge, ReturnMoney, AwardRefund, UpdateRow
<1>7. ASSUME LoadHold(w) \/ PlaceDeposit(w) \/ InsertDeposit(w) \/ ReturnDeposit(w) \/ WriteDeposit(w)
      PROVE  \A v \in Worker \ {w} : job'[v] = job[v]
  BY <1>2, <1>4, <1>7 DEF LoadHold, PlaceDeposit, InsertDeposit, ReturnDeposit, WriteDeposit
<1>8. ASSUME \/ ChargeDeposit(w) \/ RecordDeposit(w) \/ LoadOverflow(w) \/ RecordClaim(w) \/ Decide(w)
             \/ Finish(w)
      PROVE  \A v \in Worker \ {w} : job'[v] = job[v]
  BY <1>1, <1>2, <1>3, <1>8 DEF ChargeDeposit, RecordDeposit, LoadOverflow, RecordClaim, Decide, Finish
<1> QED BY <1>5, <1>6, <1>7, <1>8 DEF Work

\* What may happen to a job in a step.
LEMMA JobCases ==
  ASSUME Typed, [Next]_vars, NEW v \in Worker
  PROVE  job'[v] = job[v] \/ job'[v] = Idle \/ Arrive(v) \/ (Work(v) /\ ~Finish(v))
<1>1. job \in [Worker -> JobType]
  BY DEF Typed, TypeOK
<1>2. ASSUME NEW w \in Worker, Arrive(w) PROVE w = v \/ job'[v] = job[v]
  BY <1>1, <1>2, ArriveShape
<1>3. ASSUME NEW w \in Worker, Work(w) PROVE w = v \/ job'[v] = job[v]
  BY <1>3, OneWorks
<1>4. ASSUME NEW w \in Worker, Finish(w) \/ Crash(w) PROVE job'[v] = Idle \/ job'[v] = job[v]
  BY <1>1, <1>4 DEF Finish, Crash
<1>5. ASSUME Around \/ UNCHANGED vars PROVE job' = job
  BY <1>5 DEF Around, Modify, Confirm, Cancel, Complete, Publish, OpenDispute, Decline, vars
<1> QED BY <1>2, <1>3, <1>4, <1>5 DEF Next

\* What each step asks of the gateway it may ask.
LEMMA GatewayStep ==
  ASSUME Typed, [Next]_vars
  PROVE  GatewayMoved
<1>0. Sane /\ policy \in Nat /\ Total \in Nat /\ NewTotal \in Nat /\ Deposit \in Nat
  BY PaymentAssumption DEF Typed, TypeOK, Shape, Sane
<1>1. ASSUME NEW w \in Worker, Work(w) PROVE GatewayMoved
  <2> DEFINE j == job[w]
  <2>1. /\ j.row.ref \in Ref \cup {0} /\ (j.row.ref # 0 => intent[j.row.ref].use # "none")
        /\ j.hold.ref \in Ref \cup {0} /\ (j.hold.ref # 0 => intent[j.hold.ref].use # "none")
        /\ j.row.amount \in Nat /\ j.refund \in Nat /\ Owed(j.row) \in Nat
    BY <1>0, JobFacts DEF RowType, HoldType, Owed
  <2> HIDE DEF j
  <2>2. ASSUME NEW ok \in BOOLEAN, NEW amount \in Nat,
               Refund(j.row.ref, amount, ok) \/ Refund(j.hold.ref, amount, ok)
        PROVE  GatewayMoved
    BY <1>0, <2>1, <2>2, RefundFacts
  <2>3. ASSUME NEW ok \in BOOLEAN, Capture(j.row.ref, ok) \/ Capture(j.hold.ref, ok)
        PROVE  GatewayMoved
    BY <1>0, <2>1, <2>3, CaptureFacts
  <2>4. ASSUME NEW ok \in BOOLEAN, NEW r \in Ref,
               \/ Authorize(w, "rental", Total, r, ok) \/ Authorize(w, "rental", NewTotal, r, ok)
               \/ Authorize(w, "deposit", Deposit, r, ok)
        PROVE  GatewayMoved
    BY <1>0, <2>4, AuthorizeFacts
  <2>5. ASSUME PlaceHold(w) \/ ReplaceHold(w) \/ PlaceDeposit(w) PROVE GatewayMoved
    BY <2>4, <2>5 DEF PlaceHold, ReplaceHold, PlaceDeposit
  <2>6. ASSUME ReleaseHold(w) \/ ReturnMoney(w) \/ AwardRefund(w) \/ ReturnDeposit(w)
        PROVE  GatewayMoved
    BY <1>0, <2>1, <2>2, <2>6 DEF ReleaseHold, ReturnMoney, AwardRefund, ReturnDeposit, j
  <2>7. ASSUME Charge(w) \/ ChargeDeposit(w) PROVE GatewayMoved
    BY <2>3, <2>7 DEF Charge, ChargeDeposit, j
  <2>8. ASSUME Finish(w) PROVE GatewayMoved
    BY <1>0, <2>8, GrownSame DEF Finish, GatewayMoved, Typed, TypeOK
  <2>9. ASSUME \/ LoadRow(w) \/ InsertRow(w) \/ UpdateRow(w) \/ LoadHold(w) \/ InsertDeposit(w)
               \/ WriteDeposit(w) \/ RecordDeposit(w) \/ LoadOverflow(w) \/ RecordClaim(w) \/ Decide(w)
        PROVE  GatewayMoved
    <3>1. UNCHANGED gateway
      BY <2>9 DEF LoadRow, InsertRow, UpdateRow, LoadHold, InsertDeposit, WriteDeposit,
                  RecordDeposit, LoadOverflow, RecordClaim, Decide
    <3> QED BY <3>1, SameGateway DEF gateway
  <2> QED BY <1>1, <2>5, <2>6, <2>7, <2>8, <2>9 DEF Work
<1>2. ASSUME NEW w \in Worker, Arrive(w) \/ Crash(w) PROVE GatewayMoved
  <2>1. UNCHANGED gateway
    BY <1>2, ArriveShape DEF Crash
  <2> QED BY <2>1, SameGateway DEF gateway
<1>3. ASSUME NEW r \in Ref, Decline(r) PROVE GatewayMoved
  BY <1>0, <1>3, DeclineFacts
<1>4. ASSUME (\E d \in Dispute : OpenDispute(d)) \/ Modify \/ Confirm \/ Cancel \/ Complete
             \/ UNCHANGED vars
      PROVE  GatewayMoved
  <2>1. UNCHANGED gateway
    BY <1>4 DEF OpenDispute, Modify, Confirm, Cancel, Complete, Publish, vars
  <2> QED BY <2>1, SameGateway DEF gateway
<1> QED BY <1>1, <1>2, <1>3, <1>4 DEF Next, Around

\* The row is only written over with the copy of a job.
LEMMA RowWrites ==
  ASSUME Typed, [Next]_vars
  PROVE  row' = row \/ \E w \in Worker : row' = job[w].row
<1>1. ASSUME NEW w \in Worker, Work(w) PROVE row' = row \/ row' = job[w].row
  <2> DEFINE c == job[w].row
  <2>1. /\ c \in RowType /\ Sound(c) /\ SoundJob(job[w])
    BY JobFacts
  <2>2. ASSUME job[w].at \in {"write", "claim"} PROVE Written(c) = c
    BY <2>1, <2>2, WrittenFacts DEF SoundJob, Writing
  <2> HIDE DEF c
  <2>3. ASSUME UpdateRow(w) \/ RecordClaim(w) PROVE row' = row \/ row' = c
    BY <2>2, <2>3 DEF UpdateRow, RecordClaim, At, c
  <2>4. ASSUME InsertRow(w) PROVE row' = row \/ row' = c
    BY <2>4 DEF InsertRow, c
  <2>5. ASSUME \/ LoadRow(w) \/ PlaceHold(w) \/ ReleaseHold(w) \/ ReplaceHold(w)
               \/ Charge(w) \/ ReturnMoney(w) \/ AwardRefund(w)
               \/ LoadHold(w) \/ PlaceDeposit(w) \/ InsertDeposit(w) \/ ReturnDeposit(w)
               \/ WriteDeposit(w) \/ ChargeDeposit(w) \/ RecordDeposit(w) \/ LoadOverflow(w)
               \/ Decide(w) \/ Finish(w)
        PROVE  row' = row
    BY <2>5 DEF LoadRow, PlaceHold, ReleaseHold, ReplaceHold, Charge, ReturnMoney, AwardRefund,
                LoadHold, PlaceDeposit, InsertDeposit, ReturnDeposit, WriteDeposit,
                ChargeDeposit, RecordDeposit, LoadOverflow, Decide, Finish, database
  <2> QED BY <1>1, <2>3, <2>4, <2>5 DEF Work, c
<1>2. ASSUME NEW w \in Worker, Arrive(w) \/ Crash(w) PROVE row' = row
  BY <1>2, ArriveShape DEF Crash, database
<1>3. ASSUME Around \/ UNCHANGED vars PROVE row' = row
  BY <1>3 DEF Around, Modify, Confirm, Cancel, Complete, Publish, OpenDispute, Decline, vars, database
<1> QED BY <1>1, <1>2, <1>3 DEF Next

-----------------------------------------------------------------------------
(* Rows, copies of them and webhooks are backed by the gateway.  What backs   *)
(* them only grows, so that a stale copy is as true as a fresh one.           *)

\* What a row, or a copy, says of the gateway.
Backed(r) ==
  /\ r.status \in {"authorized", "captured", "refunded"} => r.ref # 0
  /\ r.status = "captured" => intent[r.ref].captured
  /\ r.status = "refunded" => Held(intent[r.ref]) = 0

BackedJob(j) ==
  /\ Backed(j.row) /\ Tells(j.hook)
  /\ j.at \in {"release", "replace"} => j.row.status = "authorized"
  /\ j.at = "return" /\ j.op = "cancelled" => j.row.status \in {"authorized", "captured"}

RowsAreBacked ==
  /\ Backed(row)
  /\ \A h \in hooks : Tells(h)
  /\ \A w \in Worker : BackedJob(job[w])

\* What is true of the gateway stays true.
LEMMA BackedStays ==
  ASSUME Typed, GatewayMoved, NEW r \in RowType, Sound(r), Backed(r)
  PROVE  Backed(r)'
BY DEF Sound, Backed, GatewayMoved, Grown, RowType

\* What a webhook tells stays true while the gateway grows.
LEMMA TellsStays ==
  ASSUME Typed, GatewayMoved, NEW h \in HookType \cup {NoHook}, Tells(h)
  PROVE  Tells(h)'
BY DEF Tells, GatewayMoved, Grown, HookType, NoHook

\* The blank row and no webhook claim nothing.
LEMMA BlankIsBacked ==
  /\ Backed(NoRow) /\ Backed(NoRow)' /\ Tells(NoHook) /\ Tells(NoHook)' /\ BackedJob(Idle)
  /\ BackedJob(Idle)'
<1>1. Backed(NoRow) /\ Backed(NoRow)' /\ Tells(NoHook) /\ Tells(NoHook)' /\ Idle.hook = NoHook
  BY DEF NoRow, NoHook, Backed, Tells, Idle
<1> QED BY <1>1, BlankTypes DEF BackedJob

\* A webhook makes true what it tells.
LEMMA ReconciledBacked ==
  ASSUME Typed, NEW h \in HookType \cup {NoHook}, Tells(h), Backed(row)
  PROVE  Backed(Reconciled(h, row))
<1>1. row \in RowType
  BY DEF Typed, TypeOK
<1> DEFINE paid == IF h.amount \in 1 .. row.amount THEN h.amount ELSE row.amount
<1> HIDE DEF paid
<1>2. CASE row.ref # h.ref
  BY <1>2 DEF Reconciled
<1>3. CASE row.ref = h.ref /\ h.kind = "captured"
  <2>1. \/ Reconciled(h, row) = row
        \/ Reconciled(h, row) = [row EXCEPT !.status = "captured"] /\ row.status = "authorized"
    BY <1>3 DEF Reconciled
  <2> QED BY <1>1, <1>3, <2>1 DEF RowType, Backed, Tells
<1>4. CASE row.ref = h.ref /\ h.kind = "refunded"
  <2>1. \/ Reconciled(h, row) = row
        \/ /\ Reconciled(h, row) = [row EXCEPT !.status = "refunded", !.refunded = paid]
           /\ row.status \in {"authorized", "captured"}
    BY <1>4 DEF Reconciled, paid
  <2> QED BY <1>1, <1>4, <2>1 DEF RowType, Backed, Tells
<1>5. CASE row.ref = h.ref /\ h.kind \notin {"captured", "refunded"}
  <2>1. \/ Reconciled(h, row) = row
        \/ Reconciled(h, row) = [row EXCEPT !.status = "failed"]
    BY <1>5 DEF Reconciled
  <2> QED BY <1>1, <1>5, <2>1 DEF RowType, Backed
<1> QED BY <1>2, <1>3, <1>4, <1>5

\* Where a job that loaded the row may stand.
LEMMA TurnGuards ==
  ASSUME NEW j
  PROVE  /\ Turn(j) # "replace"
         /\ Turn(j) = "release" => j.op = "modified" /\ row.status = "authorized"
         /\ Turn(j) = "return" /\ j.op = "cancelled" => row.status \in {"authorized", "captured"}
BY DEF Turn, AfterRefund

\* A job that goes on is backed when its copy of the row is.
LEMMA WentOnBacked ==
  ASSUME Typed, Typed', GatewayMoved, NEW w \in Worker, NEW at, NEW r, NEW h,
         BackedJob(job[w]), WentOn(w, at, r, h), Backed(r)',
         at \in {"release", "replace"} => r.status = "authorized",
         at = "return" /\ job[w].op = "cancelled" => r.status \in {"authorized", "captured"}
  PROVE  BackedJob(job[w])'
<1>1. job[w].hook \in HookType \cup {NoHook} /\ Tells(job[w].hook) /\ job'[w].hook = job[w].hook
  BY JobFacts DEF BackedJob, WentOn
<1>2. ASSUME NEW g, g = job'[w].hook PROVE Tells(g)'
  BY <1>1, <1>2, TellsStays
<1>3. Tells(job[w].hook)'
  BY <1>2 DEF Tells
<1>4. Backed(job[w].row)'
  BY BlankIsBacked DEF WentOn, Backed
<1>5. /\ job'[w].at \in {"release", "replace"} => job'[w].row.status = "authorized"
      /\ job'[w].at = "return" /\ job'[w].op = "cancelled" =>
           job'[w].row.status \in {"authorized", "captured"}
  BY DEF WentOn
<1> QED BY <1>3, <1>4, <1>5 DEF BackedJob

\* A job that works stays backed.
LEMMA BackedWork ==
  ASSUME Typed, Typed', GatewayMoved, RowsAreBacked, NEW w \in Worker, Work(w), ~Finish(w)
  PROVE  BackedJob(job[w])'
<1> DEFINE j == job[w]
           c == job[w].row
<1>0. /\ j \in JobType /\ SoundJob(j) /\ Sane /\ c \in RowType /\ Sound(c) /\ c.amount \in Nat
      /\ j.hook \in HookType \cup {NoHook} /\ j.refund \in Nat /\ c.ref \in Ref \cup {0}
      /\ c.ref # 0 => intent[c.ref].use # "none"
      /\ BackedJob(j) /\ Backed(c) /\ Tells(j.hook) /\ Backed(row)
      /\ Total \in Nat /\ NewTotal \in Nat /\ row \in RowType /\ Sound(row) /\ policy \in Nat
  BY JobFacts, PaymentAssumption DEF RowType, Typed, TypeOK, Shape, RowsAreBacked, BackedJob
<1>c. ASSUME NEW z, z = c PROVE Backed(z)'
  BY <1>0, <1>c, BackedStays
<1>g. ASSUME NEW at, Goto(w, at),
             at \in {"release", "replace"} => c.status = "authorized",
             at = "return" /\ j.op = "cancelled" => c.status \in {"authorized", "captured"}
      PROVE  BackedJob(job[w])'
  <2>1. WentOn(w, at, c, j.hold)
    BY <1>g, GotoWent
  <2>2. ASSUME NEW z, z = c, NEW h, h = j.hold PROVE BackedJob(job[w])'
    <3>1. Backed(z)'
      BY <1>c, <2>2
    <3>2. WentOn(w, at, z, h)
      BY <2>1, <2>2
    <3> QED BY <1>0, <1>g, <2>2, <3>1, <3>2, WentOnBacked
  <2> QED BY <2>2
<1>k. ASSUME NEW at, NEW r, Carry(w, r, at), Backed(r)',
             at \in {"release", "replace"} => r.status = "authorized",
             at = "return" /\ j.op = "cancelled" => r.status \in {"authorized", "captured"}
      PROVE  BackedJob(job[w])'
  <2>1. WentOn(w, at, r, j.hold)
    BY <1>k, CarryWent
  <2>2. ASSUME NEW h, h = j.hold PROVE BackedJob(job[w])'
    BY <1>0, <1>k, <2>1, <2>2, WentOnBacked
  <2> QED BY <2>2
<1>h. ASSUME NEW at, NEW h, CarryHold(w, h, at), at \notin {"release", "replace", "return"}
      PROVE  BackedJob(job[w])'
  <2>1. WentOn(w, at, NoRow, h)
    BY <1>h, CarryHoldWent
  <2> QED BY <1>0, <1>h, <2>1, BlankIsBacked, WentOnBacked
<1> HIDE DEF j, c
<1>1. CASE LoadRow(w)
  <2> DEFINE r == IF j.op = "webhook" THEN Reconciled(j.hook, row) ELSE row
  <2>1. Carry(w, r, Turn(j))
    BY <1>1 DEF LoadRow, j
  <2>2. r \in RowType /\ Sound(r) /\ Backed(r)
    BY <1>0, ReconciledFacts, ReconciledBacked
  <2>3. /\ Turn(j) \in {"release", "replace"} => r.status = "authorized"
        /\ Turn(j) = "return" /\ j.op = "cancelled" => r.status \in {"authorized", "captured"}
    BY TurnGuards
  <2> HIDE DEF r
  <2>4. ASSUME NEW z, z = r, NEW at, at = Turn(j) PROVE BackedJob(job[w])'
    <3>1. Backed(z)'
      BY <2>2, <2>4, BackedStays
    <3> QED BY <1>k, <2>1, <2>3, <2>4, <3>1
  <2> QED BY <2>4
<1>2. CASE PlaceHold(w)
  <2>1. PICK r \in Ref, ok \in BOOLEAN :
          Carry(w, [status |-> IF ok THEN "authorized" ELSE "failed",
                    ref |-> IF ok THEN r ELSE 0, amount |-> Total, refunded |-> 0], "insert")
    BY <1>2 DEF PlaceHold
  <2> DEFINE z == [status |-> IF ok THEN "authorized" ELSE "failed",
                   ref |-> IF ok THEN r ELSE 0, amount |-> Total, refunded |-> 0]
  <2>2. Backed(z)'
    BY PaymentAssumption DEF Backed
  <2> QED BY <1>k, <2>1, <2>2
<1>3. CASE ReplaceHold(w)
  <2>1. PICK r \in Ref, ok \in BOOLEAN :
          Carry(w, IF ok THEN [c EXCEPT !.ref = r] ELSE [c EXCEPT !.status = "failed"], "write")
    BY <1>3 DEF ReplaceHold, c
  <2>2. c.status = "authorized"
    BY <1>0, <1>3 DEF BackedJob, ReplaceHold, At, j, c
  <2>3. ASSUME NEW z, z = IF ok THEN [c EXCEPT !.ref = r] ELSE [c EXCEPT !.status = "failed"]
        PROVE  Backed(z)'
    <3>1. z.status \in {"authorized", "failed"} /\ (z.status = "authorized" => z.ref = r)
      BY <1>0, <2>2, <2>3 DEF RowType
    <3> QED BY <3>1, PaymentAssumption DEF Backed
  <2> QED BY <1>k, <2>1, <2>3
<1>4. CASE Charge(w)
  <2>1. PICK ok \in BOOLEAN :
          /\ Capture(c.ref, ok)
          /\ \/ ok /\ c.status = "authorized" /\ Carry(w, [c EXCEPT !.status = "captured"], "write")
             \/ Goto(w, "hold")
    BY <1>4 DEF Charge, c
  <2>2. ASSUME ok, NEW z, z = [c EXCEPT !.status = "captured"] PROVE Backed(z)'
    <3>1. c.ref \in Ref /\ intent'[c.ref].captured
      BY <1>0, <2>1, <2>2, CaptureFacts
    <3>2. z.status = "captured" /\ z.ref = c.ref
      BY <1>0, <2>2 DEF RowType
    <3> QED BY <3>1, <3>2, PaymentAssumption DEF Backed
  <2> QED BY <1>g, <1>k, <2>1, <2>2
<1>5. CASE ReturnMoney(w)
  <2>1. PICK ok \in BOOLEAN :
          /\ Refund(c.ref, Owed(c), ok)
          /\ \/ ok /\ Carry(w, [c EXCEPT !.status = "refunded", !.refunded = Owed(c)], "write")
             \/ Goto(w, "hold")
    BY <1>5 DEF ReturnMoney, c
  <2>2. ASSUME ok, NEW z, z = [c EXCEPT !.status = "refunded", !.refunded = Owed(c)]
        PROVE  Backed(z)'
    <3>0. Owed(c) \in Nat
      BY <1>0 DEF Owed
    <3>1. c.ref \in Ref /\ Held(intent'[c.ref]) = 0
      BY <1>0, <2>1, <2>2, <3>0, RefundFacts
    <3>2. z.status = "refunded" /\ z.ref = c.ref
      BY <1>0, <2>2 DEF RowType
    <3> QED BY <3>1, <3>2, PaymentAssumption DEF Backed
  <2> QED BY <1>g, <1>k, <2>1, <2>2
<1>6. CASE AwardRefund(w)
  <2>1. PICK ok \in BOOLEAN :
          /\ Refund(c.ref, j.refund, ok)
          /\ \/ ok /\ Acceptable(c, j.refund) /\ Carry(w, Credited(c, j.refund), "write")
             \/ Goto(w, "done")
    BY <1>6 DEF AwardRefund, c, j
  <2>2. ASSUME ok, Acceptable(c, j.refund), NEW z, z = Credited(c, j.refund) PROVE Backed(z)'
    <3>1. c.ref \in Ref /\ Held(intent'[c.ref]) = 0
      <4>1. /\ Sane /\ c.ref \in Ref \cup {0} /\ j.refund \in Nat
            /\ c.ref # 0 => intent[c.ref].use # "none"
        BY <1>0 DEF RowType
      <4>2. Refund(c.ref, j.refund, ok) /\ ok
        BY <2>1, <2>2
      <4> HIDE DEF c, j
      <4> QED BY <4>1, <4>2, RefundFacts
    <3>2. z.status \in {"refunded", c.status} /\ z.ref = c.ref
      <4>1. c \in RowType /\ z = Credited(c, j.refund)
        BY <1>0, <2>2
      <4> HIDE DEF c
      <4> QED BY <4>1 DEF RowType, Credited
    <3>3. ASSUME NEW y, y = c PROVE z.status = c.status => Backed(z)'
      BY <1>c, <3>1, <3>2, <3>3 DEF Backed
    <3>4. z.status = "refunded" => Backed(z)'
      BY <3>1, <3>2, PaymentAssumption DEF Backed
    <3> QED BY <3>2, <3>3, <3>4
  <2> QED BY <1>g, <1>k, <2>1, <2>2
<1>7. CASE ReleaseHold(w)
  <2>1. c.status = "authorized"
    BY <1>0, <1>7 DEF BackedJob, ReleaseHold, At, j, c
  <2> QED BY <1>7, <1>g, <2>1 DEF ReleaseHold
<1>8. CASE InsertRow(w) \/ RecordClaim(w) \/ Decide(w)
  BY <1>8, <1>g DEF InsertRow, RecordClaim, Decide
<1>9. CASE UpdateRow(w)
  BY <1>9, <1>g DEF UpdateRow, AfterRefund
<1>10. CASE InsertDeposit(w) \/ ReturnDeposit(w) \/ WriteDeposit(w) \/ ChargeDeposit(w) \/ RecordDeposit(w)
  BY <1>10, <1>g DEF InsertDeposit, ReturnDeposit, WriteDeposit, ChargeDeposit, RecordDeposit
<1>11. CASE LoadHold(w)
  BY <1>11, <1>h DEF LoadHold
<1>12. CASE PlaceDeposit(w)
  BY <1>12, <1>h DEF PlaceDeposit
<1>13. CASE LoadOverflow(w)
  <2>1. ASSUME NEW z, z = row PROVE Backed(z)'
    BY <1>0, <2>1, BackedStays
  <2>2. \E at \in {"done", "decide", "claim"} : Carry(w, row, at)
    BY <1>13 DEF LoadOverflow
  <2>3. ASSUME NEW z, z = row PROVE BackedJob(job[w])'
    BY <1>k, <2>1, <2>2, <2>3
  <2> QED BY <2>3
<1> QED BY <1>1, <1>2, <1>3, <1>4, <1>5, <1>6, <1>7, <1>8, <1>9, <1>10, <1>11, <1>12, <1>13 DEF Work

\* Every step keeps rows, copies and webhooks backed.
LEMMA BackedStep ==
  ASSUME Typed, Typed', RowsAreBacked, [Next]_vars
  PROVE  RowsAreBacked'
<1>0. GatewayMoved
  BY GatewayStep
<1>1. Backed(row)'
  <2>1. ASSUME NEW r, r = row PROVE Backed(r)'
    <3>1. r \in RowType /\ Sound(r) /\ Backed(r)
      BY <2>1 DEF Typed, TypeOK, Shape, RowsAreBacked
    <3> QED BY <1>0, <3>1, BackedStays
  <2>2. ASSUME NEW w \in Worker, NEW r, r = job[w].row PROVE Backed(r)'
    <3>1. r \in RowType /\ Sound(r) /\ Backed(r)
      BY <2>2, JobFacts DEF RowsAreBacked, BackedJob
    <3> QED BY <1>0, <3>1, BackedStays
  <2>3. ASSUME NEW r, r = row' PROVE Backed(r)'
    BY <2>1, <2>2, <2>3, RowWrites
  <2> QED BY <2>3 DEF Backed
<1>2. \A h \in hooks' : Tells(h)'
  <2>1. ASSUME NEW h \in hooks PROVE Tells(h)'
    <3>1. h \in HookType /\ Tells(h)
      BY DEF Typed, TypeOK, RowsAreBacked
    <3> QED BY <1>0, <3>1, TellsStays
  <2> QED BY <1>0, <2>1 DEF GatewayMoved
<1>3. ASSUME NEW v \in Worker PROVE BackedJob(job[v])'
  <2>1. CASE job'[v] = job[v]
    <3>1. ASSUME NEW j, j = job'[v] PROVE BackedJob(j)'
      <4>1. /\ j.row \in RowType /\ Sound(j.row) /\ BackedJob(j)
            /\ j.hook \in HookType \cup {NoHook}
        BY <2>1, <3>1, JobFacts DEF RowsAreBacked
      <4>2. Backed(j.row)' /\ Tells(j.hook)'
        BY <1>0, <4>1, BackedStays, TellsStays DEF BackedJob
      <4> QED BY <4>1, <4>2 DEF BackedJob
    <3> QED BY <3>1 DEF BackedJob, Backed, Tells
  <2>2. CASE job'[v] = Idle
    BY <2>2, BlankIsBacked DEF BackedJob, Backed, Tells
  <2>3. CASE Arrive(v)
    <3>1. PICK j \in JobType :
            /\ job' = [job EXCEPT ![v] = j] /\ j.row = NoRow /\ (j.hook = NoHook \/ j.hook \in hooks)
            /\ UNCHANGED gateway
            /\ j.at \in {"row", "hold", "decide"}
      BY <2>3, ArriveShape
    <3>2. job'[v] = j
      BY <3>1 DEF Typed, TypeOK
    <3>3. Tells(j.hook)'
      BY <1>2, <3>1, BlankIsBacked DEF gateway
    <3>4. BackedJob(j)'
      BY <3>1, <3>3, BlankIsBacked DEF BackedJob
    <3> QED BY <3>2, <3>4 DEF BackedJob, Backed, Tells
  <2> QED BY <1>0, <2>1, <2>2, <2>3, JobCases, BackedWork
<1> QED BY <1>1, <1>2, <1>3 DEF RowsAreBacked

\* Rows, copies and webhooks are backed in every reachable state.
LEMMA BackedAlways == Spec => []RowsAreBacked
<1>1. Init => RowsAreBacked
  BY BlankIsBacked DEF Init, RowsAreBacked
<1>2. Typed /\ Typed' /\ RowsAreBacked /\ [Next]_vars => RowsAreBacked'
  BY BackedStep
<1> QED BY <1>1, <1>2, TypedAlways, PTL DEF Spec

\* A row that says captured names a charged reference, whatever stale copies,
\* webhooks and replaced holds race to write it (ReconcileGatewayEvent and the
\* handlers of application/payment).
THEOREM CapturedIsCharged == Spec => []CapturedMeansCharged
<1>1. RowsAreBacked => CapturedMeansCharged
  BY DEF RowsAreBacked, Backed, CapturedMeansCharged
<1> QED BY <1>1, BackedAlways, PTL

\* A row that says refunded names a reference of which nothing is held
\* (EventHandler, RefundForBooking, ReconcileGatewayEvent).
THEOREM RefundedIsReleased == Spec => []RefundedMeansReleased
<1>1. RowsAreBacked => RefundedMeansReleased
  BY DEF RowsAreBacked, Backed, RefundedMeansReleased
<1> QED BY <1>1, BackedAlways, PTL

-----------------------------------------------------------------------------
(* What the gateway gave back of the rental, as a sum over its references.   *)

LEMMA ReturnedGrows ==
  ASSUME Typed, GatewayMoved
  PROVE  Returned \in Nat /\ Returned' \in Nat /\ Returned <= Returned'
<1> DEFINE f == [r \in Ref |-> IF intent[r].use = "rental" THEN intent[r].back ELSE 0]
           g == [r \in Ref |-> IF intent'[r].use = "rental" THEN intent'[r].back ELSE 0]
<1>1. \A r \in Ref : f[r] \in Nat /\ g[r] \in Nat /\ f[r] <= g[r]
  <2>1. SUFFICES ASSUME NEW r \in Ref PROVE f[r] \in Nat /\ g[r] \in Nat /\ f[r] <= g[r]
    OBVIOUS
  <2>2. intent[r].back \in Nat /\ intent'[r].back \in Nat /\ intent[r].back <= intent'[r].back
        /\ (intent[r].use = "rental" => intent'[r].use = "rental")
    BY PaymentAssumption DEF GatewayMoved, Grown, Typed, TypeOK, IntentType, Amount
  <2> QED BY <2>2
<1>2. IsFiniteSet(Ref)
  BY PaymentAssumption
<1>3. Returned = SumOver(f, Ref) /\ Returned' = SumOver(g, Ref)
  BY DEF Returned
<1> HIDE DEF f, g
<1> QED BY <1>1, <1>2, <1>3, SumType, SumGrows

LEMMA ReturnedNat == ASSUME Typed PROVE Returned \in Nat
<1> DEFINE f == [r \in Ref |-> IF intent[r].use = "rental" THEN intent[r].back ELSE 0]
<1>1. \A r \in Ref : f[r] \in Nat
  BY PaymentAssumption DEF Typed, TypeOK, IntentType, Amount
<1>2. IsFiniteSet(Ref) /\ Returned = SumOver(f, Ref)
  BY PaymentAssumption DEF Returned
<1> HIDE DEF f
<1> QED BY <1>1, <1>2, SumType

\* A refund of a rental adds what was refunded.
LEMMA RefundReturns ==
  ASSUME Typed, GatewayMoved, NEW r \in Ref, intent[r].use = "rental", NEW amount \in Nat,
         intent'[r].back = intent[r].back + amount
  PROVE  Returned + amount <= Returned'
<1> DEFINE f == [q \in Ref |-> IF intent[q].use = "rental" THEN intent[q].back ELSE 0]
           g == [q \in Ref |-> IF intent'[q].use = "rental" THEN intent'[q].back ELSE 0]
<1>1. \A q \in Ref : f[q] \in Nat /\ g[q] \in Nat /\ f[q] <= g[q]
  <2>1. SUFFICES ASSUME NEW q \in Ref PROVE f[q] \in Nat /\ g[q] \in Nat /\ f[q] <= g[q]
    OBVIOUS
  <2>2. intent[q].back \in Nat /\ intent'[q].back \in Nat
    BY PaymentAssumption DEF GatewayMoved, Typed, TypeOK, IntentType, Amount
  <2>3. Grown(intent[q], intent'[q])
    BY DEF GatewayMoved
  <2>4. intent[q].back <= intent'[q].back /\ (intent[q].use = "rental" => intent'[q].use = "rental")
    BY <2>3 DEF Grown
  <2> QED BY <2>2, <2>4
<1>2. g[r] = f[r] + amount
  BY DEF GatewayMoved, Grown
<1>3. IsFiniteSet(Ref) /\ IsFiniteSet(Ref \ {r})
  BY PaymentAssumption, FS_RemoveElement
<1>4. Returned = SumOver(f, Ref) /\ Returned' = SumOver(g, Ref)
  BY DEF Returned
<1> HIDE DEF f, g
<1>5. SumOver(f, Ref) = f[r] + SumOver(f, Ref \ {r}) /\ SumOver(g, Ref) = g[r] + SumOver(g, Ref \ {r})
  BY <1>1, <1>3, SumTakesOut
<1>6. SumOver(f, Ref \ {r}) <= SumOver(g, Ref \ {r})
  BY <1>1, <1>3, SumGrows
<1>7. SumOver(f, Ref \ {r}) \in Nat /\ SumOver(g, Ref \ {r}) \in Nat
  BY <1>1, <1>3, SumType
<1> QED BY <1>1, <1>2, <1>4, <1>5, <1>6, <1>7

\* What was given back of one rental is part of it.
LEMMA OneOfReturned ==
  ASSUME Typed, NEW r \in Ref, intent[r].use = "rental"
  PROVE  intent[r].back \in Nat /\ intent[r].back <= Returned
<1> DEFINE f == [q \in Ref |-> IF intent[q].use = "rental" THEN intent[q].back ELSE 0]
<1>1. \A q \in Ref : f[q] \in Nat
  BY PaymentAssumption DEF Typed, TypeOK, IntentType, Amount
<1>2. f[r] = intent[r].back
  OBVIOUS
<1>3. IsFiniteSet(Ref) /\ IsFiniteSet(Ref \ {r})
  BY PaymentAssumption, FS_RemoveElement
<1>4. Returned = SumOver(f, Ref)
  BY DEF Returned
<1> HIDE DEF f
<1>5. SumOver(f, Ref) = f[r] + SumOver(f, Ref \ {r}) /\ SumOver(f, Ref \ {r}) \in Nat
  BY <1>1, <1>3, SumTakesOut, SumType
<1> QED BY <1>1, <1>2, <1>4, <1>5

-----------------------------------------------------------------------------
(* What a job asks the gateway to give back is never nothing: a refund of     *)
(* nothing would be reported, and read as a refund of everything.            *)

\* The steps of a resolution.
Resolving == {"row", "return", "write", "hold", "chargeDeposit", "recordDeposit", "overflow",
              "claim", "decide", "done"}

Asks(j) ==
  /\ j.op = "cancelled" => booking = "cancelled"
  /\ j.op = "cancelled" /\ j.at = "return" => Owed(j.row) > 0
  /\ j.op = "resolve" => j.at \in Resolving
  /\ j.op = "resolve" /\ j.at \in {"row", "return", "write"} => j.refund > 0

Asked ==
  /\ "cancelled" \in due => booking = "cancelled"
  /\ \A w \in Worker : Asks(job[w])

\* Where a step of a job leads.
LEMMA StepTo ==
  ASSUME Typed, NEW w \in Worker, Work(w), ~Finish(w)
  PROVE  \E at, r, h :
           /\ WentOn(w, at, r, h)
           /\ at # "row"
           /\ at = "return" => job[w].at = "row" /\ (job[w].op # "webhook" => r = row)
                               /\ at = Turn(job[w])
           /\ job[w].op = "resolve" /\ job[w].at \in Resolving =>
                at \in Resolving /\ (at = "write" => job[w].at = "return")
<1>1. CASE LoadRow(w)
  <2> DEFINE r == IF job[w].op = "webhook" THEN Reconciled(job[w].hook, row) ELSE row
  <2>1. WentOn(w, Turn(job[w]), r, job[w].hold)
    BY <1>1, CarryWent DEF LoadRow
  <2>2. Turn(job[w]) # "row" /\ (job[w].op = "resolve" => Turn(job[w]) \in Resolving \ {"write"})
    BY DEF Turn, AfterRefund, Resolving
  <2> QED BY <1>1, <2>1, <2>2 DEF LoadRow, At
<1>2. ASSUME NEW at, Goto(w, at), at \notin {"row", "return"},
             job[w].op = "resolve" /\ job[w].at \in Resolving =>
               at \in Resolving /\ (at = "write" => job[w].at = "return")
      PROVE  \E a, r, h :
               /\ WentOn(w, a, r, h) /\ a \notin {"row", "return"}
               /\ job[w].op = "resolve" /\ job[w].at \in Resolving =>
                    a \in Resolving /\ (a = "write" => job[w].at = "return")
  BY <1>2, GotoWent
<1>3. ASSUME NEW at, NEW r, Carry(w, r, at), at \notin {"row", "return"},
             job[w].op = "resolve" /\ job[w].at \in Resolving =>
               at \in Resolving /\ (at = "write" => job[w].at = "return")
      PROVE  \E a, q, h :
               /\ WentOn(w, a, q, h) /\ a \notin {"row", "return"}
               /\ job[w].op = "resolve" /\ job[w].at \in Resolving =>
                    a \in Resolving /\ (a = "write" => job[w].at = "return")
  BY <1>3, CarryWent
<1>4. ASSUME NEW at, NEW h, CarryHold(w, h, at), at \notin {"row", "return"},
             job[w].op = "resolve" /\ job[w].at \in Resolving =>
               at \in Resolving /\ (at = "write" => job[w].at = "return")
      PROVE  \E a, q, g :
               /\ WentOn(w, a, q, g) /\ a \notin {"row", "return"}
               /\ job[w].op = "resolve" /\ job[w].at \in Resolving =>
                    a \in Resolving /\ (a = "write" => job[w].at = "return")
  BY <1>4, CarryHoldWent
<1>5. CASE PlaceHold(w) \/ InsertRow(w) \/ ReleaseHold(w) \/ ReplaceHold(w) \/ Charge(w)
  BY <1>2, <1>3, <1>5 DEF PlaceHold, InsertRow, ReleaseHold, ReplaceHold, Charge, At, Resolving
<1>6. CASE ReturnMoney(w) \/ AwardRefund(w)
  BY <1>2, <1>3, <1>6 DEF ReturnMoney, AwardRefund, At, Resolving
<1>7. CASE UpdateRow(w)
  BY <1>2, <1>7 DEF UpdateRow, AfterRefund, At, Resolving
<1>8. CASE LoadHold(w)
  <2>1. PICK at \in {"placeDeposit", "done", "chargeDeposit", "overflow", "returnDeposit"} :
          /\ CarryHold(w, hold, at)
          /\ job[w].op = "resolve" => at \in Resolving
    BY <1>8 DEF LoadHold, Resolving
  <2> QED BY <1>4, <2>1
<1>10. CASE PlaceDeposit(w) \/ InsertDeposit(w) \/ ReturnDeposit(w) \/ WriteDeposit(w)
  BY <1>2, <1>4, <1>10 DEF PlaceDeposit, InsertDeposit, ReturnDeposit, WriteDeposit, At, Resolving
<1>9. CASE ChargeDeposit(w) \/ RecordDeposit(w) \/ LoadOverflow(w) \/ RecordClaim(w) \/ Decide(w)
  BY <1>2, <1>3, <1>9 DEF ChargeDeposit, RecordDeposit, LoadOverflow, RecordClaim, Decide, At,
                          Resolving
<1> QED BY <1>1, <1>5, <1>6, <1>7, <1>8, <1>9, <1>10 DEF Work

\* A cancelled booking stays so, with its policy.
LEMMA CancelledStays ==
  ASSUME [Next]_vars
  PROVE  /\ booking = "cancelled" => booking' = "cancelled" /\ policy' = policy
         /\ "cancelled" \in due' => "cancelled" \in due \/ booking' = "cancelled"
<1>1. CASE UNCHANGED outside
  BY <1>1 DEF outside
<1>2. CASE Modify \/ Confirm \/ Cancel \/ Complete
  BY <1>2 DEF Modify, Confirm, Cancel, Complete, Publish
<1>3. ASSUME NEW w \in Worker, Finish(w)
      PROVE  UNCHANGED <<booking, policy>> /\ due' \subseteq due
  BY <1>3 DEF Finish
<1>4. ASSUME NEW w \in Worker, Work(w), ~Finish(w) PROVE UNCHANGED outside
  BY <1>4 DEF Work, LoadRow, PlaceHold, InsertRow, ReleaseHold, ReplaceHold, Charge, ReturnMoney,
       AwardRefund, UpdateRow, LoadHold, PlaceDeposit, InsertDeposit, ReturnDeposit, WriteDeposit,
       ChargeDeposit, RecordDeposit, LoadOverflow, RecordClaim, Decide
<1>5. ASSUME NEW w \in Worker, Arrive(w) \/ Crash(w) PROVE UNCHANGED outside
  BY <1>5 DEF Arrive, Deliver, Webhook, Resolve, Reject, Start, Crash
<1>6. ASSUME (\E d \in Dispute : OpenDispute(d)) \/ (\E r \in Ref : Decline(r)) \/ UNCHANGED vars
      PROVE  UNCHANGED outside
  BY <1>6 DEF OpenDispute, Decline, vars
<1> QED BY <1>1, <1>2, <1>3, <1>4, <1>5, <1>6 DEF Next, Around

\* A job that starts asks for something.
LEMMA ArriveAsks ==
  ASSUME Typed, Asked, NEW w \in Worker, Arrive(w)
  PROVE  \A j : j = job'[w] => Asks(j)
<1>1. job \in [Worker -> JobType] /\ due \subseteq Event
  BY DEF Typed, TypeOK
<1>2. CASE Deliver(w)
  <2>1. PICK e \in due : Start(w, Job(e, IF e = "completed" THEN "hold" ELSE "row"))
    BY <1>2 DEF Deliver
  <2>2. job'[w].op = e /\ job'[w].at \in {"row", "hold"}
    BY <1>1, <2>1 DEF Start, Job, Idle
  <2>3. e = "cancelled" => booking = "cancelled"
    BY <2>1 DEF Asked
  <2> QED BY <1>1, <2>1, <2>2, <2>3 DEF Asks, Event
<1>3. CASE Webhook(w)
  <2>1. job'[w].op = "webhook"
    BY <1>1, <1>3 DEF Webhook, Start, Job, Idle
  <2> QED BY <2>1 DEF Asks
<1>4. CASE Resolve(w)
  <2>1. PICK d \in Dispute, refund \in Awards, damage \in BOOLEAN :
          Start(w, [Job("resolve", IF refund > 0 THEN "row" ELSE IF damage THEN "hold" ELSE "decide")
                      EXCEPT !.d = d, !.refund = refund, !.damage = damage, !.seen = case[d]])
    BY <1>4 DEF Resolve
  <2>2. /\ job'[w].op = "resolve" /\ job'[w].refund = refund
        /\ job'[w].at = IF refund > 0 THEN "row" ELSE IF damage THEN "hold" ELSE "decide"
    BY <1>1, <2>1 DEF Start, Job, Idle
  <2>3. refund \in Nat
    BY PaymentAssumption
  <2> QED BY <2>2, <2>3 DEF Asks, Resolving
<1>5. CASE Reject(w)
  <2>1. job'[w].op = "reject"
    BY <1>1, <1>5 DEF Reject, Start, Job, Idle
  <2> QED BY <2>1 DEF Asks
<1> QED BY <1>2, <1>3, <1>4, <1>5 DEF Arrive

LEMMA AskedStep ==
  ASSUME Typed, Typed', Asked, [Next]_vars
  PROVE  Asked'
<1>0. /\ booking = "cancelled" => booking' = "cancelled" /\ policy' = policy
      /\ "cancelled" \in due' => "cancelled" \in due \/ booking' = "cancelled"
  BY CancelledStays
<1>1. "cancelled" \in due' => booking' = "cancelled"
  BY <1>0 DEF Asked
<1>2. ASSUME NEW j, Asks(j) PROVE Asks(j)'
  BY <1>0, <1>2 DEF Asks, Owed
<1>3. ASSUME NEW v \in Worker, NEW k, k = job'[v] PROVE Asks(k)
  <2>1. CASE k = job[v]
    BY <2>1 DEF Asked
  <2>2. CASE k = Idle
    BY <2>2 DEF Idle, Asks
  <2>3. CASE Arrive(v)
    BY <1>3, <2>3, ArriveAsks
  <2>4. CASE Work(v) /\ ~Finish(v)
    <3>1. PICK at, r, h :
            /\ WentOn(v, at, r, h)
            /\ at # "row"
            /\ at = "return" => job[v].at = "row" /\ (job[v].op # "webhook" => r = row)
                                /\ at = Turn(job[v])
            /\ job[v].op = "resolve" /\ job[v].at \in Resolving =>
                 at \in Resolving /\ (at = "write" => job[v].at = "return")
      BY <2>4, StepTo
    <3>2. Asks(job[v])
      BY DEF Asked
    <3>3. k.op = job[v].op /\ k.at = at /\ (at # "done" => k.row = r /\ k.refund = job[v].refund)
      BY <1>3, <3>1 DEF WentOn
    <3>4. ASSUME k.op = "cancelled", k.at = "return" PROVE Owed(k.row) > 0
      <4>1. k.row = row /\ Turn(job[v]) = "return" /\ job[v].op = "cancelled"
        BY <3>1, <3>3, <3>4
      <4>2. row.status = "authorized" \/ (policy > 0 /\ row.status = "captured")
        BY <4>1 DEF Turn
      <4>3. row.status = "authorized" => row.amount = Total
        BY DEF Typed, Shape, Sound
      <4> QED BY <4>1, <4>2, <4>3, PaymentAssumption DEF Owed
    <3> QED BY <3>1, <3>2, <3>3, <3>4 DEF Asks
  <2> QED BY <1>3, <2>1, <2>2, <2>3, <2>4, JobCases
<1>4. ASSUME NEW v \in Worker PROVE Asks(job[v])'
  <2>1. ASSUME NEW k, k = job'[v] PROVE Asks(k)'
    BY <1>2, <1>3, <2>1
  <2> QED BY <2>1 DEF Asks, Owed
<1> QED BY <1>1, <1>4 DEF Asked

LEMMA AskedAlways == Spec => []Asked
<1>1. Init => Asked
  BY DEF Init, Asked, Asks, Idle
<1>2. Typed /\ Typed' /\ Asked /\ [Next]_vars => Asked'
  BY AskedStep
<1> QED BY <1>1, <1>2, TypedAlways, PTL DEF Spec

-----------------------------------------------------------------------------
(* A webhook of a refund of the rental reports what was given back.          *)

Reports(h) ==
  h.kind = "refunded" /\ intent[h.ref].use = "rental" =>
    h.amount > 0 /\ h.amount <= intent[h.ref].back

Reported ==
  /\ \A h \in hooks : Reports(h)
  /\ \A w \in Worker : Reports(job[w].hook)

\* What was reported stays given back.
LEMMA ReportsStays ==
  ASSUME Typed, GatewayMoved, NEW h \in HookType \cup {NoHook}, Tells(h), Reports(h)
  PROVE  Reports(h)'
<1>1. CASE h.kind = "refunded"
  <2>1. h.ref \in Ref /\ h.amount \in Nat /\ intent[h.ref].use # "none"
    BY <1>1, PaymentAssumption DEF HookType, NoHook, Tells, Amount
  <2>2. Grown(intent[h.ref], intent'[h.ref])
    BY <2>1 DEF GatewayMoved
  <2>3. \A q \in Ref : intent[q].back \in Nat /\ intent'[q].back \in Nat
    BY PaymentAssumption DEF GatewayMoved, Typed, TypeOK, IntentType, Amount
  <2> QED BY <2>1, <2>2, <2>3 DEF Reports, Grown
<1>2. CASE h.kind # "refunded"
  BY <1>2 DEF Reports
<1> QED BY <1>1, <1>2

\* A refund of something reports it.
LEMMA RefundReports ==
  ASSUME Typed, GatewayMoved, NEW r \in Ref \cup {0}, NEW amount \in Nat, NEW ok \in BOOLEAN,
         r # 0 => intent[r].use # "none",
         r # 0 /\ intent[r].use = "rental" => amount > 0,
         Refund(r, amount, ok)
  PROVE  \A h \in hooks' \ hooks : Reports(h)'
<1>1. PICK effect \in BOOLEAN :
        /\ Answered(r # 0 /\ Refundable(intent[r], amount), effect, ok)
        /\ IF effect
             THEN /\ intent' = [intent EXCEPT ![r].back = @ + amount]
                  /\ hooks' = hooks \cup {[kind |-> "refunded", ref |-> r,
                                           amount |-> intent[r].back + amount]}
             ELSE UNCHANGED <<intent, hooks>>
  BY DEF Refund
<1>2. ASSUME NEW h \in hooks' \ hooks PROVE Reports(h)'
  <2>1. effect /\ h.kind = "refunded" /\ h.ref = r /\ h.amount = intent[r].back + amount
    BY <1>1, <1>2
  <2>2. r \in Ref
    BY <1>1, <2>1 DEF Answered
  <2>3. /\ intent'[r].back = intent[r].back + amount /\ intent[r].back \in Nat
        /\ intent'[r].use = intent[r].use
    BY <1>1, <2>1, <2>2, PaymentAssumption DEF Typed, TypeOK, IntentType, Amount
  <2>4. intent[r].use = "rental" => h.amount > 0
    BY <2>1, <2>2, <2>3, PaymentAssumption
  <2> QED BY <2>1, <2>3, <2>4 DEF Reports
<1> QED BY <1>2

LEMMA NewReports ==
  ASSUME Typed, Asked, [Next]_vars
  PROVE  \A h \in hooks' \ hooks : Reports(h)'
<1>0. GatewayMoved
  BY GatewayStep
<1>1. ASSUME NEW w \in Worker, Work(w) PROVE \A h \in hooks' \ hooks : Reports(h)'
  <2> DEFINE j == job[w]
  <2>1. /\ j.row.ref \in Ref \cup {0} /\ (j.row.ref # 0 => intent[j.row.ref].use # "none")
        /\ j.hold.ref \in Ref \cup {0} /\ (j.hold.ref # 0 => intent[j.hold.ref].use # "none")
        /\ j.row.amount \in Nat /\ j.refund \in Nat /\ SoundJob(j) /\ Asks(j)
        /\ j.row.status \in Status
    BY JobFacts, PaymentAssumption DEF RowType, HoldType, Asked
  <2>2. Owed(j.row) \in Nat
    BY <2>1, PaymentAssumption DEF Owed, Typed, TypeOK
  <2> HIDE DEF j
  <2>3. ASSUME ReleaseHold(w) PROVE \A h \in hooks' \ hooks : Reports(h)'
    <3>1. j.row.amount > 0
      BY <2>1, <2>3, PaymentAssumption DEF ReleaseHold, At, SoundJob, Sound, Writing, j
    <3> QED BY <1>0, <2>1, <2>3, <3>1, RefundReports DEF ReleaseHold, j
  <2>4. ASSUME ReturnMoney(w) PROVE \A h \in hooks' \ hooks : Reports(h)'
    <3>1. Owed(j.row) > 0
      BY <2>1, <2>4 DEF ReturnMoney, At, Asks, j
    <3> QED BY <1>0, <2>1, <2>2, <2>4, <3>1, RefundReports DEF ReturnMoney, j
  <2>5. ASSUME AwardRefund(w) PROVE \A h \in hooks' \ hooks : Reports(h)'
    <3>1. j.refund > 0
      BY <2>1, <2>5 DEF AwardRefund, At, Asks, j
    <3> QED BY <1>0, <2>1, <2>5, <3>1, RefundReports DEF AwardRefund, j
  <2>6. ASSUME ReturnDeposit(w) PROVE \A h \in hooks' \ hooks : Reports(h)'
    <3>1. j.hold.ref # 0 => intent[j.hold.ref].use = "deposit"
      BY <2>1 DEF SoundJob
    <3> QED BY <1>0, <2>1, <2>6, <3>1, RefundReports, PaymentAssumption DEF ReturnDeposit, j
  <2>7. ASSUME Charge(w) \/ ChargeDeposit(w) PROVE \A h \in hooks' \ hooks : Reports(h)'
    <3>1. \A h \in hooks' \ hooks : h.kind = "captured"
      BY <2>7 DEF Charge, ChargeDeposit, Capture
    <3> QED BY <3>1 DEF Reports
  <2>8. ASSUME PlaceHold(w) \/ ReplaceHold(w) \/ PlaceDeposit(w) PROVE hooks' = hooks
    BY <2>8 DEF PlaceHold, ReplaceHold, PlaceDeposit, Authorize
  <2>9. ASSUME \/ LoadRow(w) \/ InsertRow(w) \/ UpdateRow(w) \/ LoadHold(w) \/ InsertDeposit(w)
               \/ WriteDeposit(w) \/ RecordDeposit(w) \/ LoadOverflow(w) \/ RecordClaim(w) \/ Decide(w)
               \/ Finish(w)
        PROVE  hooks' \subseteq hooks
    BY <2>9 DEF LoadRow, InsertRow, UpdateRow, LoadHold, InsertDeposit, WriteDeposit,
                RecordDeposit, LoadOverflow, RecordClaim, Decide, Finish, gateway
  <2> QED BY <1>1, <2>3, <2>4, <2>5, <2>6, <2>7, <2>8, <2>9 DEF Work
<1>2. ASSUME NEW w \in Worker, Arrive(w) \/ Crash(w) PROVE hooks' = hooks
  BY <1>2, ArriveShape DEF Crash, gateway
<1>3. ASSUME NEW r \in Ref, Decline(r) PROVE \A h \in hooks' \ hooks : Reports(h)'
  <2>1. \A h \in hooks' \ hooks : h.kind = "failed"
    BY <1>3 DEF Decline
  <2> QED BY <2>1 DEF Reports
<1>4. ASSUME (\E d \in Dispute : OpenDispute(d)) \/ Modify \/ Confirm \/ Cancel \/ Complete
             \/ UNCHANGED vars
      PROVE  hooks' = hooks
  BY <1>4 DEF OpenDispute, Modify, Confirm, Cancel, Complete, Publish, vars, gateway
<1> QED BY <1>1, <1>2, <1>3, <1>4 DEF Next, Around

LEMMA ReportedStep ==
  ASSUME Typed, Asked, RowsAreBacked, Reported, [Next]_vars
  PROVE  Reported'
<1>0. GatewayMoved
  BY GatewayStep
<1>1. \A h \in hooks' : Reports(h)'
  <2>1. ASSUME NEW h \in hooks PROVE Reports(h)'
    <3>1. h \in HookType /\ Tells(h) /\ Reports(h)
      BY DEF Typed, TypeOK, RowsAreBacked, Reported
    <3> QED BY <1>0, <3>1, ReportsStays
  <2> QED BY <2>1, NewReports
<1>2. ASSUME NEW v \in Worker, NEW h, h = job'[v].hook PROVE Reports(h)'
  <2>1. ASSUME h = job[v].hook PROVE Reports(h)'
    <3>1. h \in HookType \cup {NoHook} /\ Tells(h) /\ Reports(h)
      BY <2>1, JobFacts DEF RowsAreBacked, BackedJob, Reported
    <3> QED BY <1>0, <3>1, ReportsStays
  <2>2. ASSUME h = NoHook PROVE Reports(h)'
    BY <2>2 DEF NoHook, Reports
  <2>3. CASE job'[v] = job[v]
    BY <1>2, <2>1, <2>3
  <2>4. CASE job'[v] = Idle
    BY <1>2, <2>2, <2>4 DEF Idle
  <2>5. CASE Arrive(v)
    <3>1. PICK j \in JobType :
            /\ job' = [job EXCEPT ![v] = j] /\ (j.hook = NoHook \/ j.hook \in hooks)
            /\ UNCHANGED gateway
      BY <2>5, ArriveShape
    <3>2. job'[v] = j
      BY <3>1 DEF Typed, TypeOK
    <3> QED BY <1>1, <1>2, <2>2, <3>1, <3>2 DEF gateway
  <2>6. CASE Work(v) /\ ~Finish(v)
    <3>1. job'[v].hook = job[v].hook
      BY <2>6, StepTo DEF WentOn
    <3> QED BY <1>2, <2>1, <3>1
  <2> QED BY <2>3, <2>4, <2>5, <2>6, JobCases
<1> QED BY <1>1, <1>2 DEF Reported, Reports

-----------------------------------------------------------------------------
(* The books: the row and its copies claim no more than was given back, and   *)
(* what the disputes were awarded is given back before it is written down.   *)

Grounded ==
  /\ row.refunded <= Returned
  /\ \A w \in Worker : job[w].row.refunded <= Returned

\* What a resolution has given back and not written down yet.
Unrecorded ==
  [w \in Worker |-> IF job[w].op = "resolve" /\ job[w].at = "write" THEN job[w].refund ELSE 0]

Covered == SumOver(refunds, Dispute) + SumOver(Unrecorded, Worker) <= Returned

\* A refund that is answered adds to what was returned.
LEMMA RefundGives ==
  ASSUME Typed, NEW c \in RowType, Sound(c), NEW amount \in Nat, NEW ok \in BOOLEAN,
         Refund(c.ref, amount, ok), ok
  PROVE  Returned + amount <= Returned'
<1>1. Sane /\ c.ref \in Ref \cup {0} /\ (c.ref # 0 => intent[c.ref].use = "rental")
  BY DEF Typed, Shape, Sane, RowType, Sound
<1>2. GatewayMoved /\ c.ref \in Ref /\ intent'[c.ref].back = intent[c.ref].back + amount
  BY <1>1, RefundFacts
<1>3. c.ref # 0
  BY <1>2, PaymentAssumption
<1> QED BY <1>1, <1>2, <1>3, RefundReturns

\* A webhook leaves a row that claims no more than was given back.
LEMMA ReconciledGrounded ==
  ASSUME Typed, NEW h \in HookType \cup {NoHook}, Reports(h), row.refunded <= Returned
  PROVE  Reconciled(h, row).refunded <= Returned
<1>1. row \in RowType /\ Sound(row) /\ row.amount \in Nat
  BY PaymentAssumption DEF Typed, TypeOK, Shape, RowType, Amount
<1>2. Returned \in Nat
  BY ReturnedNat
<1> DEFINE paid == IF h.amount \in 1 .. row.amount THEN h.amount ELSE row.amount
<1>3. \/ Reconciled(h, row).refunded = row.refunded
      \/ Reconciled(h, row).refunded = paid /\ h.kind = "refunded" /\ row.ref = h.ref
  BY <1>1 DEF Reconciled, RowType
<1>4. ASSUME h.kind = "refunded", row.ref = h.ref PROVE paid <= Returned
  <2>1. h.ref \in Ref /\ h.amount \in Nat
    BY <1>4, PaymentAssumption DEF HookType, NoHook, Amount
  <2>2. h.ref # 0
    BY <2>1, PaymentAssumption
  <2>3. intent[h.ref].use = "rental"
    BY <1>1, <1>4, <2>2 DEF Sound
  <2>4. h.amount > 0 /\ h.amount <= intent[h.ref].back
    BY <1>4, <2>3 DEF Reports
  <2>5. intent[h.ref].back \in Nat /\ intent[h.ref].back <= Returned
    BY <2>1, <2>3, OneOfReturned
  <2>6. h.amount <= Returned /\ (h.amount \notin 1 .. row.amount => row.amount < h.amount)
    BY <1>1, <1>2, <2>1, <2>4, <2>5
  <2> QED BY <1>1, <1>2, <2>1, <2>6
<1> QED BY <1>3, <1>4

\* What a job carries after its step.
LEMMA CopyGrounded ==
  ASSUME Typed, Typed', GatewayMoved, Reported, Grounded, NEW w \in Worker, Work(w), ~Finish(w)
  PROVE  job'[w].row.refunded <= Returned'
<1> DEFINE j == job[w]
           c == job[w].row
<1>0. /\ j \in JobType /\ Sane /\ c \in RowType /\ Sound(c) /\ j.hook \in HookType \cup {NoHook}
      /\ c.refunded \in Nat /\ row.refunded \in Nat /\ j.refund \in Nat
      /\ Reports(j.hook) /\ c.refunded <= Returned /\ row.refunded <= Returned
  BY JobFacts, PaymentAssumption DEF RowType, Amount, Reported, Grounded, Typed, TypeOK
<1>r. Returned \in Nat /\ Returned' \in Nat /\ Returned <= Returned'
  BY ReturnedGrows
<1>n. NoRow.refunded = 0
  BY DEF NoRow
<1>g. ASSUME NEW at, Goto(w, at) PROVE job'[w].row.refunded <= Returned'
  <2>1. job'[w].row \in {c, NoRow}
    BY <1>g, GotoWent DEF WentOn
  <2> QED BY <1>0, <1>r, <1>n, <2>1
<1>k. ASSUME NEW at, NEW r, Carry(w, r, at), r.refunded <= Returned'
      PROVE  job'[w].row.refunded <= Returned'
  <2>1. job'[w].row \in {r, NoRow}
    BY <1>k, CarryWent DEF WentOn
  <2> QED BY <1>r, <1>n, <1>k, <2>1
<1>h. ASSUME NEW at, NEW h, CarryHold(w, h, at) PROVE job'[w].row.refunded <= Returned'
  <2>1. job'[w].row = NoRow
    BY <1>h, CarryHoldWent DEF WentOn
  <2> QED BY <1>r, <1>n, <2>1
<1> HIDE DEF j, c
<1>1. CASE LoadRow(w)
  <2> DEFINE r == IF j.op = "webhook" THEN Reconciled(j.hook, row) ELSE row
  <2>1. Carry(w, r, Turn(j))
    BY <1>1 DEF LoadRow, j
  <2>2. r.refunded <= Returned /\ r \in RowType
    <3>1. row \in RowType /\ Sound(row)
      BY DEF Typed, TypeOK, Shape
    <3> QED BY <1>0, <3>1, ReconciledGrounded, ReconciledFacts
  <2>3. r.refunded \in Nat
    BY <2>2, PaymentAssumption DEF RowType, Amount
  <2> HIDE DEF r
  <2>4. r.refunded <= Returned'
    BY <1>r, <2>2, <2>3
  <2> QED BY <1>k, <2>1, <2>4
<1>2. CASE PlaceHold(w)
  <2>1. PICK r \in Ref, ok \in BOOLEAN :
          Carry(w, [status |-> IF ok THEN "authorized" ELSE "failed",
                    ref |-> IF ok THEN r ELSE 0, amount |-> Total, refunded |-> 0], "insert")
    BY <1>2 DEF PlaceHold
  <2> QED BY <1>k, <1>r, <2>1
<1>3. CASE ReplaceHold(w)
  <2>1. PICK r \in Ref, ok \in BOOLEAN :
          Carry(w, IF ok THEN [c EXCEPT !.ref = r] ELSE [c EXCEPT !.status = "failed"], "write")
    BY <1>3 DEF ReplaceHold, c
  <2>2. ASSUME NEW z, z = IF ok THEN [c EXCEPT !.ref = r] ELSE [c EXCEPT !.status = "failed"]
        PROVE  z.refunded <= Returned'
    <3>1. z.refunded = c.refunded
      BY <1>0, <2>2 DEF RowType
    <3> QED BY <1>0, <1>r, <3>1
  <2> QED BY <1>k, <2>1, <2>2
<1>4. CASE Charge(w)
  <2>1. \/ Carry(w, [c EXCEPT !.status = "captured"], "write")
        \/ Goto(w, "hold")
    BY <1>4 DEF Charge, c
  <2>2. [c EXCEPT !.status = "captured"].refunded <= Returned'
    BY <1>0, <1>r DEF RowType
  <2> QED BY <1>g, <1>k, <2>1, <2>2
<1>5. CASE ReturnMoney(w)
  <2>1. PICK ok \in BOOLEAN :
          /\ Refund(c.ref, Owed(c), ok)
          /\ \/ ok /\ Carry(w, [c EXCEPT !.status = "refunded", !.refunded = Owed(c)], "write")
             \/ Goto(w, "hold")
    BY <1>5 DEF ReturnMoney, c
  <2>2. ASSUME ok PROVE [c EXCEPT !.status = "refunded", !.refunded = Owed(c)].refunded <= Returned'
    <3>1. Owed(c) \in Nat
      BY <1>0, PaymentAssumption DEF Owed, RowType, Amount, Typed, TypeOK
    <3>2. Returned + Owed(c) <= Returned'
      BY <1>0, <2>1, <2>2, <3>1, RefundGives
    <3>3. [c EXCEPT !.status = "refunded", !.refunded = Owed(c)].refunded = Owed(c)
      BY <1>0 DEF RowType
    <3> QED BY <1>r, <3>1, <3>2, <3>3
  <2> QED BY <1>g, <1>k, <2>1, <2>2
<1>6. CASE AwardRefund(w)
  <2>1. PICK ok \in BOOLEAN :
          /\ Refund(c.ref, j.refund, ok)
          /\ \/ ok /\ Carry(w, Credited(c, j.refund), "write")
             \/ Goto(w, "done")
    BY <1>6 DEF AwardRefund, c, j
  <2>2. ASSUME ok PROVE Credited(c, j.refund).refunded <= Returned'
    <3>1. Returned + j.refund <= Returned'
      BY <1>0, <2>1, <2>2, RefundGives
    <3>2. Credited(c, j.refund).refunded = c.refunded + j.refund
      BY <1>0 DEF RowType, Credited
    <3> QED BY <1>0, <1>r, <3>1, <3>2
  <2> QED BY <1>g, <1>k, <2>1, <2>2
<1>7. CASE ReleaseHold(w) \/ InsertRow(w) \/ RecordClaim(w) \/ Decide(w)
  BY <1>7, <1>g DEF ReleaseHold, InsertRow, RecordClaim, Decide
<1>8. CASE UpdateRow(w)
  BY <1>8, <1>g DEF UpdateRow
<1>9. CASE InsertDeposit(w) \/ ReturnDeposit(w) \/ WriteDeposit(w) \/ ChargeDeposit(w) \/ RecordDeposit(w)
  BY <1>9, <1>g DEF InsertDeposit, ReturnDeposit, WriteDeposit, ChargeDeposit, RecordDeposit
<1>10. CASE LoadHold(w) \/ PlaceDeposit(w)
  BY <1>10, <1>h DEF LoadHold, PlaceDeposit
<1>11. CASE LoadOverflow(w)
  <2>1. row.refunded <= Returned'
    BY <1>0, <1>r
  <2> QED BY <1>11, <1>k, <2>1 DEF LoadOverflow
<1> QED BY <1>1, <1>2, <1>3, <1>4, <1>5, <1>6, <1>7, <1>8, <1>9, <1>10, <1>11 DEF Work

LEMMA GroundedStep ==
  ASSUME Typed, Typed', Reported, Grounded, [Next]_vars
  PROVE  Grounded'
<1>0. GatewayMoved
  BY GatewayStep
<1>1. Returned \in Nat /\ Returned' \in Nat /\ Returned <= Returned'
  BY <1>0, ReturnedGrows
<1>2. \A w \in Worker : job[w].row.refunded \in Nat
  BY JobFacts, PaymentAssumption DEF RowType, Amount
<1>3. row.refunded \in Nat
  BY PaymentAssumption DEF Typed, TypeOK, RowType, Amount
<1>4. row'.refunded <= Returned'
  BY <1>1, <1>2, <1>3, RowWrites DEF Grounded
<1>5. ASSUME NEW v \in Worker PROVE job'[v].row.refunded <= Returned'
  <2>1. CASE job'[v] = job[v]
    BY <1>1, <1>2, <2>1 DEF Grounded
  <2>2. CASE job'[v] = Idle
    BY <1>1, <2>2 DEF Idle, NoRow
  <2>3. CASE Arrive(v)
    <3>1. PICK j \in JobType : job' = [job EXCEPT ![v] = j] /\ j.row = NoRow
      BY <2>3, ArriveShape
    <3>2. job'[v] = j
      BY <3>1 DEF Typed, TypeOK
    <3> QED BY <1>1, <3>1, <3>2 DEF NoRow
  <2>4. CASE Work(v) /\ ~Finish(v)
    BY <1>0, <2>4, CopyGrounded
  <2> QED BY <2>1, <2>2, <2>3, <2>4, JobCases
<1> QED BY <1>4, <1>5 DEF Grounded

Pending(j) == IF j.op = "resolve" /\ j.at = "write" THEN j.refund ELSE 0

\* A resolution has something to write down only once its refund is answered.
LEMMA PendingStep ==
  ASSUME Typed, Asked, [Next]_vars, NEW v \in Worker, ~AwardRefund(v)
  PROVE  /\ Pending(job[v]) \in Nat /\ Pending(job'[v]) \in Nat
         /\ Pending(job'[v]) <= Pending(job[v])
<1>1. Pending(job[v]) \in Nat
  BY JobFacts, PaymentAssumption DEF Pending
<1>2. CASE job'[v] = job[v]
  BY <1>1, <1>2
<1>3. CASE job'[v] = Idle
  BY <1>1, <1>3 DEF Pending, Idle
<1>4. CASE Arrive(v)
  <2>1. PICK j \in JobType : job' = [job EXCEPT ![v] = j] /\ j.at \in {"row", "hold", "decide"}
    BY <1>4, ArriveShape
  <2>2. job'[v] = j
    BY <2>1 DEF Typed, TypeOK
  <2> QED BY <1>1, <2>1, <2>2 DEF Pending
<1>5. CASE Work(v) /\ ~Finish(v)
  <2>1. PICK at, r, h :
          /\ WentOn(v, at, r, h)
          /\ job[v].op = "resolve" /\ job[v].at \in Resolving =>
               at \in Resolving /\ (at = "write" => job[v].at = "return")
    BY <1>5, StepTo
  <2>2. job'[v].op = job[v].op /\ job'[v].at = at
    BY <2>1 DEF WentOn
  <2>3. job[v].op = "resolve" => job[v].at \in Resolving
    BY DEF Asked, Asks
  <2>4. ~(job[v].op = "resolve" /\ job[v].at = "return")
    BY <1>5 DEF Work, LoadRow, PlaceHold, InsertRow, ReleaseHold, ReplaceHold, Charge, ReturnMoney,
         UpdateRow, LoadHold, PlaceDeposit, InsertDeposit, ReturnDeposit, WriteDeposit,
         ChargeDeposit, RecordDeposit, LoadOverflow, RecordClaim, Decide, Finish, At
  <2>5. Pending(job'[v]) = 0
    BY <2>1, <2>2, <2>3, <2>4 DEF Pending
  <2> QED BY <1>1, <2>5
<1> QED BY <1>2, <1>3, <1>4, <1>5, JobCases

\* Only UpdateRow writes the ledger of refunds.
LEMMA RefundsKept ==
  ASSUME Typed, [Next]_vars, \A w \in Worker : ~UpdateRow(w)
  PROVE  refunds' = refunds
<1>1. ASSUME NEW w \in Worker, Work(w) PROVE refunds' = refunds
  BY <1>1 DEF Work, LoadRow, PlaceHold, InsertRow, ReleaseHold, ReplaceHold, Charge, ReturnMoney,
       AwardRefund, LoadHold, PlaceDeposit, InsertDeposit, ReturnDeposit, WriteDeposit,
       ChargeDeposit, RecordDeposit, LoadOverflow, RecordClaim, Decide, Finish, database
<1>2. ASSUME NEW w \in Worker, Arrive(w) \/ Crash(w) PROVE refunds' = refunds
  BY <1>2, ArriveShape DEF Crash, database
<1>3. ASSUME Around \/ UNCHANGED vars PROVE refunds' = refunds
  BY <1>3 DEF Around, Modify, Confirm, Cancel, Complete, Publish, OpenDispute, Decline, vars, database
<1> QED BY <1>1, <1>2, <1>3 DEF Next

LEMMA CoveredStep ==
  ASSUME Typed, Typed', Asked, Covered, [Next]_vars
  PROVE  Covered'
<1> DEFINE f == Unrecorded
           g == [w \in Worker |-> Pending(job'[w])]
<1>0. GatewayMoved
  BY GatewayStep
<1>1. Returned \in Nat /\ Returned' \in Nat /\ Returned <= Returned'
  BY <1>0, ReturnedGrows
<1>2. IsFiniteSet(Worker) /\ IsFiniteSet(Dispute)
  BY PaymentAssumption
<1>3. \A v \in Worker : f[v] = Pending(job[v]) /\ g[v] = Pending(job'[v])
  BY DEF Unrecorded, Pending
<1>4. \A v \in Worker : f[v] \in Nat /\ (~AwardRefund(v) => g[v] \in Nat /\ g[v] <= f[v])
  BY <1>3, JobFacts, PaymentAssumption, PendingStep DEF Pending
<1>5. \A d \in Dispute : refunds[d] \in Nat /\ refunds'[d] \in Nat
  BY PaymentAssumption DEF Typed, TypeOK
<1>6. Unrecorded' = g
  BY DEF Unrecorded, Pending
<1>7. SumOver(refunds, Dispute) \in Nat /\ SumOver(refunds', Dispute) \in Nat
  BY <1>2, <1>5, SumType
<1>8. SumOver(f, Worker) \in Nat
  BY <1>2, <1>4, SumType
<1>9. SumOver(refunds, Dispute) + SumOver(f, Worker) <= Returned
  BY DEF Covered
<1>10. SUFFICES SumOver(refunds', Dispute) + SumOver(g, Worker) <= Returned'
  BY <1>6 DEF Covered
<1> HIDE DEF f, g
<1>11. ASSUME NEW w \in Worker, AwardRefund(w)
       PROVE  SumOver(refunds', Dispute) + SumOver(g, Worker) <= Returned'
  <2> DEFINE c == job[w].row
             amount == job[w].refund
  <2>1. refunds' = refunds
    BY <1>11 DEF AwardRefund, database
  <2>2. /\ job[w].op = "resolve" /\ job[w].at = "return" /\ amount \in Nat
        /\ c \in RowType /\ Sound(c)
    BY <1>11, JobFacts, PaymentAssumption DEF AwardRefund, At
  <2>3. f[w] = 0
    BY <1>3, <2>2 DEF Pending
  <2>4. \A v \in Worker \ {w} : g[v] = f[v]
    <3>1. \A v \in Worker \ {w} : job'[v] = job[v]
      BY <1>11, OneWorks DEF Work
    <3> QED BY <1>3, <3>1
  <2>5. PICK ok \in BOOLEAN :
          /\ Refund(c.ref, amount, ok)
          /\ \/ ok /\ Carry(w, Credited(c, amount), "write")
             \/ Goto(w, "done")
    BY <1>11 DEF AwardRefund
  <2>6. g[w] = 0 \/ (ok /\ g[w] = amount)
    <3>1. CASE ok /\ Carry(w, Credited(c, amount), "write")
      <4>1. job'[w].at = "write" /\ job'[w].op = "resolve" /\ job'[w].refund = amount
        BY <2>2, <3>1, CarryWent DEF WentOn
      <4> QED BY <1>3, <3>1, <4>1 DEF Pending
    <3>2. CASE Goto(w, "done")
      <4>1. job'[w].at = "done"
        BY <3>2, GotoWent DEF WentOn
      <4> QED BY <1>3, <4>1 DEF Pending
    <3> QED BY <2>5, <3>1, <3>2
  <2>7. ok => Returned + amount <= Returned'
    BY <2>2, <2>5, RefundGives
  <2>8. \A v \in Worker : f[v] \in Nat /\ g[v] \in Nat
    BY <1>4, <2>2, <2>4, <2>6
  <2>9. SumOver(g, Worker) + f[w] = SumOver(f, Worker) + g[w]
    BY <1>2, <2>4, <2>8, SumUpdate
  <2>10. SumOver(g, Worker) \in Nat
    BY <1>2, <2>8, SumType
  <2> HIDE DEF c, amount
  <2> QED BY <1>1, <1>7, <1>8, <1>9, <2>1, <2>2, <2>3, <2>6, <2>7, <2>9, <2>10
<1>12. ASSUME NEW w \in Worker, UpdateRow(w), job[w].op = "resolve", refunds[job[w].d] = 0
       PROVE  SumOver(refunds', Dispute) + SumOver(g, Worker) <= Returned'
  <2> DEFINE d == job[w].d
             amount == job[w].refund
  <2>1. d \in Dispute /\ amount \in Nat /\ job[w].at = "write"
    BY <1>12, JobFacts, PaymentAssumption DEF SoundJob, UpdateRow, At
  <2>2. refunds' = [refunds EXCEPT ![d] = amount] /\ refunds \in [Dispute -> 0 .. Total]
    BY <1>12 DEF UpdateRow, Typed, TypeOK
  <2>3. SumOver(refunds', Dispute) + refunds[d] = SumOver(refunds, Dispute) + amount
    <3>1. refunds'[d] = amount /\ \A e \in Dispute \ {d} : refunds'[e] = refunds[e]
      BY <2>1, <2>2
    <3>2. \A h : h = refunds' => SumOver(h, Dispute) + refunds[d] = SumOver(refunds, Dispute) + h[d]
      <4>1. ASSUME NEW h, h = refunds'
            PROVE  SumOver(h, Dispute) + refunds[d] = SumOver(refunds, Dispute) + h[d]
        <5>1. \A e \in Dispute : refunds[e] \in Nat /\ h[e] \in Nat
          BY <1>5, <4>1
        <5>2. \A e \in Dispute \ {d} : h[e] = refunds[e]
          BY <3>1, <4>1
        <5> QED BY <1>2, <2>1, <5>1, <5>2, SumUpdate
      <4> QED BY <4>1
    <3> QED BY <3>1, <3>2
  <2>4. f[w] = amount
    BY <1>3, <1>12, <2>1 DEF Pending
  <2>5. g[w] = 0
    <3>1. PICK at \in {"hold", "decide"} : Goto(w, at)
      BY <1>12 DEF UpdateRow, AfterRefund
    <3>2. job'[w].at = at
      BY <3>1, GotoWent DEF WentOn
    <3> QED BY <1>3, <3>2 DEF Pending
  <2>6. \A v \in Worker \ {w} : g[v] = f[v]
    <3>1. \A v \in Worker \ {w} : job'[v] = job[v]
      BY <1>12, OneWorks DEF Work
    <3> QED BY <1>3, <3>1
  <2>7. \A v \in Worker : f[v] \in Nat /\ g[v] \in Nat
    BY <1>4, <2>5, <2>6
  <2>8. SumOver(g, Worker) + f[w] = SumOver(f, Worker) + g[w]
    BY <1>2, <2>6, <2>7, SumUpdate
  <2>9. SumOver(g, Worker) \in Nat
    BY <1>2, <2>7, SumType
  <2> HIDE DEF d, amount
  <2> QED BY <1>1, <1>7, <1>8, <1>9, <1>12, <2>1, <2>3, <2>4, <2>5, <2>8, <2>9 DEF d
<1>13. ASSUME \A w \in Worker :
                ~AwardRefund(w) /\ ~(UpdateRow(w) /\ job[w].op = "resolve" /\ refunds[job[w].d] = 0)
       PROVE  SumOver(refunds', Dispute) + SumOver(g, Worker) <= Returned'
  <2>1. refunds' = refunds
    <3>1. ASSUME NEW w \in Worker, UpdateRow(w) PROVE refunds' = refunds
      BY <1>13, <3>1 DEF UpdateRow
    <3> QED BY <3>1, RefundsKept
  <2>2. \A v \in Worker : f[v] \in Nat /\ g[v] \in Nat /\ g[v] <= f[v]
    BY <1>4, <1>13
  <2>3. SumOver(g, Worker) <= SumOver(f, Worker) /\ SumOver(g, Worker) \in Nat
    BY <1>2, <2>2, SumGrows, SumType
  <2> QED BY <1>1, <1>7, <1>8, <1>9, <2>1, <2>3
<1> QED BY <1>11, <1>12, <1>13

\* At the start nothing was asked, reported, given back or written down.
LEMMA BooksInit == ASSUME Init PROVE Reported /\ Grounded /\ Covered
<1> DEFINE f == [r \in Ref |-> IF intent[r].use = "rental" THEN intent[r].back ELSE 0]
           u == Unrecorded
<1>1. (\A r \in Ref : f[r] = 0) /\ (\A w \in Worker : u[w] = 0) /\ (\A d \in Dispute : refunds[d] = 0)
  BY DEF Init, Unused, Unrecorded, Idle
<1>2. Returned = SumOver(f, Ref)
  BY DEF Returned
<1> HIDE DEF f, u
<1>3. Returned = 0 /\ SumOver(u, Worker) = 0 /\ SumOver(refunds, Dispute) = 0
  BY <1>1, <1>2, SumZero, PaymentAssumption
<1>4. Covered
  BY <1>3 DEF Covered, u
<1>5. Grounded
  BY <1>3 DEF Init, Grounded, Idle, NoRow
<1>6. Reported
  BY DEF Init, Reported, Reports, Idle, NoHook
<1> QED BY <1>4, <1>5, <1>6

LEMMA BooksAlways == Spec => [](Reported /\ Grounded /\ Covered)
<1>1. Init => Reported /\ Grounded /\ Covered
  BY BooksInit
<1>2. /\ Typed /\ Typed' /\ Asked /\ RowsAreBacked
      /\ Reported /\ Grounded /\ Covered /\ [Next]_vars
      => Reported' /\ Grounded' /\ Covered'
  BY ReportedStep, GroundedStep, CoveredStep
<1> QED BY <1>1, <1>2, TypedAlways, AskedAlways, BackedAlways, PTL DEF Spec

\* The row's running total and the disputes' adjustments never exceed what the
\* gateway gave back, whatever answers are lost and whatever stale copies write
\* (RefundPartial, RefundForBooking, ReconcileGatewayEvent, Update).
THEOREM LedgerBacked == Spec => []LedgerIsBacked
<1>1. ASSUME Typed, Grounded, Covered PROVE LedgerIsBacked
  <2> DEFINE u == Unrecorded
  <2>1. \A w \in Worker : u[w] \in Nat
    BY <1>1, JobFacts, PaymentAssumption DEF Unrecorded
  <2>2. \A d \in Dispute : refunds[d] \in Nat
    BY <1>1, PaymentAssumption DEF Typed, TypeOK
  <2> HIDE DEF u
  <2>3. SumOver(u, Worker) \in Nat /\ SumOver(refunds, Dispute) \in Nat /\ Returned \in Nat
    BY <1>1, <2>1, <2>2, SumType, ReturnedNat, PaymentAssumption
  <2> QED BY <1>1, <2>3 DEF Grounded, Covered, LedgerIsBacked, u
<1>2. Typed /\ (Reported /\ Grounded /\ Covered) => LedgerIsBacked
  BY <1>1
<1> QED BY <1>2, TypedAlways, BooksAlways, PTL

-----------------------------------------------------------------------------
(* One hold at a time: a purpose and an amount have one reference, and a hold *)
(* for another total is placed only when the first is back.                  *)

\* The hold of the booking's first total was released whole.
Replaced == \E r \in Ref : /\ intent[r].use = "rental" /\ intent[r].amount = Total
                           /\ intent[r].back = Total

OneEach ==
  /\ \A r, q \in Ref : /\ intent[r].use # "none" /\ intent[r].use = intent[q].use
                       /\ intent[r].amount = intent[q].amount
                       => r = q
  /\ (\E r \in Ref : intent[r].use = "rental" /\ intent[r].amount # Total) => Replaced
  /\ (\E w \in Worker : job[w].at = "replace") => Replaced

\* What the gateway has given back stays back.
LEMMA ReplacedStays ==
  ASSUME Typed, GatewayMoved, Replaced
  PROVE  Replaced'
<1>1. PICK r \in Ref : /\ intent[r].use = "rental" /\ intent[r].amount = Total
                       /\ intent[r].back = Total
  BY DEF Replaced
<1>2. /\ intent'[r].use = "rental" /\ intent'[r].amount = Total
      /\ Total <= intent'[r].back /\ intent'[r].back <= Total /\ intent'[r].back \in Nat
  BY <1>1, PaymentAssumption DEF GatewayMoved, Grown, IntentType, Amount
<1>3. intent'[r].back = Total
  BY <1>2, PaymentAssumption
<1> QED BY <1>2, <1>3 DEF Replaced

\* A reference is made for a purpose and an amount that had none, by a job that
\* places the first hold, the deposit or a replacement.
LEMMA PlaceMoves ==
  ASSUME Typed, [Next]_vars
  PROVE  \/ UsesKept
         \/ \E w \in Worker, r \in Ref, use \in {"rental", "deposit"}, amount \in Nat :
              /\ use = "rental" => amount = Total \/ job[w].at = "replace"
              /\ intent'[r].use = use /\ intent'[r].amount = amount
              /\ \A q \in Ref \ {r} : intent'[q] = intent[q]
              /\ \A p \in Ref : ~(intent[p].use = use /\ intent[p].amount = amount)
<1>0. Sane /\ policy \in Nat /\ Total \in Nat /\ NewTotal \in Nat /\ Deposit \in Nat
  BY PaymentAssumption DEF Typed, TypeOK, Shape, Sane
<1>s. intent' = intent => UsesKept
  BY DEF UsesKept
<1>1. ASSUME NEW w \in Worker, PlaceHold(w) \/ ReplaceHold(w) \/ PlaceDeposit(w)
      PROVE  \/ UsesKept
             \/ \E r \in Ref, use \in {"rental", "deposit"}, amount \in Nat :
                  /\ use = "rental" => amount = Total \/ job[w].at = "replace"
                  /\ intent'[r].use = use /\ intent'[r].amount = amount
                  /\ \A q \in Ref \ {r} : intent'[q] = intent[q]
                  /\ \A p \in Ref : ~(intent[p].use = use /\ intent[p].amount = amount)
  <2>1. PICK r \in Ref, use \in {"rental", "deposit"}, amount \in Nat, ok \in BOOLEAN :
          /\ Authorize(w, use, amount, r, ok)
          /\ use = "rental" => amount = Total \/ (job[w].at = "replace" /\ amount = NewTotal)
          /\ use = "deposit" => amount = Deposit
    BY <1>0, <1>1 DEF PlaceHold, ReplaceHold, PlaceDeposit, At
  <2>2. \A q \in Ref : intent'[q] # intent[q] =>
              /\ q = r
              /\ intent'[r].use = use /\ intent'[r].amount = amount
              /\ \A p \in Ref : ~(intent[p].use = use /\ intent[p].amount = amount)
    BY <1>0, <2>1, AuthorizeFacts
  <2>3. CASE intent'[r] = intent[r]
    BY <2>2, <2>3 DEF UsesKept
  <2>4. CASE intent'[r] # intent[r]
    BY <2>1, <2>2, <2>4
  <2> QED BY <2>3, <2>4
<1>2. ASSUME NEW w \in Worker, Work(w), ~(PlaceHold(w) \/ ReplaceHold(w) \/ PlaceDeposit(w))
      PROVE  UsesKept
  <2> DEFINE j == job[w]
  <2>1. /\ j.row.ref \in Ref \cup {0} /\ (j.row.ref # 0 => intent[j.row.ref].use # "none")
        /\ j.hold.ref \in Ref \cup {0} /\ (j.hold.ref # 0 => intent[j.hold.ref].use # "none")
        /\ j.row.amount \in Nat /\ j.refund \in Nat /\ Owed(j.row) \in Nat
    BY <1>0, JobFacts DEF RowType, HoldType, Owed
  <2> HIDE DEF j
  <2>2. ASSUME NEW ok \in BOOLEAN, NEW amount \in Nat,
               Refund(j.row.ref, amount, ok) \/ Refund(j.hold.ref, amount, ok)
        PROVE  UsesKept
    BY <1>0, <2>1, <2>2, RefundFacts
  <2>3. ASSUME NEW ok \in BOOLEAN, Capture(j.row.ref, ok) \/ Capture(j.hold.ref, ok)
        PROVE  UsesKept
    BY <1>0, <2>1, <2>3, CaptureFacts
  <2>4. ASSUME ReleaseHold(w) \/ ReturnMoney(w) \/ AwardRefund(w) \/ ReturnDeposit(w)
        PROVE  UsesKept
    BY <1>0, <2>1, <2>2, <2>4 DEF ReleaseHold, ReturnMoney, AwardRefund, ReturnDeposit, j
  <2>5. ASSUME Charge(w) \/ ChargeDeposit(w) PROVE UsesKept
    BY <2>3, <2>5 DEF Charge, ChargeDeposit, j
  <2>6. ASSUME \/ LoadRow(w) \/ InsertRow(w) \/ UpdateRow(w) \/ LoadHold(w) \/ InsertDeposit(w)
               \/ WriteDeposit(w) \/ RecordDeposit(w) \/ LoadOverflow(w) \/ RecordClaim(w)
               \/ Decide(w) \/ Finish(w)
        PROVE  UsesKept
    BY <1>s, <2>6 DEF LoadRow, InsertRow, UpdateRow, LoadHold, InsertDeposit, WriteDeposit,
                      RecordDeposit, LoadOverflow, RecordClaim, Decide, Finish, gateway
  <2> QED BY <1>2, <2>4, <2>5, <2>6 DEF Work
<1>3. ASSUME NEW w \in Worker, Arrive(w) \/ Crash(w) PROVE UsesKept
  BY <1>s, <1>3, ArriveShape DEF Crash, gateway
<1>4. ASSUME NEW r \in Ref, Decline(r) PROVE UsesKept
  BY <1>0, <1>4, DeclineFacts
<1>5. ASSUME (\E d \in Dispute : OpenDispute(d)) \/ Modify \/ Confirm \/ Cancel \/ Complete
             \/ UNCHANGED vars
      PROVE  UsesKept
  BY <1>s, <1>5 DEF OpenDispute, Modify, Confirm, Cancel, Complete, Publish, vars, gateway
<1> QED BY <1>1, <1>2, <1>3, <1>4, <1>5 DEF Next, Around

\* A job places a replacement only after it released the first hold.
LEMMA ReplaceAfterRelease ==
  ASSUME Typed, OneEach, [Next]_vars, NEW w \in Worker, job'[w].at = "replace"
  PROVE  Replaced'
<1>0. GatewayMoved
  BY GatewayStep
<1>1. CASE job[w].at = "replace"
  BY <1>0, <1>1, ReplacedStays DEF OneEach
<1>2. CASE job[w].at # "replace"
  <2>1. Work(w) /\ ~Finish(w)
    <3>1. job'[w] # Idle
      BY BlankTypes
    <3>2. ~Arrive(w)
      <4>1. ASSUME NEW j \in JobType, job' = [job EXCEPT ![w] = j], j.at \in {"row", "hold", "decide"}
            PROVE  job'[w].at # "replace"
        BY <4>1 DEF Typed, TypeOK
      <4> QED BY <4>1, ArriveShape
    <3> QED BY <1>2, <3>1, <3>2, JobCases
  <2>2. ASSUME NEW at, NEW r, NEW h, WentOn(w, at, r, h) PROVE at = "replace"
    BY <2>2 DEF WentOn
  <2>3. ASSUME NEW at, Goto(w, at) PROVE at = "replace"
    BY <2>2, <2>3, GotoWent
  <2>4. ASSUME NEW at, NEW r, Carry(w, r, at) PROVE at = "replace"
    BY <2>2, <2>4, CarryWent
  <2>5. ASSUME NEW at, NEW h, CarryHold(w, h, at) PROVE at = "replace"
    BY <2>2, <2>5, CarryHoldWent
  <2>6. ~LoadRow(w)
    BY <2>4, TurnGuards DEF LoadRow
  <2>7. ~(PlaceHold(w) \/ ReplaceHold(w) \/ InsertRow(w) \/ Charge(w) \/ ReturnMoney(w) \/ AwardRefund(w))
    BY <2>3, <2>4 DEF PlaceHold, ReplaceHold, InsertRow, Charge, ReturnMoney, AwardRefund
  <2>8. ~(UpdateRow(w) \/ RecordClaim(w) \/ Decide(w) \/ LoadOverflow(w))
    BY <2>3, <2>4 DEF UpdateRow, RecordClaim, Decide, LoadOverflow, AfterRefund
  <2>9. ~(LoadHold(w) \/ PlaceDeposit(w))
    BY <2>5 DEF LoadHold, PlaceDeposit
  <2>10. ~(InsertDeposit(w) \/ ReturnDeposit(w) \/ WriteDeposit(w) \/ ChargeDeposit(w) \/ RecordDeposit(w))
    BY <2>3 DEF InsertDeposit, ReturnDeposit, WriteDeposit, ChargeDeposit, RecordDeposit
  <2>11. ReleaseHold(w)
    BY <2>1, <2>6, <2>7, <2>8, <2>9, <2>10 DEF Work
  <2> DEFINE c == job[w].row
  <2>12. Refund(c.ref, c.amount, TRUE) /\ job[w].at = "release"
    <3>1. PICK ok \in BOOLEAN :
            Refund(c.ref, c.amount, ok) /\ Goto(w, IF ok THEN "replace" ELSE "done")
      BY <2>11 DEF ReleaseHold
    <3>2. ok = TRUE
      BY <2>3, <3>1
    <3> QED BY <2>11, <3>1, <3>2 DEF ReleaseHold, At
  <2>13. /\ Sane /\ c.ref \in Ref \cup {0} /\ c.amount = Total
         /\ c.ref # 0 => intent[c.ref].use = "rental"
    BY <2>12, JobFacts DEF SoundJob, Sound, Writing, RowType
  <2> HIDE DEF c
  <2>14. /\ c.ref \in Ref /\ Refundable(intent[c.ref], Total)
         /\ intent'[c.ref].back = intent[c.ref].back + Total
    BY <2>12, <2>13, PaymentAssumption, RefundFacts
  <2>15. CASE intent[c.ref].amount # Total
    BY <1>0, <2>13, <2>14, <2>15, PaymentAssumption, ReplacedStays DEF OneEach
  <2>16. CASE intent[c.ref].amount = Total
    <3>0. intent[c.ref] \in IntentType
      BY <2>13, <2>14 DEF Sane, TypeOK
    <3>1. intent[c.ref].back \in Nat /\ intent[c.ref].back + Total <= Total
      BY <2>14, <2>16, <3>0, PaymentAssumption DEF Refundable, IntentType, Amount
    <3>2. intent'[c.ref].back = Total
      BY <2>14, <3>1, PaymentAssumption
    <3>3. intent'[c.ref].use = "rental" /\ intent'[c.ref].amount = Total
      BY <1>0, <2>13, <2>14, <2>16, PaymentAssumption DEF GatewayMoved, Grown
    <3> QED BY <2>14, <3>2, <3>3 DEF Replaced
  <2> QED BY <2>15, <2>16
<1> QED BY <1>1, <1>2

\* Every step keeps one reference for each purpose and amount.
LEMMA OneEachStep ==
  ASSUME Typed, OneEach, [Next]_vars
  PROVE  OneEach'
<1>0. GatewayMoved
  BY GatewayStep
<1>1. (\E w \in Worker : job'[w].at = "replace") => Replaced'
  BY ReplaceAfterRelease
<1>2. CASE UsesKept
  <2>1. (\E r \in Ref : intent'[r].use = "rental" /\ intent'[r].amount # Total) => Replaced'
    BY <1>0, <1>2, ReplacedStays DEF OneEach, UsesKept
  <2> QED BY <1>1, <1>2, <2>1 DEF OneEach, UsesKept
<1>3. CASE \E w \in Worker, r \in Ref, use \in {"rental", "deposit"}, amount \in Nat :
              /\ use = "rental" => amount = Total \/ job[w].at = "replace"
              /\ intent'[r].use = use /\ intent'[r].amount = amount
              /\ \A q \in Ref \ {r} : intent'[q] = intent[q]
              /\ \A p \in Ref : ~(intent[p].use = use /\ intent[p].amount = amount)
  <2>1. PICK w \in Worker, r \in Ref, use \in {"rental", "deposit"}, amount \in Nat :
              /\ use = "rental" => amount = Total \/ job[w].at = "replace"
              /\ intent'[r].use = use /\ intent'[r].amount = amount
              /\ \A q \in Ref \ {r} : intent'[q] = intent[q]
              /\ \A p \in Ref : ~(intent[p].use = use /\ intent[p].amount = amount)
    BY <1>3
  <2>2. (\E q \in Ref : intent'[q].use = "rental" /\ intent'[q].amount # Total) => Replaced
    BY <2>1 DEF OneEach
  <2>3. (\E q \in Ref : intent'[q].use = "rental" /\ intent'[q].amount # Total) => Replaced'
    BY <1>0, <2>2, ReplacedStays
  <2>4. ASSUME NEW p \in Ref, NEW q \in Ref, intent'[p].use # "none",
               intent'[p].use = intent'[q].use, intent'[p].amount = intent'[q].amount
        PROVE  p = q
    BY <2>1, <2>4 DEF OneEach
  <2> QED BY <1>1, <2>3, <2>4 DEF OneEach
<1> QED BY <1>2, <1>3, PlaceMoves

\* However often events are redelivered and answers lost, two references of one
\* purpose never hold or keep money at the same time (authorize, reauthorize,
\* placeDepositHold).
THEOREM NeverHeldTwice == Spec => []OneLiveHold
<1>1. Init => OneEach
  <2> SUFFICES ASSUME Init PROVE OneEach
    OBVIOUS
  <2>1. \A r \in Ref : intent[r].use = "none"
    BY UnusedFacts DEF Init
  <2>2. \A w \in Worker : job[w].at = "done"
    BY BlankTypes DEF Init
  <2> QED BY <2>1, <2>2 DEF OneEach
<1>2. Typed /\ OneEach /\ [Next]_vars => OneEach'
  BY OneEachStep
<1>3. Typed /\ OneEach => OneLiveHold
  <2> SUFFICES ASSUME Typed, OneEach, NEW r \in Ref, NEW q \in Ref, r # q,
                      intent[r].use = intent[q].use
               PROVE  \/ Held(intent[r]) + Kept(intent[r]) = 0
                      \/ Held(intent[q]) + Kept(intent[q]) = 0
    BY DEF OneLiveHold
  <2>1. \A s \in Ref : /\ Made(intent[s]) /\ intent[s].amount \in Nat /\ intent[s].back \in Nat
                       /\ intent[s].captured \in BOOLEAN
    BY PaymentAssumption DEF Typed, TypeOK, Shape, IntentType, Amount
  <2>2. \A s \in Ref : intent[s].back = intent[s].amount => Held(intent[s]) + Kept(intent[s]) = 0
    BY <2>1 DEF Held, Kept
  <2>3. CASE intent[r].use = "none"
    <3>1. intent[r] = Unused
      BY <2>1, <2>3 DEF Made
    <3> QED BY <2>2, <3>1, UnusedFacts
  <2>4. CASE intent[r].use # "none"
    <3>1. intent[r].amount # intent[q].amount
      BY <2>4 DEF OneEach
    <3>2. /\ intent[r].use = "rental" /\ intent[r].amount \in {Total, NewTotal}
          /\ intent[q].amount \in {Total, NewTotal}
      BY <2>1, <2>4, <3>1, UnusedFacts DEF Made
    <3>3. Replaced
      BY <3>1, <3>2 DEF OneEach
    <3>4. PICK s \in Ref : /\ intent[s].use = "rental" /\ intent[s].amount = Total
                           /\ intent[s].back = Total
      BY <3>3 DEF Replaced
    <3>5. s = r \/ s = q
      BY <3>1, <3>2, <3>4 DEF OneEach
    <3> QED BY <2>2, <3>4, <3>5
  <2> QED BY <2>3, <2>4
<1> QED BY <1>1, <1>2, <1>3, TypedAlways, PTL DEF Spec

-----------------------------------------------------------------------------
(* The deposit.  Its row is written once, so that a copy of it names the same *)
(* reference whoever charges or releases it meanwhile.                       *)

\* All of the reference was given back.
Back(r) == r \in Ref /\ intent[r].back = intent[r].amount

HoldJob(j) ==
  /\ j.hold.status = "authorized" => j.hold.ref # 0
  /\ j.at \in {"returnDeposit", "writeDeposit"} =>
       j.hold.status = "authorized" /\ hold.status # "none" /\ hold.ref = j.hold.ref
  /\ j.at = "writeDeposit" => Back(j.hold.ref)
  /\ j.at = "insertDeposit" => j.hold.status \in {"authorized", "failed"}

HoldStands ==
  /\ hold.status = "authorized" => hold.ref # 0
  /\ hold.status = "released" => Back(hold.ref)
  /\ \A w \in Worker : HoldJob(job[w])

\* What is back stays back.
LEMMA BackStays ==
  ASSUME Typed, GatewayMoved, NEW r, Back(r), intent[r].use # "none"
  PROVE  Back(r)'
<1>1. /\ r \in Ref /\ intent[r].back = intent[r].amount /\ intent[r].amount \in Nat
      /\ Grown(intent[r], intent'[r]) /\ intent'[r].amount = intent[r].amount
      /\ intent'[r].back \in Nat
  BY PaymentAssumption DEF Back, Typed, TypeOK, GatewayMoved, Grown, IntentType, Amount
<1>2. intent'[r].back = intent'[r].amount
  BY <1>1 DEF Grown
<1> QED BY <1>1, <1>2 DEF Back

\* The deposit's row is inserted once; later only its status changes.
LEMMA HoldMoves ==
  ASSUME Typed, [Next]_vars
  PROVE  \/ hold' = hold
         \/ \E w \in Worker : /\ job[w].at = "insertDeposit" /\ hold.status = "none"
                              /\ hold' = job[w].hold
         \/ \E w \in Worker : /\ job[w].at = "writeDeposit"
                              /\ hold'.status = "released" /\ hold'.ref = hold.ref
<1>0. hold \in HoldType
  BY DEF Typed, TypeOK
<1>1. ASSUME NEW w \in Worker, InsertDeposit(w)
      PROVE  hold' = hold \/ (job[w].at = "insertDeposit" /\ hold.status = "none" /\ hold' = job[w].hold)
  BY <1>1 DEF InsertDeposit, At
<1>2. ASSUME NEW w \in Worker, WriteDeposit(w)
      PROVE  job[w].at = "writeDeposit" /\ hold'.status = "released" /\ hold'.ref = hold.ref
  BY <1>0, <1>2 DEF WriteDeposit, At, HoldType
<1>3. ASSUME NEW w \in Worker, Work(w), ~InsertDeposit(w), ~WriteDeposit(w) PROVE hold' = hold
  <2>1. ASSUME \/ LoadRow(w) \/ PlaceHold(w) \/ ReleaseHold(w) \/ ReplaceHold(w)
               \/ Charge(w) \/ ReturnMoney(w) \/ AwardRefund(w) \/ LoadHold(w)
               \/ PlaceDeposit(w) \/ ReturnDeposit(w) \/ ChargeDeposit(w) \/ RecordDeposit(w)
               \/ LoadOverflow(w) \/ Finish(w)
        PROVE  hold' = hold
    BY <2>1 DEF LoadRow, PlaceHold, ReleaseHold, ReplaceHold, Charge, ReturnMoney, AwardRefund,
                LoadHold, PlaceDeposit, ReturnDeposit, ChargeDeposit, RecordDeposit, LoadOverflow,
                Finish, database
  <2>2. ASSUME InsertRow(w) \/ UpdateRow(w) \/ RecordClaim(w) \/ Decide(w) PROVE hold' = hold
    BY <2>2 DEF InsertRow, UpdateRow, RecordClaim, Decide
  <2> QED BY <1>3, <2>1, <2>2 DEF Work
<1>4. ASSUME NEW w \in Worker, Arrive(w) \/ Crash(w) PROVE hold' = hold
  BY <1>4, ArriveShape DEF Crash, database
<1>5. ASSUME Around \/ UNCHANGED vars PROVE hold' = hold
  BY <1>5 DEF Around, Modify, Confirm, Cancel, Complete, Publish, OpenDispute, Decline, vars, database
<1> QED BY <1>1, <1>2, <1>3, <1>4, <1>5 DEF Next

\* A job's copy of the deposit's row stays good.
LEMMA HoldJobStays ==
  ASSUME Typed, HoldStands, [Next]_vars, NEW j \in JobType, HoldJob(j), SoundJob(j)
  PROVE  HoldJob(j)'
<1>0. GatewayMoved
  BY GatewayStep
<1>1. hold.status # "none" => hold'.ref = hold.ref /\ hold'.status # "none"
  BY HoldMoves
<1>2. j.at = "writeDeposit" => Back(j.hold.ref)'
  <2>1. ASSUME NEW r, r = j.hold.ref, j.at = "writeDeposit" PROVE Back(r)'
    <3>1. Back(r) /\ intent[r].use # "none"
      BY <2>1 DEF HoldJob, SoundJob
    <3> QED BY <1>0, <3>1, BackStays
  <2> QED BY <2>1
<1> QED BY <1>1, <1>2 DEF HoldJob

\* What a job does next to the deposit, it does to the row that is there.
LEMMA HoldWork ==
  ASSUME Typed, HoldStands, [Next]_vars, NEW w \in Worker, Work(w), ~Finish(w)
  PROVE  HoldJob(job[w])'
<1>0. /\ GatewayMoved /\ Sane /\ job[w] \in JobType /\ HoldJob(job[w]) /\ SoundJob(job[w])
      /\ Deposit \in Nat
  BY GatewayStep, JobFacts, PaymentAssumption DEF HoldStands
<1> DEFINE h == job[w].hold
           Safe == {"row", "place", "insert", "release", "replace", "charge", "return", "write",
                    "hold", "placeDeposit", "chargeDeposit", "recordDeposit", "overflow", "claim",
                    "decide", "done"}
<1>w. ASSUME NEW at \in Safe, NEW r, NEW k \in {h, hold, NoHold}, WentOn(w, at, r, k)
      PROVE  HoldJob(job[w])'
  <2>1. k.status = "authorized" => k.ref # 0
    BY <1>0 DEF HoldJob, HoldStands, NoHold
  <2>2. NoHold.status # "authorized"
    BY DEF NoHold
  <2>3. job'[w].hold.status = "authorized" => job'[w].hold.ref # 0
    BY <1>w, <2>1, <2>2 DEF WentOn
  <2>4. job'[w].at \notin {"returnDeposit", "writeDeposit", "insertDeposit"}
    BY <1>w DEF WentOn
  <2> QED BY <2>3, <2>4 DEF HoldJob
<1>g. ASSUME NEW at \in Safe, Goto(w, at) PROVE HoldJob(job[w])'
  BY <1>g, <1>w, GotoWent
<1>k. ASSUME NEW at \in Safe, NEW r, Carry(w, r, at) PROVE HoldJob(job[w])'
  BY <1>k, <1>w, CarryWent
<1>1. CASE LoadRow(w)
  <2>1. Turn(job[w]) \in Safe
    BY DEF Turn, AfterRefund
  <2> QED BY <1>1, <1>k, <2>1 DEF LoadRow
<1>2. CASE PlaceHold(w) \/ ReplaceHold(w) \/ InsertRow(w) \/ ReleaseHold(w)
  BY <1>2, <1>g, <1>k DEF PlaceHold, ReplaceHold, InsertRow, ReleaseHold
<1>3. CASE Charge(w) \/ ReturnMoney(w) \/ AwardRefund(w)
  BY <1>3, <1>g, <1>k DEF Charge, ReturnMoney, AwardRefund
<1>4. CASE UpdateRow(w) \/ RecordClaim(w) \/ Decide(w) \/ LoadOverflow(w)
  BY <1>4, <1>g, <1>k DEF UpdateRow, RecordClaim, Decide, LoadOverflow, AfterRefund
<1>5. CASE InsertDeposit(w) \/ WriteDeposit(w) \/ ChargeDeposit(w) \/ RecordDeposit(w)
  BY <1>5, <1>g DEF InsertDeposit, WriteDeposit, ChargeDeposit, RecordDeposit
<1>6. CASE LoadHold(w)
  <2>1. /\ hold' = hold
        /\ \/ \E at \in Safe : CarryHold(w, hold, at)
           \/ hold.status = "authorized" /\ CarryHold(w, hold, "returnDeposit")
    BY <1>6 DEF LoadHold, database
  <2>2. ASSUME NEW at \in Safe, CarryHold(w, hold, at) PROVE HoldJob(job[w])'
    BY <1>w, <2>2, CarryHoldWent
  <2>3. ASSUME hold.status = "authorized", CarryHold(w, hold, "returnDeposit")
        PROVE  HoldJob(job[w])'
    <3>1. WentOn(w, "returnDeposit", NoRow, hold)
      BY <2>3, CarryHoldWent
    <3>2. job'[w].at = "returnDeposit" /\ job'[w].hold = hold
      BY <3>1 DEF WentOn
    <3> QED BY <2>1, <2>3, <3>2 DEF HoldJob, HoldStands
  <2> QED BY <2>1, <2>2, <2>3
<1>7. CASE PlaceDeposit(w)
  <2>1. PICK r \in Ref, ok \in BOOLEAN :
          CarryHold(w, [status |-> IF ok THEN "authorized" ELSE "failed",
                        ref |-> IF ok THEN r ELSE 0], "insertDeposit")
    BY <1>7 DEF PlaceDeposit
  <2> DEFINE k == [status |-> IF ok THEN "authorized" ELSE "failed", ref |-> IF ok THEN r ELSE 0]
  <2>2. WentOn(w, "insertDeposit", NoRow, k)
    BY <2>1, CarryHoldWent
  <2>3. k.status \in {"authorized", "failed"} /\ (k.status = "authorized" => k.ref # 0)
    BY PaymentAssumption
  <2> HIDE DEF k
  <2>4. job'[w].at = "insertDeposit" /\ job'[w].hold = k
    BY <2>2 DEF WentOn
  <2> QED BY <2>3, <2>4 DEF HoldJob
<1>8. CASE ReturnDeposit(w)
  <2>1. PICK ok \in BOOLEAN :
          Refund(h.ref, Deposit, ok) /\ Goto(w, IF ok THEN "writeDeposit" ELSE "done")
    BY <1>8 DEF ReturnDeposit
  <2>2. /\ h.status = "authorized" /\ hold.status # "none" /\ hold.ref = h.ref
        /\ h.ref \in Ref \cup {0} /\ h.ref # 0 /\ intent[h.ref].use = "deposit" /\ hold' = hold
    BY <1>0, <1>8 DEF ReturnDeposit, At, HoldJob, SoundJob, JobType, HoldType, database
  <2>3. CASE ok
    <3>1. /\ Refundable(intent[h.ref], Deposit)
          /\ intent'[h.ref].back = intent[h.ref].back + Deposit
      BY <1>0, <2>1, <2>2, <2>3, RefundFacts
    <3>2. /\ intent[h.ref].amount = Deposit /\ intent[h.ref].back \in Nat
          /\ intent'[h.ref].amount = intent[h.ref].amount
      <4>1. ASSUME NEW r \in Ref, intent[r].use = "deposit"
            PROVE  /\ intent[r].amount = Deposit /\ intent[r].back \in Nat
                   /\ intent'[r].amount = intent[r].amount
        <5>1. Made(intent[r]) /\ intent[r] \in IntentType /\ Grown(intent[r], intent'[r])
          BY <1>0 DEF Sane, TypeOK, GatewayMoved
        <5>2. intent[r].amount = Deposit
          BY <4>1, <5>1, UnusedFacts DEF Made
        <5>3. intent[r].back \in Nat
          BY <5>1, PaymentAssumption DEF IntentType, Amount
        <5>4. intent'[r].amount = intent[r].amount
          BY <4>1, <5>1 DEF Grown
        <5> QED BY <5>2, <5>3, <5>4
      <4> HIDE DEF h
      <4> QED BY <2>2, <4>1
    <3>3. intent'[h.ref].back = intent'[h.ref].amount
      BY <3>1, <3>2, PaymentAssumption DEF Refundable
    <3>4. WentOn(w, "writeDeposit", job[w].row, h)
      BY <2>1, <2>3, GotoWent
    <3>5. job'[w].at = "writeDeposit" /\ job'[w].hold = h
      BY <3>4 DEF WentOn
    <3>6. h.ref \in Ref
      BY <2>2
    <3> HIDE DEF h
    <3> QED BY <2>2, <3>3, <3>5, <3>6 DEF HoldJob, Back
  <2>4. CASE ~ok
    BY <1>g, <2>1, <2>4
  <2> QED BY <2>3, <2>4
<1> QED BY <1>1, <1>2, <1>3, <1>4, <1>5, <1>6, <1>7, <1>8 DEF Work

\* Every step keeps what the deposit's row and the copies of it say.
LEMMA HoldStep ==
  ASSUME Typed, HoldStands, [Next]_vars
  PROVE  HoldStands'
<1>0. GatewayMoved
  BY GatewayStep
<1>1. ASSUME NEW v \in Worker PROVE HoldJob(job[v])'
  <2>1. CASE job'[v] = job[v]
    <3>1. ASSUME NEW j, j = job'[v] PROVE HoldJob(j)'
      <4>1. j \in JobType /\ SoundJob(j) /\ HoldJob(j)
        BY <2>1, <3>1, JobFacts DEF HoldStands
      <4> QED BY <4>1, HoldJobStays
    <3> QED BY <3>1 DEF HoldJob, Back
  <2>2. ASSUME NEW j, job'[v] = j, j.hold = NoHold, j.at \in {"row", "hold", "decide", "done"}
        PROVE  HoldJob(job[v])'
    BY <2>2 DEF HoldJob, NoHold
  <2>3. CASE job'[v] = Idle
    BY <2>2, <2>3, BlankTypes
  <2>4. CASE Arrive(v)
    <3>1. PICK j \in JobType : /\ job' = [job EXCEPT ![v] = j] /\ j.hold = NoHold
                               /\ j.at \in {"row", "hold", "decide"}
      BY <2>4, ArriveShape
    <3>2. job'[v] = j
      BY <3>1 DEF Typed, TypeOK
    <3> QED BY <2>2, <3>1, <3>2
  <2> QED BY <2>1, <2>3, <2>4, JobCases, HoldWork
<1>2. \A w \in Worker : HoldJob(job[w]) /\ SoundJob(job[w])
  BY JobFacts DEF HoldStands
<1>3. hold'.status = "authorized" => hold'.ref # 0
  BY <1>2, HoldMoves DEF HoldStands, HoldJob
<1>4. hold'.status = "released" => Back(hold.ref)'
  <2>1. CASE hold' = hold
    <3>1. ASSUME NEW r, r = hold.ref, hold.status = "released" PROVE Back(r)'
      <4>1. Back(r) /\ intent[r].use # "none"
        <5>1. Back(r)
          BY <3>1 DEF HoldStands
        <5>2. r # 0
          BY <5>1, PaymentAssumption DEF Back
        <5> QED BY <3>1, <5>1, <5>2 DEF Typed, TypeOK
      <4> QED BY <1>0, <4>1, BackStays
    <3> QED BY <2>1, <3>1 DEF Back
  <2>2. ASSUME NEW w \in Worker, job[w].at = "insertDeposit", hold' = job[w].hold
        PROVE  hold'.status # "released"
    BY <1>2, <2>2 DEF HoldJob
  <2>3. ASSUME NEW w \in Worker, job[w].at = "writeDeposit", hold'.ref = hold.ref
        PROVE  Back(hold.ref)'
    <3>1. ASSUME NEW r, r = hold.ref PROVE Back(r)'
      <4>1. Back(r) /\ intent[r].use # "none"
        BY <1>2, <2>3, <3>1 DEF HoldJob, SoundJob
      <4> QED BY <1>0, <4>1, BackStays
    <3> QED BY <2>3, <3>1 DEF Back
  <2> QED BY <2>1, <2>2, <2>3, HoldMoves
<1> QED BY <1>1, <1>3, <1>4 DEF HoldStands

\* A deposit that says released is back with the guest, also when a damage award
\* charged it between (releaseDepositHold, applyDamage).
THEOREM ReleasedIsBack == Spec => []ReleasedDepositIsBack
<1>1. Init => HoldStands
  <2>1. NoHold.status = "none"
    BY DEF NoHold
  <2> QED BY <2>1, BlankTypes DEF Init, HoldStands, HoldJob
<1>2. Typed /\ HoldStands /\ [Next]_vars => HoldStands'
  BY HoldStep
<1>3. Typed /\ HoldStands => ReleasedDepositIsBack
  <2> SUFFICES ASSUME Typed, HoldStands, hold.status = "released"
               PROVE  Held(intent[hold.ref]) + Kept(intent[hold.ref]) = 0
    BY DEF ReleasedDepositIsBack
  <2>1. hold.ref \in Ref /\ intent[hold.ref].back = intent[hold.ref].amount
    BY DEF HoldStands, Back
  <2>2. intent[hold.ref].amount \in Nat
    <3>1. intent[hold.ref] \in IntentType
      BY <2>1 DEF Typed, TypeOK
    <3> QED BY <3>1, PaymentAssumption DEF IntentType, Amount
  <2> QED BY <2>1, <2>2 DEF Held, Kept
<1> QED BY <1>1, <1>2, <1>3, TypedAlways, PTL DEF Spec

-----------------------------------------------------------------------------
(* Decisions.  A resolution passes the refund on its way to the decision, and *)
(* the adjustment of a dispute is never taken back.                          *)

Later == {"hold", "chargeDeposit", "recordDeposit", "overflow", "claim", "decide"}

AwardJob(j) ==
  /\ j.op = "resolve" /\ j.refund > 0 /\ j.at \in Later => refunds[j.d] > 0
  /\ j.at = "charge" => j.op # "resolve"

AwardIsRecorded == \A w \in Worker : AwardJob(job[w])

\* An adjustment stays.
LEMMA RefundsStay ==
  ASSUME Typed, [Next]_vars, NEW d \in Dispute, refunds[d] > 0
  PROVE  refunds'[d] > 0
<1>0. refunds \in [Dispute -> 0 .. Total] /\ Total \in Nat
  BY PaymentAssumption DEF Typed, TypeOK
<1>1. ASSUME NEW w \in Worker, UpdateRow(w) PROVE refunds'[d] > 0
  BY <1>0, <1>1 DEF UpdateRow
<1>2. ASSUME NEW w \in Worker, Work(w), ~UpdateRow(w) PROVE refunds' = refunds
  <2>1. ASSUME \/ LoadRow(w) \/ PlaceHold(w) \/ ReleaseHold(w) \/ ReplaceHold(w)
               \/ Charge(w) \/ ReturnMoney(w) \/ AwardRefund(w) \/ LoadHold(w)
               \/ PlaceDeposit(w) \/ ReturnDeposit(w) \/ ChargeDeposit(w) \/ RecordDeposit(w)
               \/ LoadOverflow(w) \/ Finish(w)
        PROVE  refunds' = refunds
    BY <2>1 DEF LoadRow, PlaceHold, ReleaseHold, ReplaceHold, Charge, ReturnMoney, AwardRefund,
                LoadHold, PlaceDeposit, ReturnDeposit, ChargeDeposit, RecordDeposit, LoadOverflow,
                Finish, database
  <2>2. ASSUME InsertRow(w) \/ InsertDeposit(w) \/ WriteDeposit(w) \/ RecordClaim(w) \/ Decide(w)
        PROVE  refunds' = refunds
    BY <2>2 DEF InsertRow, InsertDeposit, WriteDeposit, RecordClaim, Decide
  <2> QED BY <1>2, <2>1, <2>2 DEF Work
<1>3. ASSUME NEW w \in Worker, Arrive(w) \/ Crash(w) PROVE refunds' = refunds
  BY <1>3, ArriveShape DEF Crash, database
<1>4. ASSUME Around \/ UNCHANGED vars PROVE refunds' = refunds
  BY <1>4 DEF Around, Modify, Confirm, Cancel, Complete, Publish, OpenDispute, Decline, vars, database
<1> QED BY <1>1, <1>2, <1>3, <1>4 DEF Next

\* A resolution that goes on past its refund has it in the ledger.
LEMMA AwardWork ==
  ASSUME Typed, AwardIsRecorded, [Next]_vars, NEW w \in Worker, Work(w), ~Finish(w)
  PROVE  AwardJob(job[w])'
<1> DEFINE j == job[w]
<1>0. /\ j \in JobType /\ SoundJob(j) /\ AwardJob(j) /\ j.refund \in Nat
      /\ refunds \in [Dispute -> 0 .. Total] /\ Total \in Nat
  <2>1. j \in JobType /\ SoundJob(j) /\ j.refund \in 0 .. Total
    BY JobFacts
  <2>2. AwardJob(j)
    BY DEF AwardIsRecorded
  <2>3. refunds \in [Dispute -> 0 .. Total] /\ Total \in Nat
    BY PaymentAssumption DEF Typed, TypeOK
  <2> QED BY <2>1, <2>2, <2>3
<1>a. j.at # "done"
  <2>1. ASSUME LoadRow(w) \/ PlaceHold(w) \/ InsertRow(w) \/ ReleaseHold(w) \/ ReplaceHold(w)
               \/ Charge(w) \/ ReturnMoney(w) \/ AwardRefund(w) \/ UpdateRow(w)
        PROVE  j.at # "done"
    BY <2>1 DEF LoadRow, PlaceHold, InsertRow, ReleaseHold, ReplaceHold, Charge, ReturnMoney,
                AwardRefund, UpdateRow, At
  <2>2. ASSUME LoadHold(w) \/ PlaceDeposit(w) \/ InsertDeposit(w) \/ ReturnDeposit(w)
               \/ WriteDeposit(w) \/ ChargeDeposit(w) \/ RecordDeposit(w) \/ LoadOverflow(w)
               \/ RecordClaim(w) \/ Decide(w)
        PROVE  j.at # "done"
    BY <2>2 DEF LoadHold, PlaceDeposit, InsertDeposit, ReturnDeposit, WriteDeposit, ChargeDeposit,
                RecordDeposit, LoadOverflow, RecordClaim, Decide, At
  <2> QED BY <2>1, <2>2 DEF Work
<1>w. ASSUME NEW at, NEW r, NEW h, WentOn(w, at, r, h),
             at = "charge" => j.op # "resolve",
             \/ at \notin Later \/ j.op # "resolve" \/ j.at \in Later
             \/ refunds[j.d] > 0 \/ (j.refund > 0 => refunds'[j.d] > 0)
      PROVE  AwardJob(job[w])'
  <2>1. job'[w].op = j.op /\ job'[w].at = at
    BY <1>w DEF WentOn
  <2>2. at # "done" => job'[w].d = j.d /\ job'[w].refund = j.refund
    BY <1>w DEF WentOn
  <2>3. ASSUME j.op = "resolve", j.refund > 0, at \in Later, NEW d, d = j.d PROVE refunds'[d] > 0
    <3>1. d \in Dispute
      BY <1>0, <1>a, <2>3 DEF SoundJob
    <3>2. refunds[d] > 0 \/ refunds'[d] > 0
      BY <1>0, <1>w, <2>3 DEF AwardJob
    <3> QED BY <3>1, <3>2, RefundsStay
  <2>4. "done" \notin Later
    BY DEF Later
  <2> QED BY <1>w, <2>1, <2>2, <2>3, <2>4 DEF AwardJob
<1>l. ASSUME NEW at \in Later, NEW r, NEW h, WentOn(w, at, r, h),
             j.op # "resolve" \/ j.at \in Later
      PROVE  AwardJob(job[w])'
  BY <1>l, <1>w DEF Later
<1>o. ASSUME NEW at, NEW r, NEW h, WentOn(w, at, r, h), at \notin Later, at # "charge"
      PROVE  AwardJob(job[w])'
  BY <1>o, <1>w
<1> HIDE DEF j
<1>1. CASE LoadRow(w)
  <2>1. PICK r : WentOn(w, Turn(j), r, job[w].hold)
    BY <1>1, CarryWent DEF LoadRow, j
  <2>2. Turn(j) = "charge" => j.op # "resolve"
    BY DEF Turn, AfterRefund
  <2>3. \/ Turn(j) \notin Later \/ j.op # "resolve"
        \/ refunds[j.d] # 0
    BY DEF Turn, AfterRefund, Later
  <2>4. j.op = "resolve" => refunds[j.d] \in Nat
    <3>1. j.op = "resolve" => j.d \in Dispute
      BY <1>0, <1>a DEF SoundJob
    <3> QED BY <1>0, <3>1
  <2>5. \/ Turn(j) \notin Later \/ j.op # "resolve" \/ refunds[j.d] > 0
    BY <2>3, <2>4
  <2> QED BY <1>w, <2>1, <2>2, <2>5
<1>2. CASE PlaceHold(w) \/ ReplaceHold(w) \/ InsertRow(w) \/ ReleaseHold(w)
  <2>1. \E at \in {"insert", "write", "done", "replace"} : \E r : Carry(w, r, at) \/ Goto(w, at)
    BY <1>2 DEF PlaceHold, ReplaceHold, InsertRow, ReleaseHold
  <2> QED BY <1>o, <2>1, CarryWent, GotoWent DEF Later
<1>3. CASE Charge(w) \/ ReturnMoney(w)
  <2>1. j.op # "resolve"
    BY <1>0, <1>3 DEF Charge, ReturnMoney, At, AwardJob, j
  <2>2. \E at \in {"hold", "write"} : \E r : Carry(w, r, at) \/ Goto(w, at)
    BY <1>3 DEF Charge, ReturnMoney
  <2> QED BY <1>l, <1>o, <2>1, <2>2, CarryWent, GotoWent DEF Later
<1>4. CASE AwardRefund(w)
  <2>1. \E at \in {"write", "done"} : \E r : Carry(w, r, at) \/ Goto(w, at)
    BY <1>4 DEF AwardRefund
  <2> QED BY <1>o, <2>1, CarryWent, GotoWent DEF Later
<1>5. CASE UpdateRow(w)
  <2>1. CASE Goto(w, "done")
    BY <1>o, <2>1, GotoWent DEF Later
  <2>2. CASE j.op = "resolve" /\ refunds' = [refunds EXCEPT ![j.d] = j.refund]
             /\ \E at \in {"hold", "decide"} : Goto(w, at)
    <3>1. j.d \in Dispute
      BY <1>0, <1>a, <2>2 DEF SoundJob
    <3>2. refunds'[j.d] = j.refund
      BY <1>0, <2>2, <3>1
    <3> QED BY <1>w, <2>2, <3>2, GotoWent
  <2>3. CASE j.op # "resolve" /\ \E at \in {"hold", "done"} : Goto(w, at)
    BY <1>l, <1>o, <2>3, GotoWent DEF Later
  <2> QED BY <1>5, <2>1, <2>2, <2>3 DEF UpdateRow, AfterRefund, j
<1>6. CASE LoadHold(w)
  <2>1. /\ j.at = "hold"
        /\ \E at \in {"placeDeposit", "done", "chargeDeposit", "overflow", "returnDeposit"} :
             \E h : CarryHold(w, h, at)
    BY <1>6 DEF LoadHold, At, j
  <2> QED BY <1>l, <1>o, <2>1, CarryHoldWent DEF Later
<1>7. CASE PlaceDeposit(w)
  <2>1. \E h : CarryHold(w, h, "insertDeposit")
    BY <1>7 DEF PlaceDeposit
  <2> QED BY <1>o, <2>1, CarryHoldWent DEF Later
<1>8. CASE InsertDeposit(w) \/ WriteDeposit(w) \/ ReturnDeposit(w) \/ RecordDeposit(w) \/ Decide(w)
  <2>1. \E at \in {"writeDeposit", "done"} : Goto(w, at)
    BY <1>8 DEF InsertDeposit, WriteDeposit, ReturnDeposit, RecordDeposit, Decide
  <2> QED BY <1>o, <2>1, GotoWent DEF Later
<1>9. CASE ChargeDeposit(w)
  <2>1. j.at = "chargeDeposit" /\ Goto(w, "recordDeposit")
    BY <1>9 DEF ChargeDeposit, At, j
  <2> QED BY <1>l, <2>1, GotoWent DEF Later
<1>10. CASE LoadOverflow(w) \/ RecordClaim(w)
  <2>1. /\ j.at \in {"overflow", "claim"}
        /\ \E at \in {"done", "decide", "claim"} : \E r : Carry(w, r, at) \/ Goto(w, at)
    BY <1>10 DEF LoadOverflow, RecordClaim, At, j
  <2> QED BY <1>l, <1>o, <2>1, CarryWent, GotoWent DEF Later
<1> QED BY <1>1, <1>2, <1>3, <1>4, <1>5, <1>6, <1>7, <1>8, <1>9, <1>10 DEF Work

\* Every step keeps the awards of the jobs that are past them.
LEMMA AwardStep ==
  ASSUME Typed, AwardIsRecorded, [Next]_vars
  PROVE  AwardIsRecorded'
<1>1. ASSUME NEW v \in Worker PROVE AwardJob(job[v])'
  <2>1. CASE job'[v] = job[v]
    <3>1. ASSUME NEW j, j = job[v], j.op = "resolve", j.refund > 0, j.at \in Later
          PROVE  refunds'[j.d] > 0
      <4>1. j.at # "done" /\ refunds[j.d] > 0
        BY <3>1 DEF AwardIsRecorded, AwardJob, Later
      <4>2. j.d \in Dispute
        BY <3>1, <4>1, JobFacts DEF SoundJob
      <4> QED BY <4>1, <4>2, RefundsStay
    <3>2. job[v].at = "charge" => job[v].op # "resolve"
      BY DEF AwardIsRecorded, AwardJob
    <3> QED BY <2>1, <3>1, <3>2 DEF AwardJob
  <2>2. CASE job'[v] = Idle
    BY <2>2 DEF AwardJob, Idle
  <2>3. CASE Arrive(v)
    <3>1. PICK j \in JobType : /\ job' = [job EXCEPT ![v] = j]
                               /\ j.at \in {"row", "hold", "decide"}
                               /\ j.op = "resolve" => (j.at # "row" => j.refund = 0)
      BY <2>3, ArriveShape
    <3>2. job'[v] = j
      BY <3>1 DEF Typed, TypeOK
    <3> QED BY <3>1, <3>2 DEF AwardJob, Later
  <2> QED BY <2>1, <2>2, <2>3, JobCases, AwardWork
<1> QED BY <1>1 DEF AwardIsRecorded

\* Only a decision changes what is decided.
LEMMA DecisionStep ==
  ASSUME Typed, AwardIsRecorded, [Next]_vars, NEW d \in Dispute,
         case[d] # case'[d], case'[d] = "resolved"
  PROVE  \E w \in Worker : /\ At(w, "decide") /\ job[w].d = d
                           /\ job[w].refund > 0 => refunds[d] > 0
<1>0. case \in [Dispute -> {"none", "open", "resolved", "rejected"}]
  BY DEF Typed, TypeOK
<1>1. ASSUME NEW w \in Worker, Decide(w)
      PROVE  /\ At(w, "decide") /\ job[w].d = d
             /\ job[w].refund > 0 => refunds[d] > 0
  <2>1. /\ At(w, "decide") /\ job[w].d = d /\ job[w].op = "resolve"
    BY <1>0, <1>1 DEF Decide
  <2> QED BY <2>1 DEF AwardIsRecorded, AwardJob, At, Later
<1>2. ASSUME NEW w \in Worker, Work(w), ~Decide(w) PROVE case' = case
  <2>1. ASSUME \/ LoadRow(w) \/ PlaceHold(w) \/ ReleaseHold(w) \/ ReplaceHold(w)
               \/ Charge(w) \/ ReturnMoney(w) \/ AwardRefund(w) \/ LoadHold(w)
               \/ PlaceDeposit(w) \/ ReturnDeposit(w) \/ ChargeDeposit(w) \/ RecordDeposit(w)
               \/ LoadOverflow(w) \/ Finish(w)
        PROVE  case' = case
    BY <2>1 DEF LoadRow, PlaceHold, ReleaseHold, ReplaceHold, Charge, ReturnMoney, AwardRefund,
                LoadHold, PlaceDeposit, ReturnDeposit, ChargeDeposit, RecordDeposit, LoadOverflow,
                Finish, database
  <2>2. ASSUME InsertRow(w) \/ UpdateRow(w) \/ InsertDeposit(w) \/ WriteDeposit(w) \/ RecordClaim(w)
        PROVE  case' = case
    BY <2>2 DEF InsertRow, UpdateRow, InsertDeposit, WriteDeposit, RecordClaim
  <2> QED BY <1>2, <2>1, <2>2 DEF Work
<1>3. ASSUME NEW w \in Worker, Arrive(w) \/ Crash(w) PROVE case' = case
  BY <1>3, ArriveShape DEF Crash, database
<1>4. ASSUME NEW e \in Dispute, OpenDispute(e) PROVE FALSE
  BY <1>0, <1>4 DEF OpenDispute
<1>5. ASSUME Modify \/ Confirm \/ Cancel \/ Complete \/ (\E r \in Ref : Decline(r)) \/ UNCHANGED vars
      PROVE case' = case
  BY <1>5 DEF Modify, Confirm, Cancel, Complete, Publish, Decline, vars, database
<1> QED BY <1>1, <1>2, <1>3, <1>4, <1>5 DEF Next, Around

\* A dispute is resolved with a refund only when the ledger has the refund,
\* whatever fails on the way (adminDecide, application/dispute/service.go).
THEOREM AwardComesFirst == Spec => AwardPrecedesDecision
<1>1. Init => AwardIsRecorded
  BY DEF Init, AwardIsRecorded, AwardJob, Idle
<1>2. Typed /\ AwardIsRecorded /\ [Next]_vars => AwardIsRecorded'
  BY AwardStep
<1> DEFINE A == \A d \in Dispute : case[d] # case'[d] /\ case'[d] = "resolved" =>
                  \E w \in Worker : /\ At(w, "decide") /\ job[w].d = d
                                    /\ job[w].refund > 0 => refunds[d] > 0
<1>3. Typed /\ AwardIsRecorded /\ [Next]_vars => [A]_vars
  BY DecisionStep
<1>4. AwardPrecedesDecision <=> [][A]_vars
  BY PTL DEF AwardPrecedesDecision
<1> HIDE DEF A
<1> QED BY <1>1, <1>2, <1>3, <1>4, TypedAlways, PTL DEF Spec
=============================================================================
