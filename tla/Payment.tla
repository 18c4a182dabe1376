------------------------------ MODULE Payment ------------------------------
(***************************************************************************)
(* The money of one booking: its payments row, its deposit_holds row, the  *)
(* ledger of adjustments, the gateway, the gateway's webhooks, and the     *)
(* disputes whose decisions move money.                                    *)
(*   application/payment/{subscriber,service}.go, domain/payment,          *)
(*   application/dispute/service.go,                                       *)
(*   infrastructure/persistence/postgres/{payment,deposit}_repository.go   *)
(*                                                                         *)
(* A job is a delivery of a booking event, a webhook delivery or an        *)
(* admin's decision.  It loads a row, calls the gateway, and writes the    *)
(* row it loaded back by id: each of these is a step, and nothing locks or *)
(* versions the row in between.  The gateway is external; its calls may    *)
(* fail, or succeed with the answer lost.                                  *)
(***************************************************************************)
EXTENDS Naturals, FiniteSets, Sums

CONSTANTS Worker,      \* goroutines that run jobs
          Dispute,     \* ids of disputes rows
          Ref,         \* gateway references, handed out in order
          Total,       \* the booking's total
          NewTotal,    \* its total once it is modified
          Deposit,     \* the listing's security deposit, 0 for none
          NoDispute,   \* the dispute of a job that has none
          Policies,    \* what cancellation policies refund of a charge
          Awards,      \* refunds admins award, 0 for none
          Operations,  \* the optional behaviours an instance exercises
          MaxFaults,   \* bound: gateway faults
          MaxCrashes   \* bound: jobs that die with their replica

ASSUME PaymentAssumption ==
  /\ IsFiniteSet(Worker) /\ IsFiniteSet(Dispute) /\ IsFiniteSet(Ref)
  /\ Ref \subseteq Nat /\ 0 \notin Ref /\ NoDispute \notin Dispute
  /\ Total \in Nat \ {0} /\ NewTotal \in Nat \ {0} /\ Deposit \in Nat
  /\ Awards \subseteq 0 .. Total /\ Policies \subseteq 0 .. Total
  /\ MaxFaults \in Nat /\ MaxCrashes \in Nat
  /\ Operations \subseteq {"modify", "webhook", "dispute", "damage", "decline"}

VARIABLES
  booking,   \* the booking's status
  policy,    \* what its cancellation policy refunds of a charge
  due,       \* its events whose records are not processed
  row,       \* the payments row
  hold,      \* the deposit_holds row
  refunds,   \* refund adjustments in the ledger, by dispute, 0 for none
  claims,    \* disputes with a damage_claim adjustment
  case,      \* the status of each dispute
  intent,    \* the gateway's record of each reference
  hooks,     \* webhooks sent and not yet recorded as processed
  job,       \* what each worker is doing
  faults, crashes

database == <<row, hold, refunds, claims, case>>
gateway  == <<intent, hooks, faults>>
outside  == <<booking, policy, due>>
vars     == <<database, gateway, outside, job, crashes>>

NoRow  == [status |-> "none", ref |-> 0, amount |-> 0, refunded |-> 0]
NoHold == [status |-> "none", ref |-> 0]
Unused == [use |-> "none", key |-> <<>>, amount |-> 0, captured |-> FALSE, back |-> 0]
NoHook == [kind |-> "none", ref |-> 0, amount |-> 0]
Idle   == [op |-> "idle", at |-> "done", row |-> NoRow, hold |-> NoHold, hook |-> NoHook,
           d |-> NoDispute, refund |-> 0, damage |-> FALSE, seen |-> "none"]

\* What the gateway still holds of a reference, and what it keeps charged.
Held(i) == IF i.captured THEN 0 ELSE i.amount - i.back
Kept(i) == IF i.captured THEN i.amount - i.back ELSE 0

Init ==
  /\ booking = "pending" /\ policy = 0 /\ due = {"requested"}
  /\ row = NoRow /\ hold = NoHold
  /\ refunds = [d \in Dispute |-> 0] /\ claims = {}
  /\ case = [d \in Dispute |-> "none"]
  /\ intent = [r \in Ref |-> Unused] /\ hooks = {}
  /\ job = [w \in Worker |-> Idle]
  /\ faults = 0 /\ crashes = 0

-----------------------------------------------------------------------------
(* The gateway: what a call does to its record, and whether the answer ok     *)
(* reaches the caller.                                                       *)

\* A call the gateway accepts takes effect and is answered; a fault may keep it
\* from either.
Answered(accepts, effect, ok) ==
  \/ effect = accepts /\ ok = accepts /\ UNCHANGED faults
  \/ ~ok /\ (effect => accepts) /\ faults < MaxFaults /\ faults' = faults + 1

\* The idempotency key of an authorization: the booking's id, with a prefix for
\* the deposit.
\* Fault: each attempt has a key of its own.
Key_PerAttempt(w, use) == <<use, w>>
Key(w, use) == <<use>>

\* The gateway returns the reference it made for the same key and amount when
\* there is one, else a fresh one.
Placed(key, amount) ==
  LET same  == {r \in Ref : intent[r].key = key /\ intent[r].amount = amount}
      fresh == {r \in Ref : intent[r] = Unused}
  IN  IF same # {} THEN same ELSE {r \in fresh : \A q \in fresh : r <= q}

Authorize(w, use, amount, r, ok) ==
  \E effect \in BOOLEAN :
    /\ r \in Placed(Key(w, use), amount)
    /\ Answered(TRUE, effect, ok)
    /\ intent' = IF effect /\ intent[r] = Unused
                   THEN [intent EXCEPT ![r] = [Unused EXCEPT !.use = use, !.key = Key(w, use),
                                                             !.amount = amount]]
                   ELSE intent
    /\ UNCHANGED hooks

\* Capture charges what is left of a hold.
Capture(r, ok) ==
  \E effect \in BOOLEAN :
    /\ Answered(r # 0 /\ Held(intent[r]) > 0, effect, ok)
    /\ IF effect
         THEN /\ intent' = [intent EXCEPT ![r].captured = TRUE]
              /\ hooks' = hooks \cup {[kind |-> "captured", ref |-> r, amount |-> 0]}
         ELSE UNCHANGED <<intent, hooks>>

\* Refund releases a hold, whole or not at all, or gives back part of a charge,
\* never more than is left; its webhook carries all that was given back so far.
Refundable(i, amount) ==
  i.back + amount <= i.amount /\ (i.captured \/ i.back + amount = i.amount)
Refund(r, amount, ok) ==
  \E effect \in BOOLEAN :
    /\ Answered(r # 0 /\ Refundable(intent[r], amount), effect, ok)
    /\ IF effect
         THEN /\ intent' = [intent EXCEPT ![r].back = @ + amount]
              /\ hooks' = hooks \cup {[kind |-> "refunded", ref |-> r,
                                       amount |-> intent[r].back + amount]}
         ELSE UNCHANGED <<intent, hooks>>

\* The provider withdraws a hold it had placed.
Decline(r) ==
  /\ "decline" \in Operations
  /\ faults < MaxFaults /\ faults' = faults + 1
  /\ Held(intent[r]) > 0
  /\ intent' = [intent EXCEPT ![r].back = intent[r].amount]
  /\ hooks' = hooks \cup {[kind |-> "failed", ref |-> r, amount |-> 0]}
  /\ UNCHANGED <<database, outside, job, crashes>>

-----------------------------------------------------------------------------
(* Jobs start and end. *)

Start(w, j) ==
  /\ job[w] = Idle
  /\ job' = [job EXCEPT ![w] = j]
  /\ UNCHANGED <<database, gateway, outside, crashes>>

Job(op, at) == [Idle EXCEPT !.op = op, !.at = at]

\* A dispatcher or the relay delivers an event of the booking.
Deliver(w) ==
  \E e \in due : Start(w, Job(e, IF e = "completed" THEN "hold" ELSE "row"))

Webhook(w) ==
  /\ "webhook" \in Operations
  /\ \E h \in hooks : Start(w, [Job("webhook", "row") EXCEPT !.hook = h])

\* An admin resolves a dispute, with a refund or a damage award or neither, or
\* rejects it.  The dispute is loaded now and looked at when it is decided.
Resolve(w) ==
  \E d \in Dispute, refund \in Awards, damage \in BOOLEAN :
    /\ case[d] # "none" /\ (damage => "damage" \in Operations)
    /\ Start(w, [Job("resolve", IF refund > 0 THEN "row" ELSE IF damage THEN "hold" ELSE "decide")
                   EXCEPT !.d = d, !.refund = refund, !.damage = damage, !.seen = case[d]])
Reject(w) ==
  \E d \in Dispute :
    /\ case[d] # "none"
    /\ Start(w, [Job("reject", "decide") EXCEPT !.d = d, !.seen = case[d]])

\* The record or the webhook is marked processed, whatever became of it.
Finish(w) ==
  /\ job[w] # Idle /\ job[w].at = "done"
  /\ due' = due \ {job[w].op}
  /\ hooks' = hooks \ {job[w].hook}
  /\ job' = [job EXCEPT ![w] = Idle]
  /\ UNCHANGED <<database, intent, faults, booking, policy, crashes>>

Crash(w) ==
  /\ job[w] # Idle
  /\ crashes < MaxCrashes /\ crashes' = crashes + 1
  /\ job' = [job EXCEPT ![w] = Idle]
  /\ UNCHANGED <<database, gateway, outside>>

-----------------------------------------------------------------------------
(* Jobs run: each step reads, calls the gateway or writes.                   *)

At(w, at) == job[w].at = at
\* A job that goes on with at; one that is done drops what it carried.
Going(j, at) == IF at = "done" THEN [Idle EXCEPT !.op = j.op, !.hook = j.hook]
                ELSE [j EXCEPT !.at = at]
Goto(w, at) == job' = [job EXCEPT ![w] = Going(@, at)]
\* The job's copy of the payments row, or of the deposit, becomes r.
Carry(w, r, at) == job' = [job EXCEPT ![w] = Going([@ EXCEPT !.row = r], at)]
CarryHold(w, h, at) == job' = [job EXCEPT ![w] = Going([@ EXCEPT !.hold = h, !.row = NoRow], at)]

\* The payments row r after the webhook h; r itself when there is nothing to do.
Reconciled(h, r) ==
  IF r.ref # h.ref THEN r ELSE
  CASE h.kind = "captured" /\ r.status = "authorized" -> [r EXCEPT !.status = "captured"]
    [] h.kind = "refunded" /\ r.status \in {"authorized", "captured"} ->
         [r EXCEPT !.status = "refunded",
                   !.refunded = IF h.amount \in 1 .. r.amount THEN h.amount ELSE r.amount]
    [] h.kind = "failed" /\ r.status \in {"pending", "authorized"} ->
         [r EXCEPT !.status = "failed"]
    [] OTHER -> r

\* Where a resolution goes on when its refund is dealt with.
AfterRefund(j) == IF j.damage THEN "hold" ELSE "decide"

\* What a job does next with the payments row it found.
Turn(j) ==
  LET absent == row.status = "none" IN
  CASE j.op = "requested" -> IF absent THEN "place" ELSE "done"
    [] j.op = "modified"  -> IF row.status = "authorized" /\ row.amount # NewTotal
                               THEN "release" ELSE "done"
    [] j.op = "confirmed" -> IF absent THEN "hold" ELSE "charge"
    [] j.op = "cancelled" -> IF absent THEN "hold"
                             ELSE IF \/ row.status = "authorized"
                                     \/ row.status = "captured" /\ policy > 0
                                    THEN "return" ELSE "write"
    [] j.op = "webhook"   -> IF Reconciled(j.hook, row) = row THEN "done" ELSE "write"
    [] j.op = "resolve"   -> IF absent THEN "done"
                             ELSE IF refunds[j.d] # 0 THEN AfterRefund(j) ELSE "return"
    [] OTHER -> "done"

LoadRow(w) ==
  /\ At(w, "row")
  /\ Carry(w, IF job[w].op = "webhook" THEN Reconciled(job[w].hook, row) ELSE row,
           Turn(job[w]))
  /\ UNCHANGED <<database, gateway, outside, crashes>>

\* BookingRequested: a hold for the total, and the row that tells how it went.
PlaceHold(w) ==
  /\ At(w, "place")
  /\ \E r \in Ref, ok \in BOOLEAN :
       /\ Authorize(w, "rental", Total, r, ok)
       /\ Carry(w, [status |-> IF ok THEN "authorized" ELSE "failed",
                    ref |-> IF ok THEN r ELSE 0, amount |-> Total, refunded |-> 0], "insert")
  /\ UNCHANGED <<database, outside, crashes>>

InsertRow(w) ==
  /\ At(w, "insert")
  /\ row' = IF row.status = "none" THEN job[w].row ELSE row
  /\ Goto(w, "done")
  /\ UNCHANGED <<hold, refunds, claims, case, gateway, outside, crashes>>

\* BookingModified: the old hold is released and one for the new total placed.
ReleaseHold(w) ==
  /\ At(w, "release")
  /\ \E ok \in BOOLEAN :
       /\ Refund(job[w].row.ref, job[w].row.amount, ok)
       /\ Goto(w, IF ok THEN "replace" ELSE "done")
  /\ UNCHANGED <<database, outside, crashes>>

ReplaceHold(w) ==
  /\ At(w, "replace")
  /\ \E r \in Ref, ok \in BOOLEAN :
       /\ Authorize(w, "rental", NewTotal, r, ok)
       /\ Carry(w, IF ok THEN [job[w].row EXCEPT !.ref = r]
                   ELSE [job[w].row EXCEPT !.status = "failed"], "write")
  /\ UNCHANGED <<database, outside, crashes>>

\* BookingConfirmed: the hold is charged, whatever the row's status; only an
\* authorized row becomes captured.
\* Fault: the row becomes captured although the gateway refused.
Charge_IgnoresRefusal(w) ==
  /\ At(w, "charge")
  /\ \E ok \in BOOLEAN :
       /\ Capture(job[w].row.ref, ok)
       /\ IF job[w].row.status = "authorized"
            THEN Carry(w, [job[w].row EXCEPT !.status = "captured"], "write")
            ELSE Goto(w, "hold")
  /\ UNCHANGED <<database, outside, crashes>>
Charge(w) ==
  /\ At(w, "charge")
  /\ \E ok \in BOOLEAN :
       /\ Capture(job[w].row.ref, ok)
       /\ IF ok /\ job[w].row.status = "authorized"
            THEN Carry(w, [job[w].row EXCEPT !.status = "captured"], "write")
            ELSE Goto(w, "hold")
  /\ UNCHANGED <<database, outside, crashes>>

\* BookingCancelled: a hold is released whole, a charge is refunded as the
\* policy says.
Owed(r) == IF r.status = "authorized" THEN r.amount ELSE policy

\* Fault: the row becomes refunded although the gateway refused.
ReturnMoney_IgnoresRefusal(w) ==
  LET r == job[w].row IN
  /\ At(w, "return") /\ job[w].op = "cancelled"
  /\ \E ok \in BOOLEAN :
       /\ Refund(r.ref, Owed(r), ok)
       /\ Carry(w, [r EXCEPT !.status = "refunded", !.refunded = Owed(r)], "write")
  /\ UNCHANGED <<database, outside, crashes>>
ReturnMoney(w) ==
  LET r == job[w].row IN
  /\ At(w, "return") /\ job[w].op = "cancelled"
  /\ \E ok \in BOOLEAN :
       /\ Refund(r.ref, Owed(r), ok)
       /\ IF ok THEN Carry(w, [r EXCEPT !.status = "refunded", !.refunded = Owed(r)], "write")
                ELSE Goto(w, "hold")
  /\ UNCHANGED <<database, outside, crashes>>

\* RefundPartial: what the aggregate accepts, and the row it leaves.
Acceptable(r, amount) ==
  r.status \in {"authorized", "captured"} /\ r.refunded + amount <= r.amount
Credited(r, amount) ==
  [r EXCEPT !.refunded = @ + amount,
            !.status = IF r.refunded + amount = r.amount THEN "refunded" ELSE @]

\* A resolution: the money first, then the aggregate's checks.
\* Fault: the ledger is written although the gateway refused.
AwardRefund_IgnoresRefusal(w) ==
  LET r == job[w].row  amount == job[w].refund IN
  /\ At(w, "return") /\ job[w].op = "resolve"
  /\ \E ok \in BOOLEAN :
       /\ Refund(r.ref, amount, ok)
       /\ IF Acceptable(r, amount) THEN Carry(w, Credited(r, amount), "write")
                                  ELSE Goto(w, "done")
  /\ UNCHANGED <<database, outside, crashes>>
\* Fault: a refused refund does not stop the decision.
AwardRefund_DecidesAnyway(w) ==
  LET r == job[w].row  amount == job[w].refund IN
  /\ At(w, "return") /\ job[w].op = "resolve"
  /\ \E ok \in BOOLEAN :
       /\ Refund(r.ref, amount, ok)
       /\ IF ok /\ Acceptable(r, amount) THEN Carry(w, Credited(r, amount), "write")
                                        ELSE Goto(w, AfterRefund(job[w]))
  /\ UNCHANGED <<database, outside, crashes>>
AwardRefund(w) ==
  LET r == job[w].row  amount == job[w].refund IN
  /\ At(w, "return") /\ job[w].op = "resolve"
  /\ \E ok \in BOOLEAN :
       /\ Refund(r.ref, amount, ok)
       /\ IF ok /\ Acceptable(r, amount) THEN Carry(w, Credited(r, amount), "write")
                                        ELSE Goto(w, "done")
  /\ UNCHANGED <<database, outside, crashes>>

\* The row as the statement of PaymentRepository.Update leaves it: by id, the
\* amount not among the columns.
Written(r) == [row EXCEPT !.status = r.status, !.ref = r.ref, !.refunded = r.refunded]

\* The adjustment of an award is unique per dispute; a second one rolls the
\* update back.
UpdateRow(w) ==
  LET j == job[w] IN
  /\ At(w, "write")
  /\ IF j.op = "resolve" /\ refunds[j.d] # 0
       THEN Goto(w, "done") /\ UNCHANGED <<row, refunds>>
       ELSE /\ row' = Written(j.row)
            /\ refunds' = IF j.op = "resolve" THEN [refunds EXCEPT ![j.d] = j.refund] ELSE refunds
            /\ Goto(w, CASE j.op \in {"confirmed", "cancelled"} -> "hold"
                         [] j.op = "resolve" -> AfterRefund(j)
                         [] OTHER -> "done")
  /\ UNCHANGED <<hold, claims, case, gateway, outside, crashes>>

-----------------------------------------------------------------------------
(* The deposit, and what a damage award takes from it.                       *)

LoadHold(w) ==
  LET op == job[w].op
      active == hold.status = "authorized"
  IN  /\ At(w, "hold")
      /\ CarryHold(w, hold,
           CASE op = "confirmed" -> IF hold.status = "none" /\ Deposit > 0
                                      THEN "placeDeposit" ELSE "done"
             [] op = "resolve"   -> IF active THEN "chargeDeposit" ELSE "overflow"
             [] OTHER            -> IF active THEN "returnDeposit" ELSE "done")
      /\ UNCHANGED <<database, gateway, outside, crashes>>

PlaceDeposit(w) ==
  /\ At(w, "placeDeposit")
  /\ \E r \in Ref, ok \in BOOLEAN :
       /\ Authorize(w, "deposit", Deposit, r, ok)
       /\ CarryHold(w, [status |-> IF ok THEN "authorized" ELSE "failed",
                        ref |-> IF ok THEN r ELSE 0], "insertDeposit")
  /\ UNCHANGED <<database, outside, crashes>>

InsertDeposit(w) ==
  /\ At(w, "insertDeposit")
  /\ hold' = IF hold.status = "none" THEN job[w].hold ELSE hold
  /\ Goto(w, "done")
  /\ UNCHANGED <<row, refunds, claims, case, gateway, outside, crashes>>

\* Fault: nothing is taken to remain, so the gateway is not called.
ReturnDeposit_SkipsCall(w) ==
  /\ At(w, "returnDeposit")
  /\ Goto(w, "writeDeposit")
  /\ UNCHANGED <<database, gateway, outside, crashes>>
ReturnDeposit(w) ==
  /\ At(w, "returnDeposit")
  /\ \E ok \in BOOLEAN :
       /\ Refund(job[w].hold.ref, Deposit, ok)
       /\ Goto(w, IF ok THEN "writeDeposit" ELSE "done")
  /\ UNCHANGED <<database, outside, crashes>>

WriteDeposit(w) ==
  /\ At(w, "writeDeposit")
  /\ hold' = [hold EXCEPT !.status = "released"]
  /\ Goto(w, "done")
  /\ UNCHANGED <<row, refunds, claims, case, gateway, outside, crashes>>

\* The whole hold is charged; a refusal is only logged.
ChargeDeposit(w) ==
  /\ At(w, "chargeDeposit")
  /\ \E ok \in BOOLEAN : Capture(job[w].hold.ref, ok) /\ Goto(w, "recordDeposit")
  /\ UNCHANGED <<database, outside, crashes>>

\* The update inserts an adjustment with the deposit's id as payment_id, which
\* refers to no payments row: the transaction rolls back and the call fails.
RecordDeposit(w) ==
  /\ At(w, "recordDeposit")
  /\ Goto(w, "done")
  /\ UNCHANGED <<database, gateway, outside, crashes>>

\* Without an active hold the award is a claim on the payments row.
LoadOverflow(w) ==
  /\ At(w, "overflow")
  /\ Carry(w, row, IF row.status = "none" THEN "done"
                   ELSE IF job[w].d \in claims THEN "decide" ELSE "claim")
  /\ UNCHANGED <<database, gateway, outside, crashes>>

RecordClaim(w) ==
  LET j == job[w] IN
  /\ At(w, "claim")
  /\ IF j.d \in claims
       THEN Goto(w, "done") /\ UNCHANGED <<row, claims>>
       ELSE row' = Written(j.row) /\ claims' = claims \cup {j.d} /\ Goto(w, "decide")
  /\ UNCHANGED <<hold, refunds, case, gateway, outside, crashes>>

\* The dispute is decided as it was loaded, and saved whatever it is by now.
Decide(w) ==
  LET j == job[w] IN
  /\ At(w, "decide")
  /\ case' = IF j.seen = "open"
               THEN [case EXCEPT ![j.d] = IF j.op = "resolve" THEN "resolved" ELSE "rejected"]
               ELSE case
  /\ Goto(w, "done")
  /\ UNCHANGED <<row, hold, refunds, claims, gateway, outside, crashes>>

-----------------------------------------------------------------------------
(* The booking (see Reservations) and the disputes about it.                 *)

Publish(event, status) ==
  /\ booking' = status
  /\ due' = due \cup {event}
  /\ UNCHANGED <<database, gateway, job, crashes>>

Modify   == /\ "modify" \in Operations /\ booking = "pending"
            /\ Publish("modified", "pending") /\ UNCHANGED policy
Confirm  == booking = "pending" /\ Publish("confirmed", "confirmed") /\ UNCHANGED policy
Cancel   == /\ booking \in {"pending", "confirmed"}
            /\ policy' \in Policies /\ Publish("cancelled", "cancelled")
Complete == booking = "confirmed" /\ Publish("completed", "completed") /\ UNCHANGED policy

OpenDispute(d) ==
  /\ "dispute" \in Operations
  /\ booking \in {"cancelled", "completed"}
  /\ case[d] = "none" /\ \A e \in Dispute : case[e] # "open"
  /\ case' = [case EXCEPT ![d] = "open"]
  /\ UNCHANGED <<row, hold, refunds, claims, gateway, outside, job, crashes>>

Arrive(w) == Deliver(w) \/ Webhook(w) \/ Resolve(w) \/ Reject(w)
Work(w) ==
  \/ LoadRow(w) \/ PlaceHold(w) \/ InsertRow(w) \/ ReleaseHold(w) \/ ReplaceHold(w)
  \/ Charge(w) \/ ReturnMoney(w) \/ AwardRefund(w) \/ UpdateRow(w)
  \/ LoadHold(w) \/ PlaceDeposit(w) \/ InsertDeposit(w) \/ ReturnDeposit(w) \/ WriteDeposit(w)
  \/ ChargeDeposit(w) \/ RecordDeposit(w) \/ LoadOverflow(w) \/ RecordClaim(w) \/ Decide(w)
  \/ Finish(w)
Around ==
  \/ Modify \/ Confirm \/ Cancel \/ Complete
  \/ \E d \in Dispute : OpenDispute(d)
  \/ \E r \in Ref : Decline(r)

Next == (\E w \in Worker : Arrive(w) \/ Work(w) \/ Crash(w)) \/ Around

Spec == Init /\ [][Next]_vars

-----------------------------------------------------------------------------
Status  == {"none", "authorized", "captured", "refunded", "failed"}
Event   == {"requested", "modified", "confirmed", "cancelled", "completed"}
Amount  == 0 .. Total + NewTotal + Deposit
Steps   == {"row", "place", "insert", "release", "replace", "charge", "return", "write", "hold",
            "placeDeposit", "insertDeposit", "returnDeposit", "writeDeposit", "chargeDeposit",
            "recordDeposit", "overflow", "claim", "decide", "done"}
RowType  == [status : Status, ref : Ref \cup {0}, amount : Amount, refunded : Amount]
HoldType == [status : {"none", "authorized", "released", "failed"}, ref : Ref \cup {0}]
HookType == [kind : {"captured", "refunded", "failed"}, ref : Ref, amount : Amount]
IntentType == [use : {"none", "rental", "deposit"}, key : {<<>>, <<"rental">>, <<"deposit">>},
               amount : Amount, captured : BOOLEAN, back : Amount]
JobType  == [op : Event \cup {"idle", "webhook", "resolve", "reject"}, at : Steps,
             row : RowType, hold : HoldType, hook : HookType \cup {NoHook},
             d : Dispute \cup {NoDispute}, refund : 0 .. Total, damage : BOOLEAN,
             seen : {"none", "open", "resolved", "rejected"}]

\* Every variable stays in its range, no total exceeds its amount, and the
\* references in the tables are ones the gateway made for that purpose.
TypeOK ==
  /\ booking \in {"pending", "confirmed", "cancelled", "completed"}
  /\ policy \in 0 .. Total /\ due \subseteq Event
  /\ row \in RowType /\ row.refunded <= row.amount
  /\ hold \in HoldType
  /\ refunds \in [Dispute -> 0 .. Total] /\ claims \subseteq Dispute
  /\ case \in [Dispute -> {"none", "open", "resolved", "rejected"}]
  /\ intent \in [Ref -> IntentType]
  /\ \A r \in Ref : intent[r].back <= intent[r].amount
  /\ row.ref # 0 => intent[row.ref].use = "rental"
  /\ hold.ref # 0 => intent[hold.ref].use = "deposit"
  /\ hooks \subseteq HookType
  /\ job \in [Worker -> JobType]
  /\ faults \in 0 .. MaxFaults /\ crashes \in 0 .. MaxCrashes

\* A row that says captured names a reference the gateway has charged, although
\* stale copies of the row, webhooks and re-placed holds race to write it.
CapturedMeansCharged == row.status = "captured" => row.ref # 0 /\ intent[row.ref].captured

\* All the gateway gave back of the rental.
Returned ==
  SumOver([r \in Ref |-> IF intent[r].use = "rental" THEN intent[r].back ELSE 0], Ref)

\* The books never run ahead of the money: neither the running total of the row
\* nor the adjustments of the disputes claim a refund the gateway did not make.
LedgerIsBacked ==
  row.refunded <= Returned /\ SumOver(refunds, Dispute) <= Returned

\* Two references of one purpose never hold or keep money at the same time,
\* whatever is delivered twice or dies between the gateway and the row.
OneLiveHold ==
  \A r, q \in Ref :
    r # q /\ intent[r].use = intent[q].use =>
      Held(intent[r]) + Kept(intent[r]) = 0 \/ Held(intent[q]) + Kept(intent[q]) = 0

\* A row that says refunded leaves nothing held at the gateway, although the
\* total it was refunded from may be older than the hold.
RefundedMeansReleased ==
  row.status = "refunded" => row.ref # 0 /\ Held(intent[row.ref]) = 0

\* A deposit that says released is back with the guest, also when a damage
\* award charged it meanwhile.
ReleasedDepositIsBack ==
  hold.status = "released" => Held(intent[hold.ref]) + Kept(intent[hold.ref]) = 0

\* A dispute is resolved with a refund only once the ledger has the refund.
AwardPrecedesDecision ==
  [][\A d \in Dispute : case[d] # case'[d] /\ case'[d] = "resolved" =>
       \E w \in Worker : /\ At(w, "decide") /\ job[w].d = d
                         /\ job[w].refund > 0 => refunds[d] > 0]_vars

-----------------------------------------------------------------------------
(* What comments of the code say, and the runs refute. *)

Quiet == faults = 0 /\ crashes = 0 /\ \A w \in Worker : job[w] = Idle

\* payment.go: every partial refund of a resolution leaves a row from which the
\* running totals can be explained: what came back of a charge is in the row.
RefundsAreExplained ==
  Quiet /\ row.ref # 0 /\ intent[row.ref].captured => row.refunded = Returned

\* 0042_deposit_holds.sql, deposit.go: what is captured of a deposit is
\* recorded on the hold and in the ledger.
DepositChargeIsRecorded ==
  Quiet /\ hold.ref # 0 /\ Kept(intent[hold.ref]) > 0 =>
    hold.status \in {"partially_captured", "captured"}
=============================================================================
