------------------------------- MODULE Payout -------------------------------
(***************************************************************************)
(* The earnings ledger of one host in one currency and its disbursements.  *)
(*   application/payout/{subscriber,service}.go, domain/payout,            *)
(*   infrastructure/persistence/postgres/payout_repository.go,             *)
(*   migrations 0012, 0020 and 0022                                        *)
(*                                                                         *)
(* Booking events are delivered at least once and by any goroutine: each   *)
(* look-up and each insert of a handler is a step.  A disbursement checks  *)
(* and reserves the balance under a mutex of its process, then calls the   *)
(* rail and records what it answered.                                      *)
(***************************************************************************)
EXTENDS Naturals, FiniteSets, Sequences, Sums

CONSTANTS Booking,       \* ids of bookings rows of the host's listings
          Total, Fee,    \* a booking's price and the platform's part of it
          Shares,        \* the amounts of the shares of a split, in order
          Request,       \* ids of disbursements, one per request
          Worker,        \* goroutines
          Process,       \* the process of each worker
          MaxDeliveries, \* bound: deliveries of one event
          MaxFaults      \* bound: faults of the rail or the database, crashes

VARIABLES
  stage,      \* each booking's kind, status, and the halves its policy refunds
  delivered,  \* how often each event was delivered
  ledger,     \* the payouts rows of each booking
  payout,     \* the disbursements rows
  rail,       \* what the rail transferred for each disbursement id
  ready,      \* the host's payout account can receive
  mutex,      \* who holds reserveLocks in each process
  task,       \* what each worker is doing
  faulted

Nobody == "nobody"

\* What the code relies on: a price above the platform's part of it, and shares
\* that sum to the price.
PayoutAssumption ==
  /\ IsFiniteSet(Booking) /\ IsFiniteSet(Request)
  /\ Nobody \notin Worker
  /\ Fee \in Nat /\ Total \in Nat /\ Fee < Total
  /\ Shares \in Seq(0 .. Total)

\* The goroutines are of one replica: what reserveLocks, a mutex in memory, assumes.
OneProcess == \A v, w \in Worker : Process[v] = Process[w]

records    == <<ledger, payout>>
payoutVars == <<stage, delivered, records, rail, ready, mutex, task, faulted>>

NoPayout == [status |-> "none", amount |-> 0]
Free == [op |-> "free", at |-> "done", id |-> "none", net |-> 0, left |-> <<>>, paid |-> FALSE]

Processes == {Process[w] : w \in Worker}

\* A stay is paid whole or in shares; a session is an experience booking.
Kinds == {"stay", "split", "session"}

\* What the host is owed of a booking.
Net == Total - Fee

Init ==
  /\ stage \in [Booking -> [kind : Kinds, status : {"pending"}, halves : {0}]]
  /\ delivered = [b \in Booking |-> [confirmed |-> 0, cancelled |-> 0]]
  /\ ledger = [b \in Booking |-> [rows |-> 0, credited |-> 0, debited |-> 0]]
  /\ payout = [r \in Request |-> NoPayout] /\ rail = [r \in Request |-> 0]
  /\ ready \in BOOLEAN
  /\ mutex = [p \in Processes |-> Nobody]
  /\ task = [w \in Worker |-> Free] /\ faulted = 0

Fault == faulted < MaxFaults /\ faulted' = faulted + 1

-----------------------------------------------------------------------------
(* The ledger: what an insert accepts, and the sums the balance is made of.  *)

\* booking_id references bookings: a row for an experience booking is refused.
\* At most one earning per booking (uniq_payouts_earning_per_booking).
\* Fault: no unique index.
Accepts_NoIndex(b, kind) == stage[b].kind # "session"
Accepts(b, kind) == stage[b].kind # "session" /\ (kind = "earning" => ledger[b].rows = 0)

Create(b, kind, cents) ==
  ledger' = IF ~Accepts(b, kind) THEN ledger
            ELSE IF kind = "earning"
            THEN [ledger EXCEPT ![b].rows = @ + 1, ![b].credited = @ + cents]
            ELSE [ledger EXCEPT ![b].debited = @ + cents]

HasEarningForBooking(b) == ledger[b].rows > 0

Earned    == SumOver([b \in Booking |-> ledger[b].credited], Booking)
Refunded  == SumOver([b \in Booking |-> ledger[b].debited], Booking)
Committed == {r \in Request : payout[r].status \in {"pending", "paid"}}
Disbursed == SumOver([r \in Request |-> payout[r].amount], Committed)

-----------------------------------------------------------------------------
(* The life of the bookings, and the goroutines that work on their events.   *)

Confirm(b) ==
  /\ stage[b].status = "pending"
  /\ stage' = [stage EXCEPT ![b].status = "confirmed"]
  /\ UNCHANGED <<delivered, records, rail, ready, mutex, task, faulted>>

Cancel(b) ==
  /\ stage[b].status \in {"pending", "confirmed"}
  /\ \E h \in 0 .. 2 : stage' = [stage EXCEPT ![b].status = "cancelled", ![b].halves = h]
  /\ UNCHANGED <<delivered, records, rail, ready, mutex, task, faulted>>

\* account.updated and the host's return from onboarding flip the flag.
SetPayoutsEnabled ==
  /\ ready' = ~ready
  /\ Fault
  /\ UNCHANGED <<stage, delivered, records, rail, mutex, task>>

Begin(w, t) == task[w] = Free /\ task' = [task EXCEPT ![w] = t]
At(w, op, at) == task[w].op = op /\ task[w].at = at
Goto(w, at) == task' = [task EXCEPT ![w].at = at]
End(w) == task' = [task EXCEPT ![w] = Free]

\* The event of a cancelled booking that was confirmed before may come after the
\* cancellation's.
Deliver(w, b, kind) ==
  /\ stage[b].status \in (IF kind = "confirmed" THEN {"confirmed", "cancelled"} ELSE {"cancelled"})
  /\ delivered[b][kind] < MaxDeliveries
  /\ delivered' = [delivered EXCEPT ![b][kind] = @ + 1]
  /\ Begin(w, [Free EXCEPT !.op = kind, !.at = "look", !.id = b])
  /\ UNCHANGED <<stage, records, rail, ready, mutex, faulted>>

\* recordSplitEarnings: each share's part of the net, rounded down; the last
\* share takes the rest.
Part(i) == (Shares[i] * Net) \div Total
Slices ==
  LET last   == Len(Shares)
      others == 1 .. (last - 1)
      rest   == Net - SumOver([i \in others |-> Part(i)], others)
  IN  [i \in 1 .. last |-> IF i = last THEN rest ELSE Part(i)]

\* recordEarning: nothing to do when there is an earning; a booking paid in
\* shares is credited share by share.
LookEarning(w) ==
  LET b == task[w].id IN
  /\ At(w, "confirmed", "look") /\ stage[b].kind # "session"
  /\ IF HasEarningForBooking(b) THEN End(w)
     ELSE task' = [task EXCEPT ![w].at = "credit",
                               ![w].left = IF stage[b].kind = "split" THEN Slices ELSE <<Net>>]
  /\ UNCHANGED <<stage, delivered, records, rail, ready, mutex, faulted>>

\* recordExperienceEarning: the same for a session, in one entry.
LookSession(w) ==
  LET b == task[w].id IN
  /\ At(w, "confirmed", "look") /\ stage[b].kind = "session"
  /\ IF HasEarningForBooking(b) THEN End(w)
     ELSE task' = [task EXCEPT ![w].at = "credit", ![w].left = <<Net>>]
  /\ UNCHANGED <<stage, delivered, records, rail, ready, mutex, faulted>>

\* One insert; a refused one is logged and the loop goes on.  A part of nothing is
\* skipped.
CreditShare(w) ==
  /\ At(w, "confirmed", "credit")
  /\ IF task[w].left = <<>> THEN End(w) /\ UNCHANGED ledger
     ELSE /\ IF Head(task[w].left) > 0 THEN Create(task[w].id, "earning", Head(task[w].left))
                                       ELSE UNCHANGED ledger
          /\ task' = [task EXCEPT ![w].left = Tail(@)]
  /\ UNCHANGED <<stage, delivered, payout, rail, ready, mutex, faulted>>

\* recordRefund: only a credited booking is debited.
Reversible(b) == HasEarningForBooking(b)

\* round(net * fraction), for fractions that are halves; a session's debit is whole.
Debit(b) == IF stage[b].kind = "session" THEN Net ELSE (Net * stage[b].halves + 1) \div 2

LookRefund(w) ==
  /\ At(w, "cancelled", "look") /\ stage[task[w].id].kind # "session"
  /\ IF Reversible(task[w].id) /\ Debit(task[w].id) > 0 THEN Goto(w, "debit") ELSE End(w)
  /\ UNCHANGED <<stage, delivered, records, rail, ready, mutex, faulted>>

\* recordExperienceRefund: no policy; whatever was credited is debited whole.
LookSessionRefund(w) ==
  /\ At(w, "cancelled", "look") /\ stage[task[w].id].kind = "session"
  /\ IF Reversible(task[w].id) THEN Goto(w, "debit") ELSE End(w)
  /\ UNCHANGED <<stage, delivered, records, rail, ready, mutex, faulted>>

DebitHost(w) ==
  /\ At(w, "cancelled", "debit")
  /\ Create(task[w].id, "refund", Debit(task[w].id))
  /\ End(w)
  /\ UNCHANGED <<stage, delivered, payout, rail, ready, mutex, faulted>>

-----------------------------------------------------------------------------
(* RequestDisbursement: the account, the reservation, the rail, the record.  *)

RequestDisbursement(w, r) ==
  /\ payout[r] = NoPayout /\ \A v \in Worker : task[v].id # r
  /\ IF ready THEN Begin(w, [Free EXCEPT !.op = "pay", !.at = "lock", !.id = r])
              ELSE task[w] = Free /\ UNCHANGED task
  /\ UNCHANGED <<stage, delivered, records, rail, ready, mutex, faulted>>

\* The mutex is per host and per process.
Available(w) == mutex[Process[w]] = Nobody

Lock(w) ==
  /\ At(w, "pay", "lock") /\ Available(w)
  /\ mutex' = [mutex EXCEPT ![Process[w]] = w]
  /\ Goto(w, "net")
  /\ UNCHANGED <<stage, delivered, records, rail, ready, faulted>>

\* AvailableBalances reads the ledger, then what is committed already.
BalancesByHost(w) ==
  /\ At(w, "pay", "net")
  /\ task' = [task EXCEPT ![w].at = "committed",
                          ![w].net = IF Earned >= Refunded THEN Earned - Refunded ELSE 0]
  /\ UNCHANGED <<stage, delivered, records, rail, ready, mutex, faulted>>

DisbursedCentsByHost(w) ==
  /\ At(w, "pay", "committed")
  /\ IF task[w].net > Disbursed
       THEN /\ task' = [task EXCEPT ![w].at = "reserve", ![w].net = @ - Disbursed]
            /\ UNCHANGED mutex
       ELSE End(w) /\ mutex' = [mutex EXCEPT ![Process[w]] = Nobody]
  /\ UNCHANGED <<stage, delivered, records, rail, ready, faulted>>

CreateDisbursement(w) ==
  /\ At(w, "pay", "reserve")
  /\ payout' = [payout EXCEPT ![task[w].id] = [status |-> "pending", amount |-> task[w].net]]
  /\ mutex' = [mutex EXCEPT ![Process[w]] = Nobody]
  /\ Goto(w, "transfer")
  /\ UNCHANGED <<stage, delivered, ledger, rail, ready, faulted>>

\* The rail transfers and answers; or refuses; or transfers and the answer is lost.
Disburse(w) ==
  /\ At(w, "pay", "transfer")
  /\ \E effect, ok \in BOOLEAN :
       /\ (ok => effect)
       /\ IF ok THEN UNCHANGED faulted ELSE Fault
       /\ rail' = IF effect THEN [rail EXCEPT ![task[w].id] = task[w].net] ELSE rail
       /\ task' = [task EXCEPT ![w].at = "record", ![w].paid = ok]
  /\ UNCHANGED <<stage, delivered, records, ready, mutex>>

\* Fault: whatever the rail answered, the row says paid.
Outcome_Paid(w) == "paid"
Outcome(w) == IF task[w].paid THEN "paid" ELSE "failed"

UpdateDisbursement(w) ==
  /\ At(w, "pay", "record")
  /\ \/ payout' = [payout EXCEPT ![task[w].id].status = Outcome(w)] /\ UNCHANGED faulted
     \/ UNCHANGED payout /\ Fault
  /\ End(w)
  /\ UNCHANGED <<stage, delivered, ledger, rail, ready, mutex>>

\* A process dies, its goroutines and its mutex with it.
Crash(p) ==
  /\ Fault
  /\ task' = [w \in Worker |-> IF Process[w] = p THEN Free ELSE task[w]]
  /\ mutex' = [mutex EXCEPT ![p] = Nobody]
  /\ UNCHANGED <<stage, delivered, records, rail, ready>>

Next ==
  \/ \E b \in Booking : Confirm(b) \/ Cancel(b)
  \/ SetPayoutsEnabled
  \/ \E w \in Worker, b \in Booking, kind \in {"confirmed", "cancelled"} : Deliver(w, b, kind)
  \/ \E w \in Worker, r \in Request : RequestDisbursement(w, r)
  \/ \E w \in Worker :
       \/ LookEarning(w) \/ LookSession(w) \/ CreditShare(w)
       \/ LookRefund(w) \/ LookSessionRefund(w) \/ DebitHost(w)
       \/ Lock(w) \/ BalancesByHost(w) \/ DisbursedCentsByHost(w) \/ CreateDisbursement(w)
       \/ Disburse(w) \/ UpdateDisbursement(w)
  \/ \E p \in Processes : Crash(p)

Spec == Init /\ [][Next]_payoutVars

-----------------------------------------------------------------------------
\* However often and in whatever order the events of a booking are handled, its
\* host is credited at most what the booking owes, and is debited only for a
\* booking that was credited: subscriber.go:54-209 and migration 0020.
CreditedOnce ==
  \A b \in Booking : /\ ledger[b].credited <= Net
                     /\ ledger[b].debited > 0 => ledger[b].credited > 0

\* Disbursements that are pending or paid never add up to more than the host has
\* ever earned, whatever requests, refunds, failures and crashes interleave in one
\* process; and what is recorded as paid did leave: service.go:237-313.
CommittedIsEarned ==
  /\ Disbursed <= Earned
  /\ \A r \in Request : payout[r].status = "paid" => rail[r] = payout[r].amount
=============================================================================
