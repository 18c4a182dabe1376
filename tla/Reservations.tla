---------------------------- MODULE Reservations ----------------------------
(***************************************************************************)
(* The reservations of one listing: the booking service with its host      *)
(* blocks, promo coupon, payout-onboarding gate and the two event handlers *)
(* that confirm a booking, over the tables they share.                     *)
(*   application/{booking,block,coupon}/service.go, domain/booking,        *)
(*   domain/coupon, infrastructure/persistence/postgres/                   *)
(*   {booking,block,coupon}_repository.go, migration 0018                  *)
(*                                                                         *)
(* A request goroutine (or a delivery of an event) runs one call.  A call  *)
(* reads the database step by step and ends with one transaction; nothing  *)
(* locks or versions the rows in between, so every read is a step of its   *)
(* own.  A stay is the set of its nights, numbered from 1; a block that    *)
(* does not exist has the empty stay.                                      *)
(***************************************************************************)
EXTENDS Naturals, Sequences, FiniteSets

CONSTANTS Booking,         \* ids of bookings rows
          Block,           \* ids of property_blocks rows
          Request,         \* goroutines: HTTP requests and event deliveries
          Nights,          \* nights on the calendar
          MaxRedemptions,  \* the coupon's cap, 0 for none
          Operations,      \* the calls an instance exercises
          MaxEvents,       \* bound: no call starts on a booking with that many events
          MaxCrashes,      \* bound: calls that die with their replica
          NoBooking        \* the booking of a call that has none

AllOperations ==
  {"create", "split", "coupon", "modify", "confirm", "cancel", "complete", "auto",
   "settle", "block", "import", "unblock", "deactivate", "onboard", "edit", "midnight"}

ASSUME ReservationsAssumption ==
  /\ NoBooking \notin Booking
  /\ Nights \in Nat
  /\ MaxRedemptions \in Nat
  /\ MaxEvents \in Nat
  /\ MaxCrashes \in Nat
  /\ Operations \subseteq AllOperations

VARIABLES
  \* the database
  status,     \* bookings.status, "none" when there is no row
  nights,     \* check_in and check_out of the row
  split,      \* bookings created with shares to be paid
  log,        \* outbox events of each booking, in the order they were committed
  block,      \* the stay each block row covers
  coupon,     \* redemptions and active of the one coupon
  onboarded,  \* the host has a payout account that is enabled
  instant,    \* the listing is instant-book
  paid,       \* split bookings all of whose shares are paid
  due,        \* those whose SplitPaymentCompleted record is not processed
  today,      \* the current day
  \* the processes
  req,        \* the call each goroutine is running
  \* what happened (never read by the program)
  promised,   \* the nights the guest and host were last told
  redeemed,   \* bookings created with the coupon's discount
  wasOnboarded,
  crashes

listing == <<block, onboarded, instant, wasOnboarded>>
settlement == <<paid, due>>
rows    == <<status, nights, split, log, promised>>
vars    == <<rows, listing, coupon, redeemed, settlement, today, req, crashes>>

Stay     == {a .. z : a \in 1 .. Nights, z \in 1 .. Nights} \ {{}}
Active   == {"pending", "confirmed"}
Terminal == {"cancelled", "completed"}
Status   == {"none"} \cup Active \cup Terminal

Disjoint(s, t) == s \cap t = {}
Last(s)        == s[Len(s)]

\* Which statuses a call accepts, the one it writes, the event it records.
\* Fault: a completed booking may be cancelled.
From_CancelCompleted(op) == CASE op = "cancel"   -> Active \cup {"completed"}
                              [] op = "complete" -> {"confirmed"}
                              [] OTHER           -> {"pending"}
From(op)   == CASE op = "cancel"   -> Active
                [] op = "complete" -> {"confirmed"}
                [] OTHER           -> {"pending"}
Transition == {"modify", "confirm", "auto", "settle", "cancel", "complete"}
Target(op) == CASE op = "cancel"   -> "cancelled"
                [] op = "complete" -> "completed"
                [] op = "modify"   -> "pending"
                [] OTHER           -> "confirmed"
Event(op)  == CASE op = "cancel"   -> "Cancelled"
                [] op = "complete" -> "Completed"
                [] op = "modify"   -> "Modified"
                [] OTHER           -> "Confirmed"

EventName == {"Requested", "Modified", "Confirmed", "Cancelled", "Completed"}

\* A call that has read nothing yet.
Call(op) == [op |-> op, done |-> 0, b |-> NoBooking, stay |-> {}, split |-> FALSE,
             coupon |-> FALSE, instant |-> FALSE, seen |-> 0, standing |-> {}]
Idle     == Call("idle")

\* The calls that confirm a booking ask for the host's payout account first.
\* Fault: a settled split is confirmed without asking.
Gated_NotSettle(r) ==
  r.op \in {"confirm", "auto"} \/ (r.op = "create" /\ r.instant /\ ~r.split)
Gated(r) ==
  r.op \in {"confirm", "auto", "settle"} \/ (r.op = "create" /\ r.instant /\ ~r.split)

\* What a call reads before it writes, in order.
Reads(r) ==
  LET Also(needed, read) == IF needed THEN <<read>> ELSE <<>> IN
  CASE r.op = "create" -> <<"calendar", "blocks">> \o Also(r.coupon, "coupon")
                            \o Also(Gated(r), "gate")
    [] r.op = "modify" -> <<"load", "calendar", "blocks">>
    [] r.op \in {"confirm", "auto", "settle", "cancel", "complete"} ->
         <<"load">> \o Also(Gated(r), "gate")
    [] r.op = "block"      -> <<"blocks">>
    [] r.op = "import"     -> <<"blocks", "reserved">>
    [] r.op = "deactivate" -> <<"row">>
    [] OTHER -> <<>>

Ready(p, ops) == req[p].op \in ops /\ req[p].done = Len(Reads(req[p]))

Redeemable ==
  coupon.active /\ (MaxRedemptions > 0 => coupon.uses < MaxRedemptions)

\* The rows in one of the statuses S, the call's own aside, leave its nights free.
Free(S, b, stay) ==
  \A o \in Booking \ {b} : status[o] \in S => Disjoint(nights[o], stay)

\* No block overlaps the stay.
\* Fault: the query finds only blocks that lie within the stay.
BlockFree_Contained(stay) == \A k \in Block : block[k] = {} \/ ~(block[k] \subseteq stay)
BlockFree(stay) == \A k \in Block : Disjoint(block[k], stay)

\* The check-out day of the row has come.
\* Fault: the day of the last night is taken for the check-out day.
StayOver_LastNight(b) == \A n \in nights[b] : n <= today
StayOver(b) == \A n \in nights[b] : n < today

\* The answer to a read lets the call go on.
Admits(read, r) ==
  CASE read = "calendar" -> Free(Active, r.b, r.stay)
    [] read = "blocks"   -> BlockFree(r.stay)
    [] read = "reserved" -> Free({"confirmed"}, r.b, r.stay)
    [] read = "coupon"   -> Redeemable
    [] read = "gate"     -> onboarded
    [] read = "load"     -> /\ status[r.b] \in From(r.op)
                            /\ r.op = "auto" => instant
                            /\ r.op = "complete" => StayOver(r.b)
    [] OTHER -> TRUE

\* The exclusion constraint accepts the row of b with these nights and status.
\* Fault: the constraint covers confirmed rows only.
Accepts_Confirmed(b, stay, s) == s = "confirmed" => Free({"confirmed"}, b, stay)
Accepts(b, stay, s) == s \in Active => Free(Active, b, stay)

Init ==
  /\ status = [b \in Booking |-> "none"]
  /\ nights = [b \in Booking |-> {}]
  /\ split = {}
  /\ log = [b \in Booking |-> <<>>]
  /\ block = [k \in Block |-> {}]
  /\ coupon = [uses |-> 0, active |-> TRUE]
  /\ onboarded \in BOOLEAN
  /\ instant \in BOOLEAN
  /\ paid = {}
  /\ due = {}
  /\ today = 1
  /\ req = [p \in Request |-> Idle]
  /\ promised = [b \in Booking |-> {}]
  /\ redeemed = {}
  /\ wasOnboarded = onboarded
  /\ crashes = 0

-----------------------------------------------------------------------------
(* Calls arrive. *)

Start(p, r) ==
  /\ req[p] = Idle
  /\ r.op \in Operations
  /\ req' = [req EXCEPT ![p] = [r EXCEPT !.standing =
                IF r.op = "create" THEN {k \in Block : block[k] # {}} ELSE {}]]
  /\ UNCHANGED <<rows, listing, coupon, redeemed, settlement, today, crashes>>

Upcoming(stay) == \A n \in stay : n >= today
Fresh(b)       == status[b] = "none" /\ \A q \in Request : req[q].b # b
Quiet(b)       == status[b] # "none" /\ Len(log[b]) < MaxEvents

\* POST /bookings; shares are only accepted on an instant-book listing.
StartCreate(p) ==
  \E b \in Booking, stay \in Stay, withSplit, withCoupon \in BOOLEAN :
    /\ Fresh(b) /\ Upcoming(stay)
    /\ withSplit => instant /\ "split" \in Operations
    /\ withCoupon => "coupon" \in Operations
    /\ Start(p, [Call("create") EXCEPT !.b = b, !.stay = stay, !.split = withSplit,
                                       !.coupon = withCoupon, !.instant = instant])

StartModify(p) ==
  \E b \in Booking, stay \in Stay :
    /\ Quiet(b) /\ Upcoming(stay)
    /\ Start(p, [Call("modify") EXCEPT !.b = b, !.stay = stay])

\* The host or guest acts; Offer.Accept and a host's suspension call these too.
StartTransition(p) ==
  \E b \in Booking, op \in {"confirm", "cancel", "complete"} :
    Quiet(b) /\ Start(p, [Call(op) EXCEPT !.b = b])

\* PaymentAuthorized is delivered at least once for a booking without shares.
StartAuto(p) ==
  \E b \in Booking \ split : Quiet(b) /\ Start(p, [Call("auto") EXCEPT !.b = b])

\* A dispatcher or the relay delivers SplitPaymentCompleted.
\* Fault: the record is marked processed before the handler runs.
StartSettle_MarksFirst(p) ==
  \E b \in due :
    /\ req[p] = Idle
    /\ req' = [req EXCEPT ![p] = [Call("settle") EXCEPT !.b = b]]
    /\ due' = due \ {b}
    /\ UNCHANGED <<rows, listing, coupon, redeemed, paid, today, crashes>>
StartSettle(p) == \E b \in due : Start(p, [Call("settle") EXCEPT !.b = b])

StartBlock(p) ==
  \E op \in {"block", "import"}, stay \in Stay :
    Upcoming(stay) /\ Start(p, [Call(op) EXCEPT !.stay = stay])

StartDeactivate(p) == coupon.active /\ Start(p, Call("deactivate"))

-----------------------------------------------------------------------------
(* Calls run. *)

\* What the goroutine does after its call: the dispatcher of an event goes on to
\* mark the record processed, whatever the handler did.
Over(r) == IF r.op = "settle" THEN [Call("mark") EXCEPT !.b = r.b] ELSE Idle

Check(p) ==
  LET r    == req[p]
      read == Reads(r)[r.done + 1]
  IN  /\ r.done < Len(Reads(r))
      /\ \/ /\ Admits(read, r)
            /\ req' = [req EXCEPT ![p].done = @ + 1,
                                  ![p].seen = IF read \in {"coupon", "row"}
                                                THEN coupon.uses ELSE @]
         \/ ~Admits(read, r) /\ req' = [req EXCEPT ![p] = Over(r)]
      /\ UNCHANGED <<rows, listing, coupon, redeemed, settlement, today, crashes>>

\* The one transaction of a create: booking row, coupon row and outbox records,
\* or nothing when the exclusion constraint rejects the row.
\* Fault: the coupon is redeemed outside the transaction, before the row.
InsertBooking_RedeemsAnyway(p) ==
  LET r == req[p]  auto == r.instant /\ ~r.split
      s == IF auto THEN "confirmed" ELSE "pending"
      accepted == Accepts(r.b, r.stay, s)
  IN  /\ Ready(p, {"create"})
      /\ req' = [req EXCEPT ![p] = Idle]
      /\ coupon' = IF r.coupon THEN [uses |-> r.seen + 1, active |-> TRUE] ELSE coupon
      /\ IF accepted
           THEN /\ status' = [status EXCEPT ![r.b] = s]
                /\ nights' = [nights EXCEPT ![r.b] = r.stay]
                /\ promised' = [promised EXCEPT ![r.b] = r.stay]
                /\ split' = IF r.split THEN split \cup {r.b} ELSE split
                /\ log' = [log EXCEPT ![r.b] = IF auto THEN <<"Requested", "Confirmed">>
                                                       ELSE <<"Requested">>]
                /\ redeemed' = IF r.coupon THEN redeemed \cup {r.b} ELSE redeemed
           ELSE UNCHANGED <<rows, redeemed>>
      /\ UNCHANGED <<listing, settlement, today, crashes>>
InsertBooking(p) ==
  LET r == req[p]  auto == r.instant /\ ~r.split
      s == IF auto THEN "confirmed" ELSE "pending"
  IN  /\ Ready(p, {"create"})
      /\ req' = [req EXCEPT ![p] = Idle]
      /\ \/ /\ Accepts(r.b, r.stay, s)
            /\ status' = [status EXCEPT ![r.b] = s]
            /\ nights' = [nights EXCEPT ![r.b] = r.stay]
            /\ promised' = [promised EXCEPT ![r.b] = r.stay]
            /\ split' = IF r.split THEN split \cup {r.b} ELSE split
            /\ log' = [log EXCEPT ![r.b] = IF auto THEN <<"Requested", "Confirmed">>
                                                   ELSE <<"Requested">>]
            /\ coupon' = IF r.coupon THEN [uses |-> r.seen + 1, active |-> TRUE] ELSE coupon
            /\ redeemed' = IF r.coupon THEN redeemed \cup {r.b} ELSE redeemed
         \/ ~Accepts(r.b, r.stay, s) /\ UNCHANGED <<rows, coupon, redeemed>>
      /\ UNCHANGED <<listing, settlement, today, crashes>>

\* The one transaction of every other booking call: the status is written by id
\* whatever it is by now, and the dates are not among the columns.
\* Fault: the events are recorded outside the transaction of the row.
UpdateBooking_RecordsAnyway(p) ==
  LET r == req[p]  s == Target(r.op)
  IN  /\ Ready(p, Transition)
      /\ req' = [req EXCEPT ![p] = Over(r)]
      /\ status' = IF Accepts(r.b, nights[r.b], s) THEN [status EXCEPT ![r.b] = s] ELSE status
      /\ log' = [log EXCEPT ![r.b] = Append(@, Event(r.op))]
      /\ promised' = IF r.op = "modify" THEN [promised EXCEPT ![r.b] = r.stay] ELSE promised
      /\ UNCHANGED <<nights, split, listing, coupon, redeemed, settlement, today, crashes>>
UpdateBooking(p) ==
  LET r == req[p]  s == Target(r.op)
  IN  /\ Ready(p, Transition)
      /\ req' = [req EXCEPT ![p] = Over(r)]
      /\ \/ /\ Accepts(r.b, nights[r.b], s)
            /\ status' = [status EXCEPT ![r.b] = s]
            /\ log' = [log EXCEPT ![r.b] = Append(@, Event(r.op))]
            /\ promised' = IF r.op = "modify" THEN [promised EXCEPT ![r.b] = r.stay]
                                              ELSE promised
         \/ ~Accepts(r.b, nights[r.b], s) /\ UNCHANGED <<status, log, promised>>
      /\ UNCHANGED <<nights, split, listing, coupon, redeemed, settlement, today, crashes>>

InsertBlock(p) ==
  /\ Ready(p, {"block", "import"})
  /\ \E k \in Block : block[k] = {} /\ block' = [block EXCEPT ![k] = req[p].stay]
  /\ req' = [req EXCEPT ![p] = Idle]
  /\ UNCHANGED <<rows, onboarded, instant, wasOnboarded, coupon, redeemed, settlement,
                 today, crashes>>

\* Deactivate writes back the whole coupon it read.
UpdateCoupon(p) ==
  /\ Ready(p, {"deactivate"})
  /\ coupon' = [uses |-> req[p].seen, active |-> FALSE]
  /\ req' = [req EXCEPT ![p] = Idle]
  /\ UNCHANGED <<rows, listing, redeemed, settlement, today, crashes>>

Mark(p) ==
  /\ Ready(p, {"mark"})
  /\ due' = due \ {req[p].b}
  /\ req' = [req EXCEPT ![p] = Idle]
  /\ UNCHANGED <<rows, listing, coupon, redeemed, paid, today, crashes>>

Crash(p) ==
  /\ req[p] # Idle
  /\ crashes < MaxCrashes
  /\ crashes' = crashes + 1
  /\ req' = [req EXCEPT ![p] = Idle]
  /\ UNCHANGED <<rows, listing, coupon, redeemed, settlement, today>>

-----------------------------------------------------------------------------
(* What happens around the calls. *)

Unblock(k) ==
  /\ "unblock" \in Operations
  /\ block[k] # {}
  /\ block' = [block EXCEPT ![k] = {}]
  /\ req' = [p \in Request |-> [req[p] EXCEPT !.standing = @ \ {k}]]
  /\ UNCHANGED <<rows, onboarded, instant, wasOnboarded, coupon, redeemed, settlement,
                 today, crashes>>

\* The Connect webhook account.updated.
SyncAccount ==
  /\ "onboard" \in Operations
  /\ onboarded' = ~onboarded
  /\ wasOnboarded' = TRUE
  /\ UNCHANGED <<rows, block, instant, coupon, redeemed, settlement, today, req, crashes>>

\* The host edits the listing.
EditInstantBook ==
  /\ "edit" \in Operations
  /\ instant' = ~instant
  /\ UNCHANGED <<rows, block, onboarded, wasOnboarded, coupon, redeemed, settlement,
                 today, req, crashes>>

\* The last share of a split is paid; its record is committed with that.
CompleteSplit(b) ==
  /\ "settle" \in Operations
  /\ b \in split \ paid
  /\ paid' = paid \cup {b}
  /\ due' = due \cup {b}
  /\ UNCHANGED <<rows, listing, coupon, redeemed, today, req, crashes>>

Midnight ==
  /\ "midnight" \in Operations
  /\ today <= Nights
  /\ today' = today + 1
  /\ UNCHANGED <<rows, listing, coupon, redeemed, settlement, req, crashes>>

Arrive(p) ==
  \/ StartCreate(p) \/ StartModify(p) \/ StartTransition(p)
  \/ StartAuto(p) \/ StartSettle(p) \/ StartBlock(p) \/ StartDeactivate(p)
Run(p) ==
  \/ Check(p) \/ InsertBooking(p) \/ UpdateBooking(p)
  \/ InsertBlock(p) \/ UpdateCoupon(p) \/ Mark(p)
Around ==
  \/ \E k \in Block : Unblock(k)
  \/ \E b \in Booking : CompleteSplit(b)
  \/ SyncAccount \/ EditInstantBook \/ Midnight

Next == (\E p \in Request : Arrive(p) \/ Run(p) \/ Crash(p)) \/ Around

Spec == Init /\ [][Next]_vars

\* A call that has arrived runs on, and the relay, which has a goroutine of its
\* own, comes back for a record nobody marked.
Fairness ==
  \A p \in Request : WF_vars(Run(p)) /\ SF_vars(StartSettle(p))
FairSpec == Spec /\ Fairness

-----------------------------------------------------------------------------
Calls == {"idle", "create", "block", "import", "deactivate", "mark"} \cup Transition

CallRecord ==
  [op : Calls, done : Nat, b : Booking \cup {NoBooking}, stay : Stay \cup {{}},
   split : BOOLEAN, coupon : BOOLEAN, instant : BOOLEAN, seen : Nat,
   standing : SUBSET Block]

\* A call about a booking names one, and the row exists unless it will insert it.
Named(r) ==
  r.op \in Transition \cup {"create", "mark"} =>
    r.b \in Booking /\ (r.op # "create" => status[r.b] # "none")

\* Every variable stays in its range: in particular a call that has a booking
\* names a row the database has, unless it is the create that will insert it.
TypeOK ==
  /\ status \in [Booking -> Status]
  /\ nights \in [Booking -> Stay \cup {{}}]
  /\ promised \in [Booking -> Stay \cup {{}}]
  /\ split \subseteq Booking
  /\ log \in [Booking -> Seq(EventName)]
  /\ block \in [Block -> Stay \cup {{}}]
  /\ coupon \in [uses : Nat, active : BOOLEAN]
  /\ onboarded \in BOOLEAN /\ instant \in BOOLEAN /\ wasOnboarded \in BOOLEAN
  /\ paid \subseteq split /\ due \subseteq paid
  /\ today \in 1 .. Nights + 1
  /\ req \in [Request -> CallRecord]
  /\ redeemed \subseteq Booking
  /\ crashes \in 0 .. MaxCrashes
  /\ \A p \in Request : Named(req[p])
  /\ \A b \in split : status[b] # "none"

\* Two bookings that hold the calendar never share a night, although calendar
\* checks race with inserts and a stale confirm may bring a cancelled booking
\* back after its nights were sold again (migration 0018, bookings_no_overlap).
NoDoubleBooking ==
  \A b, c \in Booking :
    b # c /\ status[b] \in Active /\ status[c] \in Active => Disjoint(nights[b], nights[c])

\* The status a sequence of events leaves a booking in.
Told(events) ==
  IF events = <<>> THEN "none"
  ELSE CASE Last(events) = "Cancelled" -> "cancelled"
         [] Last(events) = "Completed" -> "completed"
         [] Last(events) = "Confirmed" -> "confirmed"
         [] OTHER                      -> "pending"

\* The status of a row is the one its last committed event announces, whatever
\* stale calls wrote: the row and its records share one transaction (emit).
LastEventTellsStatus == \A b \in Booking : status[b] = Told(log[b])

\* A stay is completed only after it was confirmed and after its last night, on
\* whatever path it got there (Complete opens the guest's right to review).
CompletedWasStayed ==
  \A b \in Booking : \A i \in DOMAIN log[b] :
    log[b][i] = "Completed" =>
      /\ \E j \in 1 .. i - 1 : log[b][j] = "Confirmed"
      /\ \A n \in nights[b] : n < today

\* No booking is ever confirmed for a host who never finished payout
\* onboarding: instant book, host, PaymentAuthorized and SplitPaymentCompleted
\* all pass the gate (enforcePayoutOnboarding).
NeverOnboardedNeverConfirmed ==
  ~wasOnboarded => \A b \in Booking : \A i \in DOMAIN log[b] : log[b][i] # "Confirmed"

\* The coupon never counts a use that no reservation had: a create the
\* constraint rejects burns nothing, and no stale copy that is written back puts
\* the counter ahead (the redemption in the booking's transaction).
NoUseIsBurnt == coupon.uses <= Cardinality(redeemed)

\* A reservation is never inserted over a block that stood when the call began
\* and was not lifted since (the blocks check of Create).
InsertRespectsBlocks ==
  \A b \in Booking : status[b] = "none" /\ status'[b] # "none" =>
    \E p \in Request :
      /\ req[p].op = "create" /\ req[p].b = b
      /\ \A k \in req[p].standing : Disjoint(block[k], nights'[b])
BlocksRespected == [][InsertRespectsBlocks]_vars

\* When calls do not overlap in time, the service implements the lifecycle of
\* the aggregate: whole transitions, one event each, no night sold twice.
Lifecycle == INSTANCE BookingLifecycle
LifecycleImplemented == Lifecycle!Spec

\* A split whose shares are all paid leaves pending once its record is
\* delivered, if the host stays onboarded: a replica that dies in the handler
\* leaves the record for the relay.
SplitSettles == \A b \in Booking : (b \in due /\ []onboarded) ~> (status[b] # "pending")

-----------------------------------------------------------------------------
(* What comments of the code say, and the runs refute. *)

\* confirmAfterAsyncAuth: any status but pending and confirmed is terminal.
TerminalIsFinal ==
  [][\A b \in Booking : status[b] \in Terminal => status'[b] = status[b]]_vars

\* Modify: the dates of a pending booking are changed to those it announces.
PromisedNightsAreKept ==
  \A b \in Booking : status[b] \in Active => nights[b] = promised[b]

=============================================================================
