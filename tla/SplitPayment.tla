---------------------------- MODULE SplitPayment ----------------------------
(***************************************************************************)
(* The split-payment plan of one booking, and the gateway holds behind its *)
(* shares.                                                                 *)
(*   application/splitpayment/service.go, domain/splitpayment,             *)
(*   infrastructure/persistence/postgres/splitpayment_repository.go        *)
(*                                                                         *)
(* Every call loads the plan with all its shares, works on the copy, calls *)
(* the gateway, and writes plan and shares back whole; neither a lock nor  *)
(* a version guards the row in between, inside a unit of work or not.      *)
(***************************************************************************)
EXTENDS Naturals, FiniteSets

CONSTANTS Share,      \* the shares of the plan; each payer has one
          Organizer,  \* the share of the payer who made the plan
          Amounts,    \* amounts a share may be given
          Price,      \* the booking's total
          Attempt,    \* calls of AuthorizeShare, Cancel and of the event handler
          MaxRefusals \* bound: gateway calls that fail or whose answer is lost

VARIABLES
  plan,      \* the split_payments row with its shares
  held,      \* the gateway's record of each share's idempotency key
  call,      \* what each attempt is doing
  completed, \* a SplitPaymentCompleted record was appended to the outbox
  announced, \* shares with a SplitShareAuthorized or SplitShareRefunded record
  cancelled, \* the booking is cancelled
  refused

splitVars == <<plan, held, call, completed, announced, cancelled, refused>>

\* New: at least two shares, the organizer's among them, each of a positive
\* amount, that sum exactly to the total.
Sums(amount) ==
  LET total[S \in SUBSET Share] ==
        IF S = {} THEN 0 ELSE LET s == CHOOSE s \in S : TRUE IN amount[s] + total[S \ {s}]
  IN  total[Share]
New(amount) ==
  /\ Cardinality(Share) >= 2 /\ Organizer \in Share
  /\ \A s \in Share : amount[s] > 0
  /\ Sums(amount) = Price

Statuses == {"pending", "completed", "cancelled"}
ShareStatuses == {"pending", "paid", "failed", "refunded"}

NotStarted == [op |-> "new", at |-> "new", share |-> Organizer, plan |-> [status |-> "pending"],
               paid |-> {}, left |-> {}]
Over == [NotStarted EXCEPT !.op = "over", !.at = "over"]

Init ==
  /\ \E amount \in [Share -> Amounts] :
       /\ New(amount)
       /\ plan = [status |-> "pending", share |-> [s \in Share |-> "pending"], amount |-> amount]
  /\ held = [s \in Share |-> "none"]
  /\ call = [c \in Attempt |-> NotStarted]
  /\ completed = FALSE /\ announced = {} /\ cancelled = FALSE /\ refused = 0

-----------------------------------------------------------------------------
(* The aggregate: what each transition makes of a copy p, or refuses.        *)

MarkShare(p, s, status) == [p EXCEPT !.share[s] = status]

\* MarkSharePaid and MarkShareFailed accept a share that was neither paid nor
\* refunded, of a pending plan.
Payable(p, s) == p.status = "pending" /\ p.share[s] \in {"pending", "failed"}

\* AllPaid, and MarkCompleted's own check.
\* Fault: failed shares are left out of account.
AllPaid_IgnoresFailed(p) == p.status = "pending" /\ \A s \in Share : p.share[s] \in {"paid", "failed"}
AllPaid(p) == p.status = "pending" /\ \A s \in Share : p.share[s] = "paid"

MarkCompleted(p) == IF AllPaid(p) THEN [p EXCEPT !.status = "completed"] ELSE p
CancelPlan(p)    == IF p.status = "pending" THEN [p EXCEPT !.status = "cancelled"] ELSE p
PaidShares(p)    == {s \in Share : p.share[s] = "paid"}

-----------------------------------------------------------------------------
(* Calls.                                                                    *)

At(c, op, at) == call[c].op = op /\ call[c].at = at
Step(c, at, p) == call' = [call EXCEPT ![c].at = at, ![c].plan = p]
Finish(c) == call' = [call EXCEPT ![c] = Over]
Refusal == refused < MaxRefusals /\ refused' = refused + 1

Open(c, op, at, s, p, paid) ==
  /\ call[c] = NotStarted
  /\ call' = [call EXCEPT ![c] = [op |-> op, at |-> at, share |-> s, plan |-> p,
                                 paid |-> paid, left |-> paid]]

\* The payer's e-mail is the share's, so a call stands for its payer's share; the
\* first look-up only finds the share.
AuthorizeShare(c, s) ==
  /\ Open(c, "authorize", "gateway", s, NotStarted.plan, {})
  /\ UNCHANGED <<plan, held, completed, announced, cancelled, refused>>

\* The key is the plan's and the share's ids: a repeated call finds the first
\* hold, live or released.  A refusal, or a lost answer, leads to the failure path.
AuthorizeAtGateway(c) ==
  LET s == call[c].share IN
  /\ At(c, "authorize", "gateway")
  /\ \E effect, ok \in BOOLEAN :
       /\ ok => effect
       /\ held' = IF effect /\ held[s] = "none" THEN [held EXCEPT ![s] = "held"] ELSE held
       /\ IF ok THEN UNCHANGED refused ELSE Refusal
       /\ Step(c, IF ok THEN "read" ELSE "read failed", call[c].plan)
  /\ UNCHANGED <<plan, completed, announced, cancelled>>

\* Inside the unit of work: load, mark, and commit with the events.
ReadShare(c) ==
  /\ At(c, "authorize", "read")
  /\ IF Payable(plan, call[c].share)
       THEN Step(c, "commit", MarkCompleted(MarkShare(plan, call[c].share, "paid")))
       ELSE Finish(c)
  /\ UNCHANGED <<plan, held, completed, announced, cancelled, refused>>

CommitShare(c) ==
  /\ At(c, "authorize", "commit")
  /\ plan' = call[c].plan
  /\ completed' = (completed \/ call[c].plan.status = "completed")
  /\ announced' = announced \cup {<<"authorized", call[c].share>>}
  /\ Finish(c)
  /\ UNCHANGED <<held, cancelled, refused>>

\* recordShareFailure: a load and an update of their own.
ReadFailure(c) ==
  /\ At(c, "authorize", "read failed")
  /\ IF Payable(plan, call[c].share)
       THEN Step(c, "write failed", MarkShare(plan, call[c].share, "failed"))
       ELSE Finish(c)
  /\ UNCHANGED <<plan, held, completed, announced, cancelled, refused>>

WriteFailure(c) ==
  /\ At(c, "authorize", "write failed")
  /\ plan' = call[c].plan
  /\ Finish(c)
  /\ UNCHANGED <<held, completed, announced, cancelled, refused>>

\* Cancel, by the organizer: refused unless the plan it loads is pending.
Cancel(c) ==
  /\ plan.status = "pending"
  /\ Open(c, "cancel", "refund", Organizer, CancelPlan(plan), PaidShares(plan))
  /\ UNCHANGED <<plan, held, completed, announced, cancelled, refused>>

CancelBooking ==
  /\ ~cancelled /\ cancelled' = TRUE
  /\ UNCHANGED <<plan, held, call, completed, announced, refused>>

\* refundBookingShares, on BookingCancelled, delivered at least once.  A completed
\* plan stays completed.
Deliver(c) ==
  /\ cancelled
  /\ Open(c, "event", "refund", Organizer, plan, PaidShares(plan))
  /\ UNCHANGED <<plan, held, completed, announced, cancelled, refused>>

\* refundPaidShares: a share whose refund fails stays paid; the others go on.
\* A hold can be released once.
\* Fault: a failed refund is recorded as a success.
Refunded_Anyway(ok, p, s) == MarkShare(p, s, "refunded")
Refunded(ok, p, s) == IF ok THEN MarkShare(p, s, "refunded") ELSE p

RefundShare(c, s) ==
  /\ call[c].at = "refund" /\ s \in call[c].left
  /\ \E effect, ok \in BOOLEAN :
       /\ ok => effect
       /\ effect => held[s] = "held"
       /\ held' = IF effect THEN [held EXCEPT ![s] = "released"] ELSE held
       /\ IF ok \/ (~effect /\ held[s] # "held") THEN UNCHANGED refused ELSE Refusal
       /\ call' = [call EXCEPT ![c].left = @ \ {s}, ![c].plan = Refunded(ok, @, s)]
  /\ UNCHANGED <<plan, completed, announced, cancelled>>

\* Both end in an update of the copy; the handler's carries the refund events.
WriteRefunds(c) ==
  /\ call[c].at = "refund" /\ call[c].left = {}
  /\ plan' = CancelPlan(call[c].plan)
  /\ announced' = announced \cup
       (IF call[c].op = "event"
          THEN {<<"refunded", s>> : s \in {r \in call[c].paid : call[c].plan.share[r] = "refunded"}}
          ELSE {})
  /\ Finish(c)
  /\ UNCHANGED <<held, completed, cancelled, refused>>

Next ==
  \/ CancelBooking
  \/ \E c \in Attempt :
       \/ Cancel(c) \/ Deliver(c)
       \/ AuthorizeAtGateway(c)
       \/ ReadShare(c) \/ CommitShare(c) \/ ReadFailure(c) \/ WriteFailure(c)
       \/ WriteRefunds(c)
  \/ \E c \in Attempt, s \in Share : AuthorizeShare(c, s) \/ RefundShare(c, s)

Spec == Init /\ [][Next]_splitVars

-----------------------------------------------------------------------------
\* However payers, their retries, the organizer and the event handler overtake
\* each other, the event that confirms the booking is recorded only when a hold
\* was placed for every share: service.go:161-219.
CompletionIsFunded == completed => \A s \in Share : held[s] # "none"

\* A share that the table calls refunded has no live hold at the gateway, and one
\* it calls paid had a hold: service.go:313-333, splitpayment.go:248.
RefundedIsReleased ==
  \A s \in Share : /\ plan.share[s] = "refunded" => held[s] = "released"
                   /\ plan.share[s] = "paid" => held[s] # "none"
=============================================================================
