----------------------------- MODULE TradeProofs -----------------------------
(***************************************************************************)
(* What the components of Trade guarantee, for any number of calls, rows     *)
(* and faults.  Of each: the invariant, that it holds at first, that every   *)
(* step keeps it, and what it means for the property the runs check;         *)
(* PlatformProofs draws the theorems from these.                             *)
(***************************************************************************)
EXTENDS Trade, Integers, Sequences, FiniteSets, FiniteSetTheorems, SequenceTheorems,
        SumsProofs, TLAPS

-----------------------------------------------------------------------------
(* Split payments.  The row is overwritten by stale copies, so no property    *)
(* of the row alone is inductive.  What is: whatever a copy says of a share   *)
(* was true of the gateway when the copy was made, and a share's hold only    *)
(* ever goes from none to held to released.                                  *)

PlanType == [status : Splits!Statuses, share : [Payer -> Splits!ShareStatuses], amount : [Payer -> Amounts]]

HoldType == [Payer -> {"none", "held", "released"}]

\* The places of a call whose copy of the plan is going to be written.
Carrying == {"commit", "write failed", "refund"}

CallType ==
  [op    : {"new", "over", "authorize", "cancel", "event"},
   at    : {"new", "over", "gateway", "read", "read failed"} \cup Carrying,
   share : Payer,
   plan  : PlanType \cup {Splits!NotStarted.plan},
   paid  : SUBSET Payer,
   left  : SUBSET Payer]

\* Plan p says nothing of the gateway's record h that is not so.
Funded(p, h) ==
  /\ p \in PlanType
  /\ \A s \in Payer : /\ p.share[s] = "paid" => h[s] # "none"
                      /\ p.share[s] = "refunded" => h[s] = "released"
  /\ p.status = "completed" => \A s \in Payer : p.share[s] \in {"paid", "refunded"}

\* Call k holds only what the gateway's record h supports.
Ready(k, h) ==
  /\ k.at = "read" => h[k.share] # "none"
  /\ k.at \in Carrying => Funded(k.plan, h)

SplitInv ==
  /\ Organizer \in Payer
  /\ held \in HoldType
  /\ Funded(plan, held)
  /\ call \in [Call -> CallType]
  /\ \A c \in Call : Ready(call[c], held)
  /\ completed => \A s \in Payer : held[s] # "none"

\* A hold comes, goes, and does not come back.
Grows(h, g) ==
  \A s \in Payer : /\ h[s] # "none" => g[s] # "none"
                   /\ h[s] = "released" => g[s] = "released"

-----------------------------------------------------------------------------
(* The transitions of a copy.                                                *)

\* What a copy says stays so while the holds move on.
LEMMA FundedStays ==
  ASSUME NEW p, NEW h, NEW g, Funded(p, h), Grows(h, g)
  PROVE  Funded(p, g)
BY DEF Funded, Grows

\* What a call holds stays so while the holds move on.
LEMMA ReadyStays ==
  ASSUME NEW k, k \in CallType, NEW h, NEW g, Ready(k, h), Grows(h, g)
  PROVE  Ready(k, g)
<1>1. k.share \in Payer
  BY DEF CallType
<1>2. k.at = "read" => g[k.share] # "none"
  BY <1>1 DEF Ready, Grows
<1>3. k.at \in Carrying => Funded(k.plan, g)
  <2>1. SUFFICES ASSUME k.at \in Carrying PROVE Funded(k.plan, g)
    OBVIOUS
  <2>2. Funded(k.plan, h)
    BY <2>1 DEF Ready
  <2> QED BY <2>2, FundedStays
<1> QED BY <1>2, <1>3 DEF Ready

\* A share with a hold may be marked paid, and the plan completed with the last one.
LEMMA MarkedPaid ==
  ASSUME NEW p, NEW h, Funded(p, h), NEW s \in Payer, Splits!Payable(p, s), h[s] # "none"
  PROVE  Funded(Splits!MarkCompleted(Splits!MarkShare(p, s, "paid")), h)
<1> DEFINE q == Splits!MarkShare(p, s, "paid")
<1>1. /\ p \in PlanType /\ p.status = "pending"
      /\ \A r \in Payer : /\ p.share[r] = "paid" => h[r] # "none"
                          /\ p.share[r] = "refunded" => h[r] = "released"
  BY DEF Funded, Splits!Payable
<1>2. /\ q \in PlanType /\ q.status = "pending"
      /\ q.share[s] = "paid" /\ \A r \in Payer \ {s} : q.share[r] = p.share[r]
  BY <1>1 DEF Splits!MarkShare, PlanType, Splits!Statuses, Splits!ShareStatuses
<1>3. Funded(q, h)
  BY <1>1, <1>2 DEF Funded
<1> HIDE DEF q
<1>4. ASSUME Splits!AllPaid(q) PROVE Funded(Splits!MarkCompleted(q), h)
  <2>1. Splits!MarkCompleted(q) = [q EXCEPT !.status = "completed"]
    BY <1>4 DEF Splits!MarkCompleted
  <2>2. /\ Splits!MarkCompleted(q) \in PlanType /\ Splits!MarkCompleted(q).share = q.share
    BY <1>2, <2>1 DEF PlanType, Splits!Statuses
  <2>3. \A r \in Payer : q.share[r] = "paid"
    BY <1>4 DEF Splits!AllPaid
  <2> QED BY <1>3, <2>2, <2>3 DEF Funded
<1>5. ASSUME ~Splits!AllPaid(q) PROVE Funded(Splits!MarkCompleted(q), h)
  BY <1>3, <1>5 DEF Splits!MarkCompleted
<1> QED BY <1>4, <1>5 DEF q

\* An unpaid share may be marked failed.
LEMMA MarkedFailed ==
  ASSUME NEW p, NEW h, Funded(p, h), NEW s \in Payer, Splits!Payable(p, s)
  PROVE  Funded(Splits!MarkShare(p, s, "failed"), h)
<1> DEFINE q == Splits!MarkShare(p, s, "failed")
<1>1. /\ p \in PlanType /\ p.status = "pending"
      /\ \A r \in Payer : /\ p.share[r] = "paid" => h[r] # "none"
                          /\ p.share[r] = "refunded" => h[r] = "released"
  BY DEF Funded, Splits!Payable
<1>2. /\ q \in PlanType /\ q.status = "pending"
      /\ q.share[s] = "failed" /\ \A r \in Payer \ {s} : q.share[r] = p.share[r]
  BY <1>1 DEF Splits!MarkShare, PlanType, Splits!Statuses, Splits!ShareStatuses
<1> HIDE DEF q
<1>3. Funded(q, h)
  BY <1>1, <1>2 DEF Funded
<1> QED BY <1>3 DEF q

\* A share whose hold is released may be marked refunded.
LEMMA MarkedRefunded ==
  ASSUME NEW p, NEW h, Funded(p, h), NEW s \in Payer, NEW ok, ok => h[s] = "released"
  PROVE  Funded(Splits!Refunded(ok, p, s), h)
<1> DEFINE q == Splits!MarkShare(p, s, "refunded")
<1>1. CASE ok
  <2>1. p \in PlanType
    BY DEF Funded
  <2>2. /\ q \in PlanType /\ q.status = p.status
        /\ q.share[s] = "refunded" /\ \A r \in Payer \ {s} : q.share[r] = p.share[r]
    BY <2>1 DEF Splits!MarkShare, PlanType, Splits!Statuses, Splits!ShareStatuses
  <2>3. Splits!Refunded(ok, p, s) = q
    BY <1>1 DEF Splits!Refunded
  <2> HIDE DEF q
  <2> QED BY <1>1, <2>2, <2>3 DEF Funded
<1>2. CASE ~ok
  BY <1>2 DEF Splits!Refunded
<1> QED BY <1>1, <1>2

\* Cancelling touches no share.
LEMMA Cancelled ==
  ASSUME NEW p, NEW h, Funded(p, h)
  PROVE  Funded(Splits!CancelPlan(p), h)
<1>1. p \in PlanType
  BY DEF Funded
<1>2. /\ Splits!CancelPlan(p) \in PlanType /\ Splits!CancelPlan(p).share = p.share
      /\ Splits!CancelPlan(p).status = "completed" => p.status = "completed"
  BY <1>1 DEF Splits!CancelPlan, PlanType, Splits!Statuses
<1> QED BY <1>2 DEF Funded

-----------------------------------------------------------------------------
(* The initial state.                                                        *)

LEMMA SplitInit == Splits!Init => SplitInv
<1> SUFFICES ASSUME Splits!Init PROVE SplitInv
  OBVIOUS
<1>1. PICK amount \in [Payer -> Amounts] :
        /\ Splits!New(amount)
        /\ plan = [status |-> "pending", share |-> [s \in Payer |-> "pending"],
                  amount |-> amount]
  BY DEF Splits!Init
<1>2. Organizer \in Payer
  BY <1>1 DEF Splits!New
<1>3. Funded(plan, held)
  BY <1>1 DEF Funded, PlanType, Splits!Statuses, Splits!ShareStatuses
<1>4. held \in HoldType
  BY DEF Splits!Init, HoldType
<1>5. Splits!NotStarted \in CallType
  BY <1>2 DEF Splits!NotStarted, CallType
<1>6. call \in [Call -> CallType]
  BY <1>5 DEF Splits!Init
<1>7. \A c \in Call : Ready(call[c], held)
  BY DEF Splits!Init, Splits!NotStarted, Ready, Carrying
<1> QED BY <1>2, <1>3, <1>4, <1>6, <1>7 DEF SplitInv, Splits!Init

-----------------------------------------------------------------------------
(* The steps.                                                                *)

\* A step of call c that leaves the plan alone.
LEMMA CallStep ==
  ASSUME SplitInv, NEW c \in Call, NEW k, k \in CallType,
         call' = [call EXCEPT ![c] = k],
         held' \in HoldType, Grows(held, held'), Ready(k, held'), Funded(plan', held'),
         completed' => \A s \in Payer : held'[s] # "none"
  PROVE  SplitInv'
<1>1. call' \in [Call -> CallType]
  BY DEF SplitInv
<1>2. ASSUME NEW d \in Call PROVE Ready(call'[d], held')
  <2>1. CASE d = c
    BY <2>1 DEF SplitInv
  <2>2. CASE d # c
    <3>1. call'[d] = call[d] /\ call[d] \in CallType /\ Ready(call[d], held)
      BY <2>2 DEF SplitInv
    <3> QED BY <3>1, ReadyStays
  <2> QED BY <2>1, <2>2
<1> QED BY <1>1, <1>2 DEF SplitInv

\* A hold that does not move does not shrink.
LEMMA Still == ASSUME NEW h PROVE Grows(h, h)
BY DEF Grows

\* A call that is over holds nothing.
LEMMA OverIsReady ==
  ASSUME SplitInv, NEW h
  PROVE  Splits!Over \in CallType /\ Ready(Splits!Over, h)
<1>1. Splits!Over.at = "over" /\ Splits!Over \in CallType
  BY DEF SplitInv, Splits!Over, Splits!NotStarted, CallType
<1> QED BY <1>1 DEF Ready, Carrying

\* A call over, and the rest as it was.
LEMMA Finishes ==
  ASSUME SplitInv, NEW c \in Call, Splits!Finish(c), UNCHANGED held, Funded(plan', held),
         completed' => \A s \in Payer : held[s] # "none"
  PROVE  SplitInv'
<1>1. held' = held /\ held \in HoldType /\ Grows(held, held')
  BY Still DEF SplitInv
<1>2. Splits!Over \in CallType /\ Ready(Splits!Over, held')
  BY OverIsReady
<1> QED BY <1>1, <1>2, CallStep DEF Splits!Finish

\* A call opens with a plan of its own, or with a copy of the row.
LEMMA Opens ==
  ASSUME SplitInv, NEW c \in Call, NEW op, NEW at, NEW s \in Payer, NEW p, NEW paid,
         Splits!Open(c, op, at, s, p, paid), UNCHANGED <<plan, held, completed>>,
         op \in {"authorize", "cancel", "event"}, paid \in SUBSET Payer,
         \/ at = "gateway" /\ p = Splits!NotStarted.plan
         \/ at = "refund" /\ Funded(p, held)
  PROVE  SplitInv'
<1> DEFINE k == [op |-> op, at |-> at, share |-> s, plan |-> p, paid |-> paid, left |-> paid]
<1>1. p \in PlanType \cup {Splits!NotStarted.plan}
  BY DEF Funded
<1>2. k \in CallType
  BY <1>1 DEF CallType, Carrying
<1>3. Ready(k, held)
  BY DEF Ready, Carrying
<1>4. call' = [call EXCEPT ![c] = k] /\ held' = held /\ plan' = plan /\ completed' = completed
  BY DEF Splits!Open
<1> HIDE DEF k
<1>5. /\ held' \in HoldType /\ Grows(held, held') /\ Ready(k, held') /\ Funded(plan', held')
      /\ completed' => \A r \in Payer : held'[r] # "none"
  BY <1>3, <1>4, Still DEF SplitInv
<1> QED BY <1>2, <1>4, <1>5, CallStep

\* A call goes on to at with copy p.
LEMMA Steps ==
  ASSUME SplitInv, NEW c \in Call, NEW at, NEW p, Splits!Step(c, at, p),
         UNCHANGED <<plan, completed>>, held' \in HoldType, Grows(held, held'),
         p \in PlanType \cup {Splits!NotStarted.plan},
         \/ at = "read" /\ held'[call[c].share] # "none"
         \/ at = "read failed"
         \/ at \in Carrying /\ Funded(p, held')
  PROVE  SplitInv'
<1> DEFINE k == [call[c] EXCEPT !.at = at, !.plan = p]
<1>1. call[c] \in CallType /\ call \in [Call -> CallType]
  BY DEF SplitInv
<1>2. k \in CallType /\ k.at = at /\ k.plan = p /\ k.share = call[c].share
  BY <1>1 DEF CallType, Carrying
<1>3. call' = [call EXCEPT ![c] = k]
  BY <1>1 DEF Splits!Step
<1> HIDE DEF k
<1>4. Ready(k, held')
  BY <1>2 DEF Ready, Carrying
<1>5. Funded(plan, held')
  BY FundedStays DEF SplitInv
<1>6. completed => \A r \in Payer : held'[r] # "none"
  BY DEF SplitInv, Grows
<1> QED BY <1>2, <1>3, <1>4, <1>5, <1>6, CallStep

LEMMA AuthorizeAtGatewayKeeps ==
  ASSUME SplitInv, NEW c \in Call, Splits!AuthorizeAtGateway(c)
  PROVE  SplitInv'
<1> DEFINE s == call[c].share
<1>1. call[c] \in CallType /\ s \in Payer /\ held \in HoldType
  BY DEF SplitInv, CallType
<1>2. PICK placed \in BOOLEAN, ok \in BOOLEAN :
        /\ ok => placed
        /\ held' = IF placed /\ held[s] = "none" THEN [held EXCEPT ![s] = "held"] ELSE held
        /\ Splits!Step(c, IF ok THEN "read" ELSE "read failed", call[c].plan)
  BY DEF Splits!AuthorizeAtGateway
<1>3. held' \in HoldType /\ Grows(held, held')
  BY <1>1, <1>2 DEF HoldType, Grows
<1>4. ok => held'[s] # "none"
  BY <1>1, <1>2 DEF HoldType
<1>5. call[c].plan \in PlanType \cup {Splits!NotStarted.plan}
  BY <1>1 DEF CallType
<1>6. UNCHANGED <<plan, completed>>
  BY DEF Splits!AuthorizeAtGateway
<1>7. CASE ok
  <2>1. Splits!Step(c, "read", call[c].plan)
    BY <1>2, <1>7
  <2> QED BY <2>1, <1>3, <1>4, <1>5, <1>6, <1>7, Steps
<1>8. CASE ~ok
  <2>1. Splits!Step(c, "read failed", call[c].plan)
    BY <1>2, <1>8
  <2> QED BY <2>1, <1>3, <1>5, <1>6, Steps
<1> QED BY <1>7, <1>8

LEMMA ReadShareKeeps ==
  ASSUME SplitInv, NEW c \in Call, Splits!ReadShare(c)
  PROVE  SplitInv'
<1> DEFINE s == call[c].share
           p == Splits!MarkCompleted(Splits!MarkShare(plan, s, "paid"))
<1>1. /\ call[c] \in CallType /\ s \in Payer /\ held \in HoldType
      /\ Funded(plan, held) /\ held[s] # "none"
  BY DEF SplitInv, CallType, Splits!ReadShare, Splits!At, Ready
<1>2. held' = held /\ UNCHANGED <<plan, completed>> /\ Grows(held, held')
  BY Still DEF Splits!ReadShare
<1>3. CASE Splits!Payable(plan, s)
  <2>1. Splits!Step(c, "commit", p)
    BY <1>3 DEF Splits!ReadShare
  <2>2. Funded(p, held)
    BY <1>1, <1>3, MarkedPaid
  <2> HIDE DEF p
  <2>3. p \in PlanType
    BY <2>2 DEF Funded
  <2> QED BY <1>1, <1>2, <2>1, <2>2, <2>3, Steps DEF Carrying
<1>4. CASE ~Splits!Payable(plan, s)
  <2>1. Splits!Finish(c)
    BY <1>4 DEF Splits!ReadShare
  <2> QED BY <1>1, <1>2, <2>1, Finishes DEF SplitInv
<1> QED BY <1>3, <1>4

LEMMA ReadFailureKeeps ==
  ASSUME SplitInv, NEW c \in Call, Splits!ReadFailure(c)
  PROVE  SplitInv'
<1> DEFINE s == call[c].share
           p == Splits!MarkShare(plan, s, "failed")
<1>1. /\ call[c] \in CallType /\ s \in Payer /\ held \in HoldType /\ Funded(plan, held)
  BY DEF SplitInv, CallType
<1>2. held' = held /\ UNCHANGED <<plan, completed>> /\ Grows(held, held')
  BY Still DEF Splits!ReadFailure
<1>3. CASE Splits!Payable(plan, s)
  <2>1. Splits!Step(c, "write failed", p)
    BY <1>3 DEF Splits!ReadFailure
  <2>2. Funded(p, held)
    BY <1>1, <1>3, MarkedFailed
  <2> HIDE DEF p
  <2>3. p \in PlanType
    BY <2>2 DEF Funded
  <2> QED BY <1>1, <1>2, <2>1, <2>2, <2>3, Steps DEF Carrying
<1>4. CASE ~Splits!Payable(plan, s)
  <2>1. Splits!Finish(c)
    BY <1>4 DEF Splits!ReadFailure
  <2> QED BY <1>1, <1>2, <2>1, Finishes DEF SplitInv
<1> QED BY <1>3, <1>4

LEMMA CommitShareKeeps ==
  ASSUME SplitInv, NEW c \in Call, Splits!CommitShare(c)
  PROVE  SplitInv'
<1>1. Funded(call[c].plan, held) /\ held' = held /\ plan' = call[c].plan /\ Splits!Finish(c)
  BY DEF SplitInv, Splits!CommitShare, Splits!At, Ready, Carrying
<1>2. ASSUME completed', NEW s \in Payer PROVE held[s] # "none"
  <2>1. CASE completed
    BY <2>1 DEF SplitInv
  <2>2. CASE call[c].plan.status = "completed"
    <3>1. \/ call[c].plan.share[s] = "paid" \/ call[c].plan.share[s] = "refunded"
      BY <1>1, <2>2 DEF Funded
    <3> QED BY <1>1, <3>1 DEF Funded
  <2> QED BY <1>2, <2>1, <2>2 DEF Splits!CommitShare
<1> QED BY <1>1, <1>2, Finishes

LEMMA WriteFailureKeeps ==
  ASSUME SplitInv, NEW c \in Call, Splits!WriteFailure(c)
  PROVE  SplitInv'
<1>1. Funded(call[c].plan, held) /\ held' = held /\ plan' = call[c].plan /\ Splits!Finish(c)
  BY DEF SplitInv, Splits!WriteFailure, Splits!At, Ready, Carrying
<1>2. completed' => \A s \in Payer : held[s] # "none"
  BY DEF SplitInv, Splits!WriteFailure
<1> QED BY <1>1, <1>2, Finishes

LEMMA WriteRefundsKeeps ==
  ASSUME SplitInv, NEW c \in Call, Splits!WriteRefunds(c)
  PROVE  SplitInv'
<1>1. Funded(call[c].plan, held) /\ held' = held /\ plan' = Splits!CancelPlan(call[c].plan) /\ Splits!Finish(c)
  BY DEF SplitInv, Splits!WriteRefunds, Ready, Carrying
<1>2. Funded(plan', held)
  BY <1>1, Cancelled
<1>3. completed' => \A s \in Payer : held[s] # "none"
  BY DEF SplitInv, Splits!WriteRefunds
<1> QED BY <1>1, <1>2, <1>3, Finishes

LEMMA RefundShareKeeps ==
  ASSUME SplitInv, NEW c \in Call, NEW s \in Payer, Splits!RefundShare(c, s)
  PROVE  SplitInv'
<1>1. PICK placed \in BOOLEAN, ok \in BOOLEAN :
        /\ ok => placed
        /\ placed => held[s] = "held"
        /\ held' = IF placed THEN [held EXCEPT ![s] = "released"] ELSE held
        /\ call' = [call EXCEPT ![c].left = @ \ {s}, ![c].plan = Splits!Refunded(ok, @, s)]
  BY DEF Splits!RefundShare
<1> DEFINE p == Splits!Refunded(ok, call[c].plan, s)
           k == [call[c] EXCEPT !.left = @ \ {s}, !.plan = p]
<1>2. /\ call \in [Call -> CallType] /\ call[c] \in CallType /\ held \in HoldType
      /\ call[c].at = "refund" /\ Funded(call[c].plan, held)
  BY DEF SplitInv, Splits!RefundShare, Ready, Carrying
<1>3. held' \in HoldType /\ Grows(held, held') /\ (ok => held'[s] = "released")
  BY <1>1, <1>2 DEF HoldType, Grows
<1>4. Funded(call[c].plan, held')
  BY <1>2, <1>3, FundedStays
<1>5. Funded(p, held')
  BY <1>3, <1>4, MarkedRefunded
<1>6. call' = [call EXCEPT ![c] = k]
  BY <1>1, <1>2
<1> HIDE DEF p
<1>7. p \in PlanType
  BY <1>5 DEF Funded
<1>8. k \in CallType /\ k.at = "refund" /\ k.plan = p
  BY <1>2, <1>7 DEF CallType
<1> HIDE DEF k
<1>9. Ready(k, held')
  BY <1>5, <1>8 DEF Ready
<1>10. Funded(plan', held')
  BY <1>3, FundedStays DEF SplitInv, Splits!RefundShare
<1>11. completed' => \A r \in Payer : held'[r] # "none"
  BY <1>3 DEF SplitInv, Splits!RefundShare, Grows
<1> QED BY <1>3, <1>6, <1>8, <1>9, <1>10, <1>11, CallStep

\* Every step keeps the invariant.
LEMMA SplitStep == SplitInv /\ [Splits!Next]_(Splits!splitVars) => SplitInv'
<1> SUFFICES ASSUME SplitInv, [Splits!Next]_(Splits!splitVars) PROVE SplitInv'
  OBVIOUS
<1>1. ASSUME NEW c \in Call, NEW s \in Payer, Splits!AuthorizeShare(c, s) PROVE SplitInv'
  <2>1. Splits!Open(c, "authorize", "gateway", s, Splits!NotStarted.plan, {})
        /\ UNCHANGED <<plan, held, completed>>
    BY <1>1 DEF Splits!AuthorizeShare
  <2> QED BY <2>1, Opens
<1>2. ASSUME NEW c \in Call, Splits!Cancel(c) PROVE SplitInv'
  <2>1. Splits!Open(c, "cancel", "refund", Organizer, Splits!CancelPlan(plan), Splits!PaidShares(plan))
        /\ UNCHANGED <<plan, held, completed>>
    BY <1>2 DEF Splits!Cancel
  <2>2. Organizer \in Payer /\ Funded(Splits!CancelPlan(plan), held) /\ Splits!PaidShares(plan) \in SUBSET Payer
    BY Cancelled DEF SplitInv, Splits!PaidShares
  <2> QED BY <2>1, <2>2, Opens
<1>3. ASSUME NEW c \in Call, Splits!Deliver(c) PROVE SplitInv'
  <2>1. Splits!Open(c, "event", "refund", Organizer, plan, Splits!PaidShares(plan))
        /\ UNCHANGED <<plan, held, completed>>
    BY <1>3 DEF Splits!Deliver
  <2>2. Organizer \in Payer /\ Funded(plan, held) /\ Splits!PaidShares(plan) \in SUBSET Payer
    BY DEF SplitInv, Splits!PaidShares
  <2> QED BY <2>1, <2>2, Opens
<1>4. ASSUME Splits!CancelBooking PROVE SplitInv'
  BY <1>4 DEF Splits!CancelBooking, SplitInv
<1>5. ASSUME UNCHANGED Splits!splitVars PROVE SplitInv'
  BY <1>5 DEF Splits!splitVars, SplitInv
<1> QED
  BY <1>1, <1>2, <1>3, <1>4, <1>5, AuthorizeAtGatewayKeeps, ReadShareKeeps, CommitShareKeeps,
     ReadFailureKeeps, WriteFailureKeeps, WriteRefundsKeeps, RefundShareKeeps
  DEF Splits!Next

-----------------------------------------------------------------------------
(* The theorems.                                                             *)

\* Whatever the row and the calls' copies say of a share was so at the gateway.
THEOREM SplitInvariant == Splits!Spec => []SplitInv
BY SplitInit, SplitStep, PTL DEF Splits!Spec

\* However many payers, retries and deliveries overtake each other, the event that
\* confirms the booking is recorded only once every share had a hold
\* (splitpayment/service.go:161-219).
THEOREM CompletionFunded == Splits!Spec => []Splits!CompletionIsFunded
<1>1. SplitInv => Splits!CompletionIsFunded
  BY DEF SplitInv, Splits!CompletionIsFunded
<1> QED BY <1>1, SplitInvariant, PTL

\* A share that is called refunded has its hold released, and one called paid had
\* one (splitpayment/service.go:313-333).
THEOREM RefundsReleased == Splits!Spec => []Splits!RefundedIsReleased
<1>1. SplitInv => Splits!RefundedIsReleased
  BY DEF SplitInv, Funded, Splits!RefundedIsReleased
<1> QED BY <1>1, SplitInvariant, PTL

-----------------------------------------------------------------------------
(* Idempotency keys: Keys. *)

KeysRow == [request : Body \cup {"none"}, status : Int]
KeysTask == [at : {"new", "look", "run", "store", "answered", "lost"}, key : Key \cup {"none"},
             request : Body \cup {"none"}, status : Int, replayed : BOOLEAN]

KeysType ==
  /\ stored \in [Key -> KeysRow]
  /\ task \in [Call -> KeysTask]
  /\ effect \in [Key -> [Body -> Nat]]
  /\ \A a \in Call : task[a].at # "new" => task[a].key \in Key /\ task[a].request \in Body
  /\ \A a \in Call : task[a].replayed => task[a].at = "answered"

\* An attempt whose handler took effect for q and that has not stored its answer.
Answering(k, q) ==
  \E a \in Call : /\ task[a].key = k /\ task[a].at = "store"
                  /\ task[a].status = 201 /\ task[a].request = q

\* While nothing excuses a key, its attempts are one after the other, the handler
\* runs only when nothing is stored, its effects are exactly those that the row or
\* the attempt about to write it stand for, and a replay is a copy of the row.
OneAtATime(k) ==
  /\ \A a, b \in Keys!InFlight(k) : a = b
  /\ \A a \in Keys!InFlight(k) : task[a].at \in {"run", "store"} => stored[k] = Keys!Nothing
  /\ \A a \in Keys!InFlight(k) : task[a].at = "store" => task[a].status \in {201, 422}

Recorded(k) == stored[k] # Keys!Nothing => stored[k].request \in Body /\ stored[k].status \in {201, 422}

EffectsAccounted(k) ==
  \A q \in Body : effect[k][q] =
    IF (stored[k].status = 201 /\ stored[k].request = q) \/ Answering(k, q) THEN 1 ELSE 0

ReplaysCopy(k) ==
  \A a \in Call : task[a].key = k /\ task[a].replayed =>
    stored[k] # Keys!Nothing /\ stored[k].request = task[a].request /\ stored[k].status = task[a].status

KeyInv(k) == OneAtATime(k) /\ Recorded(k) /\ EffectsAccounted(k) /\ ReplaysCopy(k)

KeysInv == KeysType /\ \A k \in Key : k \notin excused => KeyInv(k)

LEMMA KeysInit == Keys!Init => KeysInv
<1> SUFFICES ASSUME Keys!Init PROVE KeysInv
  OBVIOUS
<1>1. /\ \A k \in Key : stored[k] = [request |-> "none", status |-> 0]
      /\ \A a \in Call : task[a] = [at |-> "new", key |-> "none", request |-> "none",
                                    status |-> 0, replayed |-> FALSE]
      /\ \A k \in Key, q \in Body : effect[k][q] = 0
  BY DEF Keys!Init, Keys!Waiting, Keys!Nothing
<1>2. KeysType
  BY DEF Keys!Init, Keys!Waiting, Keys!Nothing, KeysType, KeysRow, KeysTask
<1>3. ASSUME NEW k \in Key PROVE KeyInv(k)
  BY <1>1 DEF KeyInv, OneAtATime, Recorded, EffectsAccounted, ReplaysCopy, Answering,
     Keys!InFlight, Keys!Nothing
<1> QED BY <1>2, <1>3 DEF KeysInv

\* What a step does to an attempt and to a key it is not about.
LEMMA KeysOther ==
  ASSUME KeysType, NEW k \in Key, KeyInv(k), NEW a \in Call, task[a].key # k, task'[a].key # k,
         \A b \in Call : b # a => task'[b] = task[b],
         stored'[k] = stored[k], effect'[k] = effect[k]
  PROVE KeyInv(k)'
<1>1. Keys!InFlight(k)' = Keys!InFlight(k) /\ \A b \in Keys!InFlight(k) : task'[b] = task[b]
  BY DEF Keys!InFlight
<1>2. \A q \in Body : Answering(k, q)' <=> Answering(k, q)
  BY DEF Answering
<1>3. OneAtATime(k)'
  BY <1>1 DEF KeyInv, OneAtATime, Keys!Nothing
<1>4. Recorded(k)'
  BY DEF KeyInv, Recorded, Keys!Nothing
<1>5. EffectsAccounted(k)'
  BY <1>2 DEF KeyInv, EffectsAccounted
<1>6. ReplaysCopy(k)'
  BY DEF KeyInv, ReplaysCopy, Keys!Nothing
<1> QED BY <1>3, <1>4, <1>5, <1>6 DEF KeyInv

LEMMA KeysSend ==
  ASSUME KeysInv, NEW a \in Call, NEW k \in Key, NEW q \in Body, Keys!Send(a, k, q)
  PROVE KeysInv'
<1>1. /\ task'[a].at = "look" /\ task'[a].key = k /\ task'[a].request = q
      /\ ~task'[a].replayed /\ task'[a] \in KeysTask
      /\ \A b \in Call : b # a => task'[b] = task[b]
      /\ task[a].key = "none" /\ task[a].at = "new" /\ ~task[a].replayed
      /\ stored' = stored /\ effect' = effect
  <2>1. task[a] = [at |-> "new", key |-> "none", request |-> "none", status |-> 0, replayed |-> FALSE]
    BY DEF Keys!Send, Keys!Waiting
  <2> DEFINE asked == [at |-> "look", key |-> k, request |-> q, status |-> 0, replayed |-> FALSE]
  <2>2. /\ asked.at = "look" /\ asked.key = k /\ asked.request = q /\ ~asked.replayed
        /\ asked \in KeysTask
    BY DEF KeysTask
  <2>3. task' = [task EXCEPT ![a] = asked] /\ stored' = stored /\ effect' = effect
    BY DEF Keys!Send
  <2> HIDE DEF asked
  <2>4. task'[a] = asked /\ \A b \in Call : b # a => task'[b] = task[b]
    BY <2>3 DEF KeysInv, KeysType
  <2> QED BY <2>1, <2>2, <2>3, <2>4
<1>2. KeysType'
  <2>1. task'[a] \in KeysTask
    BY <1>1
  <2>2. task' \in [Call -> KeysTask]
    BY <1>1, <2>1 DEF Keys!Send, KeysInv, KeysType
  <2> QED BY <1>1, <2>2 DEF KeysInv, KeysType
<1>3. ASSUME NEW j \in Key, j \notin excused' PROVE KeyInv(j)'
  <2>0. KeyInv(j)
    BY <1>3 DEF KeysInv, Keys!Send
  <2>1. CASE j # k
    <3>1. CASE j # "none"
      BY <1>1, <2>0, <2>1, <3>1, KeysOther DEF KeysInv
    <3>2. CASE j = "none"
      <4>1. Keys!InFlight(j)' = Keys!InFlight(j) /\ \A b \in Keys!InFlight(j) : task'[b] = task[b]
        BY <1>1, <2>1 DEF Keys!InFlight
      <4>2. \A p \in Body : Answering(j, p)' <=> Answering(j, p)
        BY <1>1, <2>1 DEF Answering
      <4>3. OneAtATime(j)' /\ Recorded(j)' /\ EffectsAccounted(j)'
        BY <1>1, <2>0, <4>1, <4>2 DEF KeyInv, OneAtATime, Recorded, EffectsAccounted, Keys!Nothing
      <4>4. ReplaysCopy(j)'
        BY <1>1, <2>0 DEF KeyInv, ReplaysCopy, Keys!Nothing
      <4> QED BY <4>3, <4>4 DEF KeyInv
    <3> QED BY <3>1, <3>2
  <2>2. CASE j = k
    <3>1. Keys!InFlight(k) = {}
      BY <1>3, <2>2 DEF Keys!Send
    <3>2. Keys!InFlight(k)' = {a}
      BY <1>1, <3>1 DEF Keys!InFlight
    <3>3. OneAtATime(k)'
      BY <1>1, <3>2 DEF OneAtATime
    <3>4. \A p \in Body : Answering(k, p)' <=> Answering(k, p)
      BY <1>1 DEF Answering
    <3>5. Recorded(k)' /\ EffectsAccounted(k)'
      BY <1>1, <2>0, <2>2, <3>4 DEF KeyInv, Recorded, EffectsAccounted, Keys!Nothing
    <3>6. ReplaysCopy(k)'
      BY <1>1, <2>0, <2>2 DEF KeyInv, ReplaysCopy, Keys!Nothing
    <3> QED BY <2>2, <3>3, <3>5, <3>6 DEF KeyInv
  <2> QED BY <2>1, <2>2
<1> QED BY <1>2, <1>3 DEF KeysInv

LEMMA KeysNumbers == 409 \in Int /\ \A ok \in {201, 422, 500} : ok \in Int
OBVIOUS

\* Setting fields of an attempt keeps its type and the other attempts.
KeysMoves(a, at, s, again) ==
  /\ task' \in [Call -> KeysTask]
  /\ task'[a].at = at /\ task'[a].status = s /\ task'[a].replayed = again
  /\ task'[a].key = task[a].key /\ task'[a].request = task[a].request
  /\ \A b \in Call : b # a => task'[b] = task[b]

KeysOf(v, r, at, s, again) ==
  \/ v = [r EXCEPT !.at = at] /\ s = r.status /\ again = r.replayed
  \/ v = [r EXCEPT !.at = at, !.status = s, !.replayed = again]

KeysMoved(v, r, at, s, again) ==
  /\ v \in KeysTask /\ v.at = at /\ v.status = s /\ v.replayed = again
  /\ v.key = r.key /\ v.request = r.request

LEMMA KeysRecord ==
  ASSUME NEW r \in KeysTask, NEW s \in Int, NEW again \in BOOLEAN,
         NEW at \in {"run", "store", "answered", "lost"},
         NEW v, KeysOf(v, r, at, s, again)
  PROVE  KeysMoved(v, r, at, s, again)
<1>1. v = [at |-> at, key |-> r.key, request |-> r.request, status |-> s, replayed |-> again]
  BY DEF KeysTask, KeysOf
<1>2. r.key \in Key \cup {"none"} /\ r.request \in Body \cup {"none"}
  BY DEF KeysTask
<1> QED BY ONLY <1>1, <1>2, s \in Int, again \in BOOLEAN, at \in {"run", "store", "answered", "lost"} DEF KeysTask, KeysMoved

LEMMA KeysSet ==
  ASSUME task \in [Call -> KeysTask], NEW a \in Call, NEW s \in Int, NEW again \in BOOLEAN,
         NEW at \in {"run", "store", "answered", "lost"},
         \/ task' = [task EXCEPT ![a].at = at] /\ s = task[a].status /\ again = task[a].replayed
         \/ task' = [task EXCEPT ![a].at = at, ![a].status = s, ![a].replayed = again]
  PROVE KeysMoves(a, at, s, again)
<1>1. PICK v : KeysOf(v, task[a], at, s, again)
  BY DEF KeysOf
<1>2. task[a] \in KeysTask
  OBVIOUS
<1>3. KeysMoved(v, task[a], at, s, again)
  BY <1>1, <1>2, KeysRecord
<1>4. task' = [task EXCEPT ![a] = v]
  <2>1. CASE task' = [task EXCEPT ![a].at = at] /\ s = task[a].status /\ again = task[a].replayed
    <3>1. v = [task[a] EXCEPT !.at = at]
      BY <1>1, <1>2, <2>1 DEF KeysTask, KeysOf
    <3> QED BY <2>1, <3>1
  <2>2. CASE task' = [task EXCEPT ![a].at = at, ![a].status = s, ![a].replayed = again]
    <3>1. v = [task[a] EXCEPT !.at = at, !.status = s, !.replayed = again]
      BY <1>1, <1>2, <2>2 DEF KeysTask, KeysOf
    <3> QED BY <2>2, <3>1
  <2> QED BY <2>1, <2>2
<1> QED BY ONLY <1>3, <1>4, task \in [Call -> KeysTask], a \in Call DEF KeysMoves, KeysMoved

LEMMA KeysGoes ==
  ASSUME task \in [Call -> KeysTask], NEW a \in Call, NEW at \in {"run", "store", "answered", "lost"},
         task' = [task EXCEPT ![a].at = at]
  PROVE KeysMoves(a, at, task[a].status, task[a].replayed)
<1>1. task[a].status \in Int /\ task[a].replayed \in BOOLEAN
  BY DEF KeysTask
<1>2. PICK s \in Int : s = task[a].status
  BY <1>1
<1>3. PICK again \in BOOLEAN : again = task[a].replayed
  BY <1>1, Zenon
<1>4. KeysMoves(a, at, s, again)
  BY <1>2, <1>3, KeysSet, Zenon
<1> QED BY <1>2, <1>3, <1>4, Zenon

\* An attempt in flight has its key and its request; a step that keeps them keeps the types.
LEMMA KeysTyped ==
  ASSUME KeysType, NEW a \in Call, task[a].at # "new", task' \in [Call -> KeysTask],
         task'[a].key = task[a].key, task'[a].request = task[a].request,
         task'[a].replayed => task'[a].at = "answered",
         \A b \in Call : b # a => task'[b] = task[b],
         stored' \in [Key -> KeysRow], effect' \in [Key -> [Body -> Nat]]
  PROVE KeysType'
BY DEF KeysType

LEMMA KeysLookUp ==
  ASSUME KeysInv, NEW a \in Call, NEW k \in Key, task[a].key = k, Keys!LookUp(a)
  PROVE KeysInv'
<1>0. /\ task[a].at = "look" /\ task[a] \in KeysTask /\ KeysType /\ ~task[a].replayed
      /\ stored' = stored /\ effect' = effect /\ excused \subseteq excused'
  BY DEF Keys!LookUp, KeysInv, KeysType
<1>1. /\ task' \in [Call -> KeysTask] /\ task'[a].key = k /\ task'[a].request = task[a].request
      /\ \A b \in Call : b # a => task'[b] = task[b]
      /\ \/ task'[a].at = "run" /\ ~task'[a].replayed /\ (stored[k] = Keys!Nothing \/ k \in excused')
         \/ task'[a].at = "answered" /\ (task'[a].replayed => /\ stored[k] # Keys!Nothing
                                                              /\ stored[k].request = task'[a].request
                                                              /\ stored[k].status = task'[a].status)
  <2>1. CASE task' = [task EXCEPT ![a].at = "run"] /\ (stored[k] = Keys!Nothing \/ k \in excused')
    <3>1. KeysMoves(a, "run", task[a].status, task[a].replayed)
      BY <1>0, <2>1, KeysGoes DEF KeysType
    <3> QED BY <1>0, <2>1, <3>1 DEF KeysMoves
  <2>2. CASE Keys!Answer(a, stored[k].status, TRUE) /\ Keys!SameRequest(stored[k], task[a].request)
             /\ stored[k] # Keys!Nothing
    <3>1. stored[k].status \in Int
      BY <1>0 DEF KeysType, KeysRow
    <3>2. KeysMoves(a, "answered", stored[k].status, TRUE)
      BY <1>0, <2>2, <3>1, KeysSet DEF KeysType, Keys!Answer
    <3> QED BY <1>0, <2>2, <3>2 DEF KeysMoves, Keys!SameRequest
  <2>3. CASE Keys!Answer(a, 409, FALSE)
    <3>1. 409 \in Int
      BY KeysNumbers
    <3>2. KeysMoves(a, "answered", 409, FALSE)
      BY <1>0, <2>3, <3>1, KeysSet DEF KeysType, Keys!Answer
    <3> QED BY <1>0, <3>2 DEF KeysMoves
  <2> QED BY <2>1, <2>2, <2>3 DEF Keys!LookUp, Keys!Step
<1>2. KeysType'
  BY <1>0, <1>1, KeysTyped DEF KeysType
<1>3. ASSUME NEW j \in Key, j \notin excused' PROVE KeyInv(j)'
  <2>0. KeyInv(j)
    BY <1>0, <1>3 DEF KeysInv
  <2>1. CASE j # k
    BY <1>0, <1>1, <2>0, <2>1, KeysOther
  <2>2. CASE j = k
    <3>1. a \in Keys!InFlight(j)
      BY <1>0, <2>2 DEF Keys!InFlight
    <3>2. \A b \in Keys!InFlight(j)' : b = a
      BY <1>0, <1>1, <2>0, <2>2, <3>1 DEF KeyInv, OneAtATime, Keys!InFlight
    <3>3. OneAtATime(j)'
      BY <1>0, <1>1, <1>3, <2>2, <3>2 DEF OneAtATime, Keys!InFlight, Keys!Nothing
    <3>4. \A p \in Body : Answering(j, p)' <=> Answering(j, p)
      BY <1>0, <1>1 DEF Answering
    <3>5. Recorded(j)' /\ EffectsAccounted(j)'
      BY <1>0, <2>0, <2>2, <3>4 DEF KeyInv, Recorded, EffectsAccounted, Keys!Nothing
    <3>6. ReplaysCopy(j)'
      BY <1>0, <1>1, <2>0, <2>2 DEF KeyInv, ReplaysCopy, Keys!Nothing
    <3> QED BY <3>3, <3>5, <3>6 DEF KeyInv
  <2> QED BY <2>1, <2>2
<1> QED BY <1>2, <1>3 DEF KeysInv

LEMMA KeysHandle ==
  ASSUME KeysInv, NEW a \in Call, NEW k \in Key, task[a].key = k, Keys!Handle(a)
  PROVE KeysInv'
<1> DEFINE q == task[a].request
<1>0. /\ task[a].at = "run" /\ task[a] \in KeysTask /\ KeysType /\ ~task[a].replayed /\ q \in Body
      /\ stored' = stored /\ excused \subseteq excused'
  BY DEF Keys!Handle, KeysInv, KeysType
<1>1. PICK ok \in {201, 422, 500}, done \in BOOLEAN :
        /\ (ok = 201 => done) /\ (ok = 422 => ~done)
        /\ IF ok = 500 THEN Keys!Fault /\ excused' = excused \cup {task[a].key}
           ELSE UNCHANGED <<faulted, excused>>
        /\ effect' = IF done THEN [effect EXCEPT ![task[a].key][task[a].request] = @ + 1] ELSE effect
        /\ task' = [task EXCEPT ![a].at = "store", ![a].status = ok]
  BY DEF Keys!Handle
<1>2. /\ task' \in [Call -> KeysTask] /\ task'[a].key = k /\ task'[a].request = q
      /\ task'[a].at = "store" /\ task'[a].status = ok /\ ~task'[a].replayed
      /\ \A b \in Call : b # a => task'[b] = task[b]
  <2> DEFINE f1 == [task EXCEPT ![a].at = "store"]
             f2 == [f1 EXCEPT ![a].status = ok]
  <2>1. ok \in Int /\ task \in [Call -> KeysTask]
    BY <1>0, KeysNumbers DEF KeysType
  <2>2. task' = f2
    BY <1>1
  <2>3. f1 \in [Call -> KeysTask] /\ f1[a].at = "store" /\ f1[a].key = k /\ f1[a].request = q /\ ~f1[a].replayed
    BY <1>0, <2>1 DEF KeysTask
  <2>4. \A b \in Call : b # a => f1[b] = task[b]
    BY <2>1
  <2> HIDE DEF f1
  <2>5. f2 \in [Call -> KeysTask]
    BY <2>1, <2>3 DEF KeysTask
  <2>6. f2[a].at = "store" /\ f2[a].key = k /\ f2[a].request = q /\ ~f2[a].replayed /\ f2[a].status = ok
    BY <2>1, <2>3 DEF KeysTask
  <2>7. \A b \in Call : b # a => f2[b] = task[b]
    BY <2>3, <2>4
  <2> HIDE DEF f2
  <2> QED BY <2>2, <2>5, <2>6, <2>7
<1>3. /\ effect' \in [Key -> [Body -> Nat]]
      /\ \A j \in Key : j # k => effect'[j] = effect[j]
      /\ \A p \in Body : effect'[k][p] = IF done /\ p = q THEN effect[k][p] + 1 ELSE effect[k][p]
  BY <1>0, <1>1 DEF KeysType
<1>4. KeysType'
  BY <1>0, <1>2, <1>3, KeysTyped DEF KeysType
<1>5. ASSUME NEW j \in Key, j \notin excused' PROVE KeyInv(j)'
  <2>0. KeyInv(j)
    BY <1>0, <1>5 DEF KeysInv
  <2>1. CASE j # k
    BY <1>0, <1>2, <1>3, <2>0, <2>1, KeysOther
  <2>2. CASE j = k
    <3>1. a \in Keys!InFlight(j) /\ stored[j] = Keys!Nothing
      BY <1>0, <2>0, <2>2 DEF Keys!InFlight, KeyInv, OneAtATime
    <3>2. \A b \in Keys!InFlight(j)' : b = a
      BY <1>0, <1>2, <2>0, <2>2, <3>1 DEF KeyInv, OneAtATime, Keys!InFlight
    <3>3. OneAtATime(j)'
      BY <1>0, <1>1, <1>2, <1>5, <2>2, <3>1, <3>2 DEF OneAtATime, Keys!InFlight, Keys!Nothing
    <3>4. \A p \in Body : ~Answering(j, p)
      BY <1>0, <2>0, <2>2, <3>1 DEF Answering, KeyInv, OneAtATime, Keys!InFlight
    <3>5. \A p \in Body : effect[j][p] = 0
      BY <2>0, <3>1, <3>4 DEF KeyInv, EffectsAccounted, Keys!Nothing
    <3>6. \A p \in Body : Answering(j, p)' <=> ok = 201 /\ p = q
      BY <1>0, <1>2, <2>2, <3>2 DEF Answering, Keys!InFlight
    <3>7. \A p \in Body : effect'[j][p] = IF ok = 201 /\ p = q THEN 1 ELSE 0
      BY <1>1, <1>3, <1>5, <2>2, <3>5
    <3>8. EffectsAccounted(j)'
      BY <1>0, <3>1, <3>6, <3>7 DEF EffectsAccounted, Keys!Nothing
    <3>9. Recorded(j)' /\ ReplaysCopy(j)'
      BY <1>0, <1>2, <2>0, <2>2 DEF KeyInv, Recorded, ReplaysCopy, Keys!Nothing
    <3> QED BY <3>3, <3>8, <3>9 DEF KeyInv
  <2> QED BY <2>1, <2>2
<1> QED BY <1>4, <1>5 DEF KeysInv

LEMMA KeysStore ==
  ASSUME KeysInv, NEW a \in Call, NEW k \in Key, task[a].key = k, Keys!Store(a)
  PROVE KeysInv'
<1> DEFINE q == task[a].request
           record == [request |-> q, status |-> task[a].status]
<1>0. /\ task[a].at = "store" /\ task[a] \in KeysTask /\ KeysType /\ ~task[a].replayed /\ q \in Body
      /\ effect' = effect /\ excused \subseteq excused' /\ task' = [task EXCEPT ![a].at = "answered"]
  BY DEF Keys!Store, Keys!Step, KeysInv, KeysType
<1>1. /\ task' \in [Call -> KeysTask] /\ task'[a].key = k /\ task'[a].request = q
      /\ task'[a].at = "answered" /\ ~task'[a].replayed
      /\ \A b \in Call : b # a => task'[b] = task[b]
  BY <1>0, KeysSet DEF KeysType, KeysTask
<1>2. record \in KeysRow /\ record.request = q /\ record.status = task[a].status
  BY <1>0 DEF KeysRow, KeysTask
<1>3. \/ k \in excused' /\ stored' = stored
      \/ task[a].status >= 500 /\ stored' = stored
      \/ stored[k] # Keys!Nothing /\ stored' = stored
      \/ stored[k] = Keys!Nothing /\ stored' = [stored EXCEPT ![k] = record]
  BY <1>0 DEF Keys!Store, Keys!Recorded, Keys!Put, KeysTask
<1> HIDE DEF record
<1>4. stored' \in [Key -> KeysRow] /\ \A j \in Key : j # k => stored'[j] = stored[j]
  BY <1>0, <1>2, <1>3 DEF KeysType
<1>5. KeysType'
  BY <1>0, <1>1, <1>4, KeysTyped DEF KeysType
<1>6. ASSUME NEW j \in Key, j \notin excused' PROVE KeyInv(j)'
  <2>0. KeyInv(j)
    BY <1>0, <1>6 DEF KeysInv
  <2>1. CASE j # k
    BY <1>0, <1>1, <1>4, <2>0, <2>1, KeysOther
  <2>2. CASE j = k
    <3>1. a \in Keys!InFlight(j) /\ stored[j] = Keys!Nothing /\ task[a].status \in {201, 422}
      BY <1>0, <2>0, <2>2 DEF Keys!InFlight, KeyInv, OneAtATime
    <3>2. Keys!InFlight(j)' = {}
      BY <1>0, <1>1, <2>0, <2>2, <3>1 DEF KeyInv, OneAtATime, Keys!InFlight
    <3>3. stored'[j] = record
      BY <1>0, <1>3, <1>6, <2>2, <3>1 DEF KeysType
    <3>4. OneAtATime(j)' /\ Recorded(j)'
      BY <1>0, <1>2, <3>1, <3>2, <3>3 DEF OneAtATime, Recorded
    <3>5. \A p \in Body : ~Answering(j, p)'
      BY <1>1, <3>2 DEF Answering, Keys!InFlight
    <3>6. \A p \in Body : Answering(j, p) <=> task[a].status = 201 /\ p = q
      BY <1>0, <2>0, <2>2, <3>1 DEF Answering, Keys!InFlight, KeyInv, OneAtATime
    <3>7. EffectsAccounted(j)'
      BY <1>0, <1>2, <2>0, <3>1, <3>3, <3>5, <3>6 DEF KeyInv, EffectsAccounted, Keys!Nothing
    <3>8. ReplaysCopy(j)'
      BY <1>1, <2>0, <2>2, <3>1 DEF KeyInv, ReplaysCopy
    <3> QED BY <3>4, <3>7, <3>8 DEF KeyInv
  <2> QED BY <2>1, <2>2
<1> QED BY <1>5, <1>6 DEF KeysInv

LEMMA KeysStep ==
  ASSUME KeysInv, [Keys!Next]_(Keys!idempotencyVars)
  PROVE KeysInv'
<1>1. ASSUME NEW a \in Call, NEW k \in Key, NEW q \in Body, Keys!Send(a, k, q) PROVE KeysInv'
  BY <1>1, KeysSend
<1>2. ASSUME NEW a \in Call, task[a].at # "new" PROVE \E k \in Key : task[a].key = k
  BY <1>2 DEF KeysInv, KeysType
<1>3. ASSUME NEW a \in Call, Keys!LookUp(a) PROVE KeysInv'
  <2>1. task[a].at # "new"
    BY <1>3 DEF Keys!LookUp
  <2> QED BY <1>2, <1>3, <2>1, KeysLookUp
<1>4. ASSUME NEW a \in Call, Keys!Handle(a) PROVE KeysInv'
  <2>1. task[a].at # "new"
    BY <1>4 DEF Keys!Handle
  <2> QED BY <1>2, <1>4, <2>1, KeysHandle
<1>5. ASSUME NEW a \in Call, Keys!Store(a) PROVE KeysInv'
  <2>1. task[a].at # "new"
    BY <1>5 DEF Keys!Store
  <2> QED BY <1>2, <1>5, <2>1, KeysStore
<1>6. ASSUME NEW a \in Call, Keys!Crash(a) PROVE KeysInv'
  <2>0. /\ task[a] \in KeysTask /\ KeysType /\ ~task[a].replayed /\ task[a].at # "new"
        /\ task' = [task EXCEPT ![a].at = "lost"] /\ excused' = excused \cup {task[a].key}
        /\ stored' = stored /\ effect' = effect
    BY <1>6 DEF Keys!Crash, KeysInv, KeysType
  <2>1. /\ task' \in [Call -> KeysTask] /\ task'[a].key = task[a].key
        /\ task'[a].request = task[a].request /\ ~task'[a].replayed
        /\ \A b \in Call : b # a => task'[b] = task[b]
    <3>1. KeysMoves(a, "lost", task[a].status, task[a].replayed)
      BY <2>0, KeysGoes DEF KeysType
    <3> QED BY <2>0, <3>1 DEF KeysMoves
  <2>2. KeysType'
    BY <2>0, <2>1, KeysTyped DEF KeysType
  <2>3. ASSUME NEW j \in Key, j \notin excused' PROVE KeyInv(j)'
    BY <2>0, <2>1, <2>3, KeysOther DEF KeysInv
  <2> QED BY <2>2, <2>3 DEF KeysInv
<1>7. ASSUME NEW k \in Key, Keys!Cleanup(k) PROVE KeysInv'
  <2>0. /\ stored' = [stored EXCEPT ![k] = Keys!Nothing] /\ excused' = excused \cup {k}
        /\ task' = task /\ effect' = effect
    BY <1>7 DEF Keys!Cleanup
  <2>1. Keys!Nothing \in KeysRow
    BY DEF Keys!Nothing, KeysRow
  <2>2. KeysType'
    BY <2>0, <2>1 DEF KeysInv, KeysType
  <2>3. ASSUME NEW j \in Key, j \notin excused' PROVE KeyInv(j)'
    <3>1. KeyInv(j) /\ stored'[j] = stored[j]
      BY <2>0, <2>3 DEF KeysInv, KeysType
    <3> QED BY <2>0, <3>1 DEF KeyInv, OneAtATime, Recorded, EffectsAccounted, ReplaysCopy, Answering,
               Keys!InFlight, Keys!Nothing
  <2> QED BY <2>2, <2>3 DEF KeysInv
<1>8. CASE UNCHANGED Keys!idempotencyVars
  BY <1>8 DEF Keys!idempotencyVars, KeysInv, KeysType, KeyInv, OneAtATime, Recorded, EffectsAccounted,
     ReplaysCopy, Answering, Keys!InFlight, Keys!Nothing
<1> QED BY <1>1, <1>3, <1>4, <1>5, <1>6, <1>7, <1>8 DEF Keys!Next

LEMMA KeysMeans == KeysInv => Keys!ActedOncePerKey
<1> SUFFICES ASSUME KeysInv PROVE Keys!ActedOncePerKey
  OBVIOUS
<1> SUFFICES ASSUME NEW k \in Key, k \notin excused
             PROVE /\ \A q, p \in Body : effect[k][q] > 0 /\ effect[k][p] > 0 => p = q
                   /\ \A q \in Body : effect[k][q] <= 1
                   /\ \A a \in Call : task[a].key = k /\ task[a].replayed =>
                        (task[a].status = 201 <=> effect[k][task[a].request] > 0)
  BY DEF Keys!ActedOncePerKey
<1>1. KeyInv(k) /\ KeysType
  BY DEF KeysInv
<1>2. \A q, p \in Body : effect[k][q] > 0 /\ effect[k][p] > 0 => p = q
  BY <1>1 DEF KeyInv, OneAtATime, EffectsAccounted, Answering, Keys!InFlight, Keys!Nothing
<1>4. \A q \in Body : effect[k][q] <= 1
  BY <1>1 DEF KeyInv, EffectsAccounted
<1>5. ASSUME NEW a \in Call, task[a].key = k, task[a].replayed
      PROVE task[a].status = 201 <=> effect[k][task[a].request] > 0
  <2>1. stored[k] # Keys!Nothing /\ stored[k].request = task[a].request /\ stored[k].status = task[a].status
    BY <1>1, <1>5 DEF KeyInv, ReplaysCopy
  <2>2. task[a].request \in Body
    BY <1>1, <1>5 DEF KeysType
  <2>3. \A q \in Body : ~Answering(k, q)
    BY <1>1, <2>1 DEF KeyInv, OneAtATime, Answering, Keys!InFlight
  <2> QED BY <1>1, <2>1, <2>2, <2>3 DEF KeyInv, EffectsAccounted
<1> QED BY <1>2, <1>4, <1>5

-----------------------------------------------------------------------------
(* Offers: Offer. *)

\* The other guest is not one of the calls.
OffersAssumption == Rival \notin Call

OfferDone == {"accepted", "declined", "withdrawn", "expired"}
OfferCall == [op : {"new", "accept", "turn down", "over"},
              at : {"new", "book", "confirm", "write", "tell", "over"}, copy : OfferDone \cup {"none"}]

OfferType ==
  /\ offer \in OfferDone \cup {"none", "pending"}
  /\ call \in [Call -> OfferCall]
  /\ stay \in [Offer!Stays -> {"none", "pending", "confirmed", "cancelled"}]

\* How far an acceptance has come says whether its stay exists, and a copy that is
\* written as accepted has had its stay confirmed.
OfferCallInv(c) ==
  /\ call[c].at \in {"new", "book"} => stay[c] = "none"
  /\ call[c].at \in {"book", "confirm"} => call[c].copy = "accepted"
  /\ call[c].copy = "accepted" => call[c].op = "accept"
  /\ call[c].at = "write" => call[c].copy \in OfferDone
  /\ call[c].at = "write" /\ call[c].copy = "accepted" => everBooked
  /\ call[c].at = "write" /\ call[c].copy # "accepted" => stay[c] = "none"
  /\ call[c].at = "tell" => stay[c] = "none"

\* A stay that was made from the offer has its call under way, or the call is known
\* to have failed, or the offer was answered.
OfferInv ==
  /\ OfferType
  /\ \A c \in Call : OfferCallInv(c)
  /\ \A b, d \in Offer!Holding : b = d
  /\ offer = "accepted" => everBooked
  /\ everBooked => \E c \in Call : stay[c] # "none"
  /\ \A c \in Call : stay[c] # "none" =>
       call[c].at \in {"confirm", "write"} \/ c \in ended \/ offer \in OfferDone

LEMMA OfferInit == Offer!Init => OfferInv
BY DEF Offer!Init, OfferInv, OfferType, OfferCall, OfferCallInv, OfferDone, Offer!Stays, Offer!Fresh,
   Offer!Holding

\* What a call does next keeps the type of the calls and the other calls.
LEMMA OfferGoto ==
  ASSUME call \in [Call -> OfferCall], NEW c \in Call,
         NEW at \in {"new", "book", "confirm", "write", "tell", "over"},
         call' = [call EXCEPT ![c].at = at]
  PROVE /\ call' \in [Call -> OfferCall]
        /\ call'[c].at = at /\ call'[c].op = call[c].op /\ call'[c].copy = call[c].copy
        /\ \A d \in Call : d # c => call'[d] = call[d]
BY DEF OfferCall

LEMMA OfferEnd ==
  ASSUME call \in [Call -> OfferCall], NEW c \in Call, Offer!End(c)
  PROVE /\ call' \in [Call -> OfferCall]
        /\ call'[c].at = "over" /\ call'[c].copy = "none"
        /\ \A d \in Call : d # c => call'[d] = call[d]
BY DEF OfferCall, Offer!End, Offer!Over

LEMMA OfferStep ==
  ASSUME OffersAssumption, OfferInv, [Offer!Next]_(Offer!offerVars)
  PROVE OfferInv'
<1> USE DEF OffersAssumption, OfferInv, OfferType, OfferDone, OfferCallInv
<1>1. CASE Offer!Create
  BY <1>1 DEF Offer!Create, Offer!Holding, Offer!Stays
<1>2. CASE Offer!Expire
  BY <1>2 DEF Offer!Expire, Offer!Holding
<1>3. CASE Offer!RivalBooks
  BY <1>3 DEF Offer!RivalBooks, Offer!Reserve, Offer!Holding, Offer!Stays
<1>4. CASE Offer!Onboard
  BY <1>4 DEF Offer!Onboard, Offer!Holding
<1>5. ASSUME NEW b \in Offer!Stays, Offer!HostConfirms(b) PROVE OfferInv'
  <2>1. /\ stay[b] = "pending" /\ stay'[b] = "confirmed"
        /\ \A d \in Offer!Stays : d # b => stay'[d] = stay[d]
        /\ everBooked' = (everBooked \/ b # Rival) /\ UNCHANGED <<offer, call, ended>>
    BY <1>5 DEF Offer!HostConfirms, Offer!Confirmable
  <2>2. OfferType'
    BY <1>5, <2>1 DEF Offer!HostConfirms
  <2>3. Offer!Holding' = Offer!Holding
    BY <2>1 DEF Offer!Holding
  <2>4. everBooked' => \E c \in Call : stay'[c] # "none"
    BY <2>1 DEF Offer!Stays
  <2>5. \A c \in Call : c \in Offer!Stays /\ (stay'[c] = "none" <=> stay[c] = "none")
    BY <2>1 DEF Offer!Stays
  <2>6. everBooked => everBooked'
    BY <2>1
  <2> QED BY <2>1, <2>2, <2>3, <2>4, <2>5, <2>6
<1>6. ASSUME NEW b \in Offer!Stays, Offer!CancelStay(b) PROVE OfferInv'
  BY <1>6 DEF Offer!CancelStay, Offer!Holding, Offer!Stays
<1>7. ASSUME NEW c \in Call, Offer!Accept(c) PROVE OfferInv'
  <2> DEFINE next == [op |-> "accept", at |-> IF late THEN "write" ELSE "book", copy |-> Offer!Accepted]
  <2>1. /\ next \in OfferCall /\ next.op = "accept"
        /\ \/ next.at = "write" /\ next.copy = "expired"
           \/ next.at = "book" /\ next.copy = "accepted"
    BY DEF OfferCall, Offer!Accepted
  <2>2. call[c].at = "new" /\ call' = [call EXCEPT ![c] = next]
    BY <1>7 DEF Offer!Accept, Offer!Fresh
  <2> HIDE DEF next
  <2>3. /\ call' \in [Call -> OfferCall] /\ call'[c] = next
        /\ \A d \in Call : d # c => call'[d] = call[d]
    BY <2>1, <2>2
  <2> QED BY <1>7, <2>1, <2>2, <2>3 DEF Offer!Accept, Offer!Holding
<1>8. ASSUME NEW c \in Call, Offer!CreateBooking(c) PROVE OfferInv'
  BY <1>8, OfferGoto, OfferEnd DEF Offer!CreateBooking, Offer!Reserve, Offer!Goto, Offer!At,
     Offer!AfterCreate, Offer!Holding, Offer!Stays
<1>9. ASSUME NEW c \in Call, Offer!ConfirmBooking(c) PROVE OfferInv'
  BY <1>9, OfferGoto, OfferEnd DEF Offer!ConfirmBooking, Offer!Confirmable, Offer!Goto, Offer!At,
     Offer!AfterConfirm, Offer!Holding, Offer!Stays
<1>10. ASSUME NEW c \in Call, NEW status \in {"declined", "withdrawn"}, Offer!TurnDown(c, status)
       PROVE OfferInv'
  <2> DEFINE next == [op |-> "turn down", at |-> "write", copy |-> status]
  <2>1. next \in OfferCall /\ next.at = "write" /\ next.op = "turn down" /\ next.copy = status
    BY DEF OfferCall
  <2>2. call[c] = Offer!Fresh /\ UNCHANGED <<offer, stay, everBooked, ended>> /\ call' = [call EXCEPT ![c] = next]
    BY <1>10, Zenon DEF Offer!TurnDown
  <2> HIDE DEF next
  <2>3. call[c].at = "new"
    BY <2>2 DEF Offer!Fresh
  <2>4. /\ call' \in [Call -> OfferCall] /\ call'[c] = next
        /\ \A d \in Call : d # c => call'[d] = call[d]
    BY <2>1, <2>2
  <2>5. OfferCallInv(c)' /\ OfferType' /\ Offer!Holding' = Offer!Holding
    BY <2>1, <2>2, <2>3, <2>4 DEF Offer!Holding
  <2>6. ASSUME NEW d \in Call, d # c PROVE OfferCallInv(d)'
    BY <2>2, <2>4, <2>6
  <2>7. call[c].at \notin {"confirm", "write"}
    BY <2>3
  <2> QED BY <2>2, <2>4, <2>5, <2>6, <2>7
<1>11. ASSUME NEW c \in Call, Offer!Update(c) PROVE OfferInv'
  <2>1. /\ call' \in [Call -> OfferCall] 
        /\ call[c].at = "write"
        /\ \/ call'[c].at = "over" /\ call'[c].copy = "none"
           \/ call'[c].at = "tell" /\ call'[c].op # "accept" /\ call[c].copy # "accepted"
              /\ call'[c].copy # "accepted"
        /\ \A d \in Call : d # c => call'[d] = call[d]
        /\ UNCHANGED <<stay, everBooked>>
        /\ \/ offer' = call[c].copy /\ ended' = ended
           \/ /\ call'[c].at = "over" /\ offer' = offer
              /\ ended' = IF call[c].copy = "accepted" THEN ended \cup {c} ELSE ended
    BY <1>11, OfferGoto, OfferEnd DEF Offer!Update, Offer!Goto, Offer!At
  <2>2. call[c].copy \in OfferDone /\ offer' \in {offer, call[c].copy}
    BY <2>1
  <2>3. OfferType'
    BY <2>1, <2>2
  <2>4. OfferCallInv(c)' /\ Offer!Holding' = Offer!Holding
    BY <2>1 DEF Offer!Holding
  <2>7. ASSUME NEW d \in Call, d # c PROVE OfferCallInv(d)'
    BY <2>1, <2>7
  <2>5. offer' = "accepted" => everBooked
    BY <2>1, <2>2
  <2>6. ASSUME NEW d \in Call, stay[d] # "none"
        PROVE call'[d].at \in {"confirm", "write"} \/ d \in ended' \/ offer' \in OfferDone
    BY <2>1, <2>2, <2>6
  <2> QED BY <2>1, <2>3, <2>4, <2>5, <2>6, <2>7
<1>12. ASSUME NEW c \in Call, Offer!AppendEvent(c) PROVE OfferInv'
  BY <1>12, OfferEnd DEF Offer!AppendEvent, Offer!At, Offer!Holding
<1>13. ASSUME NEW c \in Call, Offer!Crash(c) PROVE OfferInv'
  <2>1. /\ call' \in [Call -> OfferCall] /\ call'[c].at = "over" /\ call'[c].copy = "none"
        /\ \A d \in Call : d # c => call'[d] = call[d]
        /\ UNCHANGED <<offer, stay, everBooked>>
        /\ ended' = IF stay[c] # "none" THEN ended \cup {c} ELSE ended
    BY <1>13, OfferEnd DEF Offer!Crash
  <2> QED BY <2>1 DEF Offer!Holding
<1>14. CASE UNCHANGED Offer!offerVars
  BY <1>14 DEF Offer!offerVars, Offer!Holding
<1> QED BY <1>1, <1>2, <1>3, <1>4, <1>5, <1>6, <1>7, <1>8, <1>9, <1>10, <1>11, <1>12, <1>13, <1>14
        DEF Offer!Next, Offer!Decline, Offer!Withdraw

LEMMA OfferMeans == OfferInv => Offer!OffersAreExplained
BY DEF OfferInv, OfferDone, Offer!OffersAreExplained, Offer!AcceptedIsBooked, Offer!StayIsExplained

-----------------------------------------------------------------------------
(* Experiences: Sessions. *)

\* Sessions start and last a number of time units.
SessionsAssumption == StartTimes \subseteq Int /\ Durations \subseteq Int

SessionListing == [status : {"draft", "published", "suspended", "deleted"}, described : BOOLEAN,
                   photos : Int, length : Int]
SessionRow == [status : {"none", "pending", "confirmed", "cancelled", "completed"},
               start : Int, length : Int]

SessionsType ==
  /\ listing \in SessionListing
  /\ \A e \in Editor : edit[e].copy \in SessionListing
  /\ edit \in [Editor -> [op : {"new", "write", "delete", "over"}, copy : SessionListing]]
  /\ row \in [Call -> SessionRow] /\ clock \in Int
  /\ call = [c \in Call |-> call[c]]
  /\ told \in [Call -> SUBSET {"created", "confirmed", "cancelled"}]
  /\ raced \subseteq Call /\ revived \subseteq Call

\* A copy has the session of the row it is written over, and is confirmed or completed
\* only with the event on record or on the way.
CopyOf(r, current, events, coming, now) ==
  /\ r \in SessionRow /\ r.status \in {"confirmed", "cancelled", "completed"}
  /\ current # Sessions!NoRow => r.start = current.start /\ r.length = current.length
  /\ r.status = "confirmed" => "confirmed" \in events \cup coming
  /\ r.status = "completed" => "confirmed" \in events /\ now >= Sessions!EndAt(r)

Booked(b) == b \in Call /\ call[b].op = "over"

SessionCall(c) ==
  \/ call[c] = Sessions!Idle /\ row[c] = Sessions!NoRow
  \/ call[c].op = "over" /\ call[c].at = "over"
  \/ /\ call[c].op = "create" /\ call[c].at \in {"look", "insert"} /\ row[c] = Sessions!NoRow
     /\ call[c].copy \in SessionRow /\ call[c].copy.status = "pending"
  \/ /\ call[c].op \in {"confirm", "cancel", "complete"} /\ call[c].at = "write"
     /\ row[c] = Sessions!NoRow /\ call[c].left \subseteq {"confirmed", "cancelled"}
     /\ Booked(call[c].id)
     /\ CopyOf(call[c].copy, row[call[c].id], told[call[c].id], call[c].left, clock)
  \/ /\ call[c].op = "sweep" /\ call[c].at = "sweep" /\ row[c] = Sessions!NoRow
     /\ \A item \in call[c].left :
          /\ item.copy.status = "completed" /\ Booked(item.id)
          /\ CopyOf(item.copy, row[item.id], told[item.id], {}, clock)

SameSession(r, s) == r.start < Sessions!EndAt(s) /\ s.start < Sessions!EndAt(r)
Inserting(c) == call[c].op = "create" /\ call[c].at = "insert"

\* A call that found its session free still finds it so, but for the bookings of calls
\* that ran beside it and those a stale copy brought back.
FoundFree(c) ==
  Inserting(c) =>
    /\ \A b \in Call : Sessions!Holds(row[b]) /\ SameSession(row[b], call[c].copy) =>
         {b, c} \subseteq raced \/ b \in revived
    /\ \A d \in Call : Inserting(d) /\ d # c => {c, d} \subseteq raced

SessionsNone == \A b \in Call : row[b].status = "none" => row[b] = Sessions!NoRow

SessionsInv ==
  /\ SessionsType
  /\ \A c \in Call : SessionCall(c) /\ FoundFree(c)
  /\ \A b \in Call : row[b].status \in {"confirmed", "completed"} => "confirmed" \in told[b]
  /\ \A b \in Call : row[b].status = "completed" => clock >= Sessions!EndAt(row[b])
  /\ SessionsNone
  /\ Sessions!DoubleSaleNeedsARace

LEMMA SessionDoing ==
  ASSUME NEW o, NEW a, NEW i, NEW r, NEW l
  PROVE /\ Sessions!Doing(o, a, i, r, l).op = o /\ Sessions!Doing(o, a, i, r, l).at = a
        /\ Sessions!Doing(o, a, i, r, l).id = i /\ Sessions!Doing(o, a, i, r, l).copy = r
        /\ Sessions!Doing(o, a, i, r, l).left = l
BY DEF Sessions!Doing

LEMMA SessionIdle ==
  /\ Sessions!Idle.op = "new" /\ Sessions!Idle.at = "new"
  /\ Sessions!Over.op = "over" /\ Sessions!Over.at = "over"
  /\ Sessions!NoRow \in SessionRow /\ Sessions!NoRow.status = "none"
BY SessionDoing DEF Sessions!Idle, Sessions!Over, Sessions!NoRow, SessionRow

LEMMA SessionsInit == SessionsAssumption /\ Sessions!Init => SessionsInv
<1> SUFFICES ASSUME SessionsAssumption, Sessions!Init PROVE SessionsInv
  OBVIOUS
<1>1. Sessions!NoRow \in SessionRow /\ Sessions!NoRow.status = "none"
  BY DEF Sessions!NoRow, SessionRow
<1>2. Sessions!Gone \in SessionListing
  BY DEF Sessions!Gone, SessionListing
<1>3. SessionsType
  <2>1. listing \in SessionListing
    BY DEF Sessions!Init, SessionListing, SessionsAssumption
  <2>2. /\ \A e \in Editor : edit[e].copy \in SessionListing
        /\ edit \in [Editor -> [op : {"new", "write", "delete", "over"}, copy : SessionListing]]
    BY <1>2 DEF Sessions!Init
  <2>3. /\ row \in [Call -> SessionRow] /\ clock \in Int
        /\ told \in [Call -> SUBSET {"created", "confirmed", "cancelled"}]
        /\ raced \subseteq Call /\ revived \subseteq Call
    BY <1>1 DEF Sessions!Init
  <2>4. call = [c \in Call |-> call[c]]
    BY DEF Sessions!Init
  <2> QED BY <2>1, <2>2, <2>3, <2>4 DEF SessionsType
<1>4. \A c \in Call : call[c] = Sessions!Idle /\ row[c] = Sessions!NoRow
  BY DEF Sessions!Init
<1>5. \A c \in Call : ~Inserting(c) /\ ~Sessions!Holds(row[c])
  BY <1>1, <1>4, SessionIdle DEF Inserting, Sessions!Holds
<1> QED BY <1>1, <1>3, <1>4, <1>5 DEF SessionsInv, SessionsNone, SessionCall, FoundFree,
        Sessions!DoubleSaleNeedsARace

\* What keeps a copy good: its row keeps its session or goes, events and time only grow.
LEMMA CopyStays ==
  ASSUME NEW r, NEW current, NEW next, NEW events, NEW more, NEW coming, NEW now \in Int, NEW then \in Int,
         CopyOf(r, current, events, coming, now), events \subseteq more, now <= then,
         next # Sessions!NoRow =>
           current # Sessions!NoRow /\ next.start = current.start /\ next.length = current.length
  PROVE CopyOf(r, next, more, coming, then)
BY DEF CopyOf, SessionRow, Sessions!EndAt

\* A call that a step is not about.
LEMMA SessionsOther ==
  ASSUME NEW c \in Call, SessionCall(c), call'[c] = call[c],
         clock \in Int, clock' \in Int, clock <= clock',
         row[c] = Sessions!NoRow => row'[c] = Sessions!NoRow,
         \A b \in Call : told[b] \subseteq told'[b],
         \A b \in Call : call[b].op = "over" =>
           /\ call'[b].op = "over"
           /\ row'[b] # Sessions!NoRow =>
                row[b] # Sessions!NoRow /\ row'[b].start = row[b].start /\ row'[b].length = row[b].length
  PROVE SessionCall(c)'
<1>1. CASE call[c] = Sessions!Idle /\ row[c] = Sessions!NoRow
  BY <1>1 DEF SessionCall, Sessions!Idle, Sessions!NoRow, Sessions!Doing
<1>2. CASE call[c].op = "over" /\ call[c].at = "over"
  BY <1>2 DEF SessionCall
<1>3. CASE /\ call[c].op = "create" /\ call[c].at \in {"look", "insert"} /\ row[c] = Sessions!NoRow
           /\ call[c].copy \in SessionRow /\ call[c].copy.status = "pending"
  BY <1>3 DEF SessionCall, Sessions!NoRow
<1>4. CASE /\ call[c].op \in {"confirm", "cancel", "complete"} /\ call[c].at = "write"
           /\ row[c] = Sessions!NoRow /\ call[c].left \subseteq {"confirmed", "cancelled"}
           /\ Booked(call[c].id)
           /\ CopyOf(call[c].copy, row[call[c].id], told[call[c].id], call[c].left, clock)
  <2>1. Booked(call[c].id)'
    BY <1>4 DEF Booked
  <2>2. CopyOf(call[c].copy, row'[call[c].id], told'[call[c].id], call[c].left, clock')
    BY <1>4, CopyStays DEF Booked
  <2> QED BY <1>4, <2>1, <2>2 DEF SessionCall, Sessions!NoRow
<1>5. CASE /\ call[c].op = "sweep" /\ call[c].at = "sweep" /\ row[c] = Sessions!NoRow
           /\ \A item \in call[c].left :
                /\ item.copy.status = "completed" /\ Booked(item.id)
                /\ CopyOf(item.copy, row[item.id], told[item.id], {}, clock)
  <2>1. ASSUME NEW item \in call[c].left
        PROVE /\ item.copy.status = "completed" /\ Booked(item.id)'
              /\ CopyOf(item.copy, row'[item.id], told'[item.id], {}, clock')
    <3>1. Booked(item.id)'
      BY <1>5, <2>1 DEF Booked
    <3>2. CopyOf(item.copy, row'[item.id], told'[item.id], {}, clock')
      BY <1>5, <2>1, CopyStays DEF Booked
    <3> QED BY <1>5, <2>1, <3>1, <3>2
  <2> QED BY <1>5, <2>1 DEF SessionCall, Sessions!NoRow
<1> QED BY <1>1, <1>2, <1>3, <1>4, <1>5 DEF SessionCall

\* A step that brings no booking to life but a revived one, and no call to its insert.
LEMMA SessionsKept ==
  ASSUME SessionsInv, raced \subseteq raced', revived \subseteq revived',
         \A b \in Call : Sessions!Holds(row'[b]) =>
           \/ Sessions!Holds(row[b]) /\ row'[b].start = row[b].start /\ row'[b].length = row[b].length
           \/ b \in revived',
         \A c \in Call : Inserting(c)' => Inserting(c) /\ call'[c].copy = call[c].copy
  PROVE (\A c \in Call : FoundFree(c)') /\ Sessions!DoubleSaleNeedsARace'
<1>1. ASSUME NEW c \in Call PROVE FoundFree(c)'
  <2> SUFFICES ASSUME Inserting(c)' PROVE FoundFree(c)'
    BY DEF FoundFree
  <2>1. FoundFree(c) /\ Inserting(c) /\ call'[c].copy = call[c].copy
    BY DEF SessionsInv
  <2>2. ASSUME NEW b \in Call, Sessions!Holds(row'[b]), SameSession(row'[b], call'[c].copy), b \notin revived'
        PROVE {b, c} \subseteq raced'
    BY <2>1, <2>2 DEF FoundFree, SameSession, Sessions!EndAt
  <2>3. ASSUME NEW d \in Call, Inserting(d)', d # c PROVE {c, d} \subseteq raced'
    BY <2>1, <2>3 DEF FoundFree
  <2> QED BY <2>2, <2>3 DEF FoundFree, SameSession, Sessions!EndAt, Sessions!Holds
<1>2. Sessions!DoubleSaleNeedsARace'
  BY DEF SessionsInv, Sessions!DoubleSaleNeedsARace, Sessions!EndAt, Sessions!Holds
<1> QED BY <1>1, <1>2

\* The steps of the host and of time.
LEMMA SessionsListing ==
  ASSUME SessionsAssumption, SessionsInv,
         \/ Sessions!Tick
         \/ \E e \in Editor :
              \/ Sessions!UpdateBasics(e) \/ Sessions!AddPhoto(e) \/ Sessions!Publish(e)
              \/ Sessions!Suspend(e) \/ Sessions!Delete(e)
              \/ Sessions!UpdateListing(e) \/ Sessions!DeleteListing(e)
  PROVE SessionsInv'
<1> USE DEF SessionsType
<1>0. Sessions!Gone \in SessionListing /\ SessionsType
  BY DEF Sessions!Gone, SessionListing, SessionsInv
<1>1. CASE Sessions!Tick
  <2>1. /\ UNCHANGED <<listing, edit, row, call, told, raced, revived>> /\ clock' = clock + 1
    BY <1>1 DEF Sessions!Tick
  <2>2. SessionsType' /\ clock <= clock'
    BY <1>0, <2>1
  <2>3. \A c \in Call : SessionCall(c)'
    BY <1>0, <2>1, <2>2, SessionsOther DEF SessionsInv
  <2>4. (\A c \in Call : FoundFree(c)') /\ Sessions!DoubleSaleNeedsARace'
    BY <2>1, SessionsKept DEF Inserting
  <2>5. \A b \in Call : row[b].status = "completed" => clock' >= Sessions!EndAt(row[b])
    BY <1>0, <2>1 DEF SessionsInv, Sessions!EndAt, SessionRow
  <2> QED BY <2>1, <2>2, <2>3, <2>4, <2>5 DEF SessionsInv, SessionsNone, Sessions!NoRow, Sessions!EndAt
<1>2. ASSUME UNCHANGED <<row, clock, call, told, raced, revived>>, SessionsType' PROVE SessionsInv'
  <2>1. \A c \in Call : SessionCall(c)'
    BY <1>0, <1>2, SessionsOther DEF SessionsInv
  <2>2. (\A c \in Call : FoundFree(c)') /\ Sessions!DoubleSaleNeedsARace'
    BY <1>2, SessionsKept DEF Inserting
  <2> QED BY <1>2, <2>1, <2>2 DEF SessionsInv, SessionsNone, Sessions!NoRow, Sessions!EndAt
<1>3. ASSUME NEW e \in Editor, NEW o \in {"write", "delete"}, NEW r \in SessionListing, Sessions!Edit(e, o, r)
      PROVE SessionsInv'
  <2>1. [op |-> o, copy |-> r] \in [op : {"new", "write", "delete", "over"}, copy : SessionListing]
    OBVIOUS
  <2>2. /\ UNCHANGED <<listing, row, clock, call, told, raced, revived>>
        /\ edit' = [edit EXCEPT ![e] = [op |-> o, copy |-> r]]
    BY <1>3 DEF Sessions!Edit, Sessions!onListing
  <2>3. edit' \in [Editor -> [op : {"new", "write", "delete", "over"}, copy : SessionListing]]
    BY <1>0, <2>1, <2>2
  <2>4. SessionsType'
    BY <1>0, <2>2, <2>3
  <2> QED BY <1>2, <2>2, <2>4
<1>4. ASSUME NEW e \in Editor, Sessions!UpdateBasics(e) PROVE SessionsInv'
  <2>1. PICK d \in BOOLEAN, n \in Durations :
          Sessions!Edit(e, "write", [listing EXCEPT !.described = d, !.length = n])
    BY <1>4 DEF Sessions!UpdateBasics
  <2>2. [listing EXCEPT !.described = d, !.length = n] \in SessionListing
    <3> DEFINE f == [listing EXCEPT !.described = d]
    <3>1. f \in SessionListing
      BY <1>0 DEF SessionListing
    <3>2. [listing EXCEPT !.described = d, !.length = n] = [f EXCEPT !.length = n]
      OBVIOUS
    <3> HIDE DEF f
    <3>3. [f EXCEPT !.length = n] \in SessionListing
      BY <3>1 DEF SessionListing, SessionsAssumption
    <3> QED BY <3>2, <3>3
  <2> QED BY <1>3, <2>1, <2>2
<1>5. ASSUME NEW e \in Editor, Sessions!AddPhoto(e) PROVE SessionsInv'
  <2>1. [listing EXCEPT !.photos = 1] \in SessionListing
    BY <1>0 DEF SessionListing
  <2> QED BY <1>3, <1>5, <2>1 DEF Sessions!AddPhoto
<1>6. ASSUME NEW e \in Editor, Sessions!Publish(e) PROVE SessionsInv'
  <2>1. [listing EXCEPT !.status = "published"] \in SessionListing
    BY <1>0 DEF SessionListing
  <2> QED BY <1>3, <1>6, <2>1 DEF Sessions!Publish
<1>7. ASSUME NEW e \in Editor, Sessions!Suspend(e) PROVE SessionsInv'
  <2>1. [listing EXCEPT !.status = "suspended"] \in SessionListing
    BY <1>0 DEF SessionListing
  <2> QED BY <1>3, <1>7, <2>1 DEF Sessions!Suspend
<1>8. ASSUME NEW e \in Editor, Sessions!Delete(e) PROVE SessionsInv'
  BY <1>0, <1>3, <1>8 DEF Sessions!Delete
<1>9. ASSUME NEW e \in Editor PROVE Sessions!Closed \in [op : {"new", "write", "delete", "over"}, copy : SessionListing]
  BY <1>0 DEF Sessions!Closed
<1>10. ASSUME NEW e \in Editor, Sessions!UpdateListing(e) PROVE SessionsInv'
  <2>1. /\ UNCHANGED <<row, clock, call, told, raced, revived>>
        /\ edit' = [edit EXCEPT ![e] = Sessions!Closed] /\ listing' \in {listing, edit[e].copy}
    BY <1>10 DEF Sessions!UpdateListing, Sessions!onListing
  <2>2. SessionsType'
    BY <1>0, <1>9, <2>1
  <2> QED BY <1>2, <2>1, <2>2
<1>11. ASSUME NEW e \in Editor, Sessions!DeleteListing(e) PROVE SessionsInv'
  <2>1. /\ UNCHANGED <<clock, call, told, raced, revived>> /\ listing' = Sessions!Gone
        /\ edit' = [edit EXCEPT ![e] = Sessions!Closed] /\ row' = [b \in Call |-> Sessions!NoRow]
    BY <1>11 DEF Sessions!DeleteListing
  <2>2. SessionsType'
    BY <1>0, <1>9, <2>1, SessionIdle
  <2>3. \A c \in Call : SessionCall(c)'
    BY <1>0, <2>1, SessionsOther DEF SessionsInv
  <2>4. \A b \in Call : row'[b].status = "none" /\ ~Sessions!Holds(row'[b])
    BY <2>1, SessionIdle DEF Sessions!Holds
  <2>5. (\A c \in Call : FoundFree(c)') /\ Sessions!DoubleSaleNeedsARace'
    BY <2>1, <2>4, SessionsKept DEF Inserting
  <2> QED BY <2>1, <2>2, <2>3, <2>4, <2>5 DEF SessionsInv, SessionsNone, Sessions!NoRow
<1> QED BY <1>1, <1>4, <1>5, <1>6, <1>7, <1>8, <1>10, <1>11

\* What a call does when it only moves along: it is good where it goes, and not at an insert.
LEMMA SessionsMoves ==
  ASSUME SessionsInv, NEW c \in Call, NEW next, call' = [call EXCEPT ![c] = next],
         UNCHANGED <<listing, edit, row, clock, told, raced, revived>>, call[c].op # "over",
         SessionCall(c)', ~Inserting(c)'
  PROVE SessionsInv'
<1>1. /\ SessionsType /\ call'[c] = next /\ \A d \in Call : d # c => call'[d] = call[d]
      /\ call' = [d \in Call |-> call'[d]]
  BY DEF SessionsInv, SessionsType
<1>2. SessionsType'
  BY <1>1 DEF SessionsType
<1>3. \A d \in Call : SessionCall(d)'
  <2>1. /\ \A b \in Call : call[b].op = "over" => call'[b].op = "over"
        /\ clock \in Int /\ clock' \in Int /\ clock <= clock'
    BY <1>1 DEF SessionsType
  <2>2. ASSUME NEW d \in Call, d # c PROVE SessionCall(d)'
    BY <1>1, <2>1, <2>2, SessionsOther DEF SessionsInv
  <2> QED BY <2>2
<1>4. (\A d \in Call : FoundFree(d)') /\ Sessions!DoubleSaleNeedsARace'
  BY <1>1, SessionsKept DEF Inserting
<1> QED BY <1>2, <1>3, <1>4 DEF SessionsInv, SessionsNone, Sessions!NoRow, Sessions!EndAt

LEMMA SessionsCreate ==
  ASSUME SessionsAssumption, SessionsInv, NEW c \in Call, NEW start \in StartTimes, Sessions!Create(c, start)
  PROVE SessionsInv'
<1> DEFINE r == [status |-> "pending", start |-> start, length |-> listing.length]
           next == Sessions!Doing("create", "look", "none", r, {})
<1>1. /\ call' = [call EXCEPT ![c] = next] /\ call[c] = Sessions!Idle
      /\ UNCHANGED <<listing, edit, row, clock, told, raced, revived>>
  BY DEF Sessions!Create
<1>2. r \in SessionRow /\ r.status = "pending"
  BY DEF SessionsInv, SessionsType, SessionListing, SessionRow, SessionsAssumption
<1> HIDE DEF r
<1>3. next.op = "create" /\ next.at = "look" /\ next.copy = r
  BY SessionDoing
<1> HIDE DEF next
<1>4. call[c].op = "new" /\ row[c] = Sessions!NoRow
  BY <1>1, SessionIdle DEF SessionsInv, SessionCall
<1>5. call'[c] = next
  BY <1>1 DEF SessionsInv, SessionsType
<1>6. SessionCall(c)' /\ ~Inserting(c)'
  BY <1>1, <1>2, <1>3, <1>4, <1>5 DEF SessionCall, Inserting, Sessions!NoRow
<1> QED BY <1>1, <1>4, <1>6, SessionsMoves

LEMMA SessionsFind ==
  ASSUME SessionsInv, NEW c \in Call, Sessions!FindOverlapping(c)
  PROVE SessionsInv'
<1> DEFINE next == Sessions!Doing("create", "insert", "none", call[c].copy, {})
           beside == {d \in Call : Sessions!At(d, "create", "insert")}
           free == ~\E b \in Call : Sessions!Overlap(row[b], call[c].copy)
<1>1. /\ call[c].op = "create" /\ call[c].at = "look" /\ UNCHANGED <<listing, edit, row, clock, told, revived>>
      /\ call' = [call EXCEPT ![c] = IF free THEN next ELSE Sessions!Over]
      /\ raced' = raced \cup (IF beside = {} THEN {} ELSE beside \cup {c})
  BY DEF Sessions!FindOverlapping, Sessions!At
<1>2. /\ next.op = "create" /\ next.at = "insert" /\ next.copy = call[c].copy
      /\ Sessions!Over.op = "over" /\ Sessions!Over.at = "over"
  BY SessionDoing, SessionIdle
<1>3. /\ beside = {d \in Call : Inserting(d)} /\ c \notin beside
  BY <1>1 DEF Inserting, Sessions!At
<1>4. /\ row[c] = Sessions!NoRow /\ call[c].copy \in SessionRow /\ call[c].copy.status = "pending"
  BY <1>1, SessionIdle DEF SessionsInv, SessionCall
<1>5. free => \A b \in Call : Sessions!Holds(row[b]) => ~SameSession(row[b], call[c].copy)
  BY DEF Sessions!Overlap, Sessions!Holds, SameSession
<1> HIDE DEF next, beside, free
<1>6. /\ SessionsType /\ call'[c] = (IF free THEN next ELSE Sessions!Over)
      /\ \A d \in Call : d # c => call'[d] = call[d]
      /\ call' = [d \in Call |-> call'[d]] /\ beside \subseteq Call
  BY <1>1, <1>3 DEF SessionsInv, SessionsType
<1>7. SessionsType'
  BY <1>1, <1>6 DEF SessionsType
<1>8. SessionCall(c)'
  BY <1>1, <1>2, <1>4, <1>6 DEF SessionCall, Sessions!NoRow
<1>9. \A d \in Call : SessionCall(d)'
  <2>1. /\ \A b \in Call : call[b].op = "over" => call'[b].op = "over"
        /\ clock \in Int /\ clock' \in Int /\ clock <= clock'
    BY <1>1, <1>6 DEF SessionsType
  <2>2. ASSUME NEW d \in Call, d # c PROVE SessionCall(d)'
    BY <1>1, <1>6, <2>1, <2>2, SessionsOther DEF SessionsInv
  <2> QED BY <1>8, <2>2
<1>10. \A d \in Call : FoundFree(d)'
  <2> SUFFICES ASSUME NEW d \in Call, Inserting(d)' PROVE FoundFree(d)'
    BY DEF FoundFree
  <2>1. CASE d # c
    <3>1. d \in beside /\ FoundFree(d) /\ call'[d] = call[d]
      BY <1>3, <1>6, <2>1 DEF Inserting, SessionsInv
    <3>2. \A e \in Call : Inserting(e)' /\ e # d => {d, e} \subseteq raced'
      BY <1>1, <1>3, <1>6, <3>1 DEF FoundFree, Inserting
    <3> QED BY <1>1, <1>3, <3>1, <3>2 DEF FoundFree, SameSession, Sessions!EndAt, Sessions!Holds
  <2>2. CASE d = c
    <3>1. free /\ call'[c] = next
      BY <1>2, <1>6, <2>2 DEF Inserting
    <3>2. \A e \in Call : Inserting(e)' /\ e # c => {c, e} \subseteq raced'
      BY <1>1, <1>3, <1>6 DEF Inserting
    <3> QED BY <1>1, <1>2, <1>5, <2>2, <3>1, <3>2 DEF FoundFree, SameSession, Sessions!EndAt, Sessions!Holds
  <2> QED BY <2>1, <2>2
<1>11. Sessions!DoubleSaleNeedsARace'
  BY <1>1 DEF SessionsInv, Sessions!DoubleSaleNeedsARace, Sessions!EndAt, Sessions!Holds
<1> QED BY <1>1, <1>7, <1>9, <1>10, <1>11 DEF SessionsInv, SessionsNone, Sessions!NoRow, Sessions!EndAt

LEMMA SessionsInsert ==
  ASSUME SessionsInv, NEW c \in Call, Sessions!Insert(c)
  PROVE SessionsInv'
<1> DEFINE r == call[c].copy
<1>1. /\ Inserting(c) /\ call' = [call EXCEPT ![c] = Sessions!Over]
      /\ UNCHANGED <<listing, edit, clock, raced, revived>>
      /\ \/ row' = [row EXCEPT ![c] = r] /\ told' = [told EXCEPT ![c] = @ \cup {"created"}]
         \/ UNCHANGED <<row, told>>
  BY DEF Sessions!Insert, Sessions!At, Inserting
<1>2. /\ SessionsType /\ call'[c] = Sessions!Over /\ Sessions!Over.op = "over" /\ Sessions!Over.at = "over"
      /\ \A d \in Call : d # c => call'[d] = call[d]
      /\ call' = [d \in Call |-> call'[d]]
      /\ row[c] = Sessions!NoRow /\ r \in SessionRow /\ r.status = "pending" /\ call[c].op = "create"
  BY <1>1, SessionIdle DEF SessionsInv, SessionsType, SessionCall, Inserting
<1>3. CASE UNCHANGED <<row, told>>
  <2>1. SessionCall(c)' /\ ~Inserting(c)'
    BY <1>2 DEF SessionCall, Inserting
  <2> QED BY <1>1, <1>2, <1>3, <2>1, SessionsMoves
<1>4. CASE row' = [row EXCEPT ![c] = r] /\ told' = [told EXCEPT ![c] = @ \cup {"created"}]
  <2>1. /\ row'[c] = r /\ \A b \in Call : b # c => row'[b] = row[b]
        /\ \A b \in Call : told[b] \subseteq told'[b] /\ ("confirmed" \in told'[b] <=> "confirmed" \in told[b])
    BY <1>2, <1>4 DEF SessionsType
  <2>2. SessionsType'
    BY <1>1, <1>2, <1>4 DEF SessionsType
  <2>3. \A d \in Call : SessionCall(d)'
    <3>1. SessionCall(c)'
      BY <1>2 DEF SessionCall
    <3>2. ASSUME NEW d \in Call, d # c PROVE SessionCall(d)'
      BY <1>1, <1>2, <2>1, <3>2, SessionsOther DEF SessionsInv, SessionsType
    <3> QED BY <3>1, <3>2
  <2>4. \A d \in Call : FoundFree(d)'
    <3> SUFFICES ASSUME NEW d \in Call, Inserting(d)' PROVE FoundFree(d)'
      BY DEF FoundFree
    <3>1. d # c /\ Inserting(d) /\ call'[d] = call[d]
      BY <1>2 DEF Inserting
    <3>2. FoundFree(d) /\ {c, d} \subseteq raced
      BY <1>1, <3>1 DEF SessionsInv, FoundFree
    <3>3. \A b \in Call : Sessions!Holds(row'[b]) /\ SameSession(row'[b], call'[d].copy) =>
             {b, d} \subseteq raced' \/ b \in revived'
      BY <1>1, <2>1, <3>1, <3>2 DEF FoundFree
    <3>4. \A e \in Call : Inserting(e)' /\ e # d => {d, e} \subseteq raced'
      BY <1>1, <1>2, <3>1, <3>2 DEF FoundFree, Inserting
    <3> QED BY <3>3, <3>4 DEF FoundFree, SameSession, Sessions!EndAt, Sessions!Holds
  <2>5. ASSUME NEW b \in Call, b # c, Sessions!Holds(row[b]), SameSession(row[b], r)
        PROVE {b, c} \subseteq raced \/ b \in revived
    BY <1>1, <2>5 DEF SessionsInv, FoundFree
  <2>6. ASSUME NEW b \in Call, NEW d \in Call, b # d, Sessions!Holds(row'[b]), Sessions!Holds(row'[d]),
               SameSession(row'[b], row'[d])
        PROVE {b, d} \subseteq raced' \/ {b, d} \cap revived' # {}
    <3>1. CASE b # c /\ d # c
      BY <1>1, <2>1, <2>6, <3>1 DEF SessionsInv, Sessions!DoubleSaleNeedsARace, SameSession
    <3>2. CASE b = c
      <4>1. SameSession(row[d], r) /\ Sessions!Holds(row[d]) /\ d # c
        BY <2>1, <2>6, <3>2 DEF SameSession
      <4> QED BY <1>1, <2>5, <3>2, <4>1
    <3>3. CASE d = c
      <4>1. SameSession(row[b], r) /\ Sessions!Holds(row[b]) /\ b # c
        BY <2>1, <2>6, <3>3 DEF SameSession
      <4> QED BY <1>1, <2>5, <3>3, <4>1
    <3> QED BY <3>1, <3>2, <3>3
  <2>7. Sessions!DoubleSaleNeedsARace'
    BY <2>6 DEF Sessions!DoubleSaleNeedsARace, SameSession, Sessions!EndAt, Sessions!Holds
  <2>8. \A b \in Call : /\ row'[b].status \in {"confirmed", "completed"} => "confirmed" \in told'[b]
                        /\ row'[b].status = "completed" => clock' >= Sessions!EndAt(row'[b])
    BY <1>1, <1>2, <2>1 DEF SessionsInv
  <2>9. SessionsNone'
    BY <1>2, <2>1 DEF SessionsInv, SessionsNone, Sessions!NoRow
  <2> QED BY <2>2, <2>3, <2>4, <2>7, <2>8, <2>9 DEF SessionsInv, Sessions!EndAt
<1> QED BY <1>1, <1>3, <1>4

LEMMA SessionsLoad ==
  ASSUME SessionsInv, NEW c \in Call, NEW b \in Call,
         Sessions!Confirm(c, b) \/ Sessions!Cancel(c, b) \/ Sessions!Complete(c, b)
  PROVE SessionsInv'
<1> DEFINE r(status) == [row[b] EXCEPT !.status = status]
           left(o, status) == IF o # "complete" /\ row[b].status # status THEN {status} ELSE {}
           next(o, status) == Sessions!Doing(o, "write", b, r(status), left(o, status))
<1>0. SessionsType /\ row[b] \in SessionRow
  BY DEF SessionsInv, SessionsType
<1>1. PICK o \in {"confirm", "cancel", "complete"}, status \in {"confirmed", "cancelled", "completed"} :
        /\ call[c] = Sessions!Idle /\ row[b] # Sessions!NoRow
        /\ call' = [call EXCEPT ![c] = next(o, status)]
        /\ UNCHANGED <<listing, edit, row, clock, told, raced, revived>>
        /\ o = "complete" => status = "completed"
        /\ status = "confirmed" => row[b].status \in {"pending", "confirmed"}
        /\ status = "completed" =>
             /\ o = "complete" /\ row[b].status \in {"confirmed", "completed"}
             /\ row[b].status = "confirmed" => clock >= Sessions!EndAt(row[b])
  <2>1. CASE Sessions!Confirm(c, b)
    BY <2>1 DEF Sessions!Confirm, Sessions!Confirmed, Sessions!Load
  <2>2. CASE Sessions!Cancel(c, b)
    BY <2>2 DEF Sessions!Cancel, Sessions!Cancelled, Sessions!Load
  <2>3. CASE Sessions!Complete(c, b)
    BY <2>3 DEF Sessions!Complete, Sessions!Completed, Sessions!Load
  <2> QED BY <2>1, <2>2, <2>3
<1>2. r(status) \in SessionRow /\ r(status).status = status
      /\ r(status).start = row[b].start /\ r(status).length = row[b].length
  BY <1>0 DEF SessionRow
<1>3. left(o, status) \subseteq {"confirmed", "cancelled"}
      /\ (status = "confirmed" => row[b].status = "confirmed" \/ "confirmed" \in left(o, status))
  BY <1>1
<1>4. /\ next(o, status).op = o /\ next(o, status).at = "write" /\ next(o, status).id = b
      /\ next(o, status).copy = r(status) /\ next(o, status).left = left(o, status)
  BY SessionDoing
<1> HIDE DEF r, left, next
<1>5. Booked(b) /\ call[c].op = "new" /\ row[c] = Sessions!NoRow
  <2>1. call[c].op = "new" /\ row[c] = Sessions!NoRow
    BY <1>1, SessionIdle DEF SessionsInv, SessionCall
  <2>2. row[b] # Sessions!NoRow /\ SessionCall(b)
    BY <1>1 DEF SessionsInv
  <2> QED BY <2>1, <2>2 DEF SessionCall, Booked
<1>6. CopyOf(r(status), row[b], told[b], left(o, status), clock)
  BY <1>0, <1>1, <1>2, <1>3 DEF CopyOf, SessionsInv, Sessions!EndAt, SessionRow
<1>7. call'[c] = next(o, status) /\ b # c
  BY <1>0, <1>1, <1>5 DEF SessionsType, Booked
<1>8. SessionCall(c)' /\ ~Inserting(c)'
  BY <1>1, <1>3, <1>4, <1>5, <1>6, <1>7 DEF SessionCall, Inserting, Booked, Sessions!NoRow
<1> QED BY <1>1, <1>5, <1>8, SessionsMoves

LEMMA SessionsOverdue ==
  ASSUME SessionsInv, NEW c \in Call, Sessions!FindConfirmedPastSession(c)
  PROVE SessionsInv'
<1> DEFINE item(b) == [id |-> b, copy |-> [row[b] EXCEPT !.status = "completed"]]
<1>1. PICK batch \in SUBSET Sessions!Overdue :
        /\ call[c] = Sessions!Idle
        /\ call' = [call EXCEPT ![c] =
                     Sessions!Doing("sweep", "sweep", "none", Sessions!NoRow, {item(b) : b \in batch})]
        /\ UNCHANGED <<listing, edit, row, clock, told, raced, revived>>
  BY DEF Sessions!FindConfirmedPastSession
<1>2. ASSUME NEW b \in batch
      PROVE /\ item(b).copy.status = "completed" /\ item(b).id = b /\ Booked(b)
            /\ CopyOf(item(b).copy, row[b], told[b], {}, clock)
  <2>0. b \in Call /\ row[b] \in SessionRow /\ row[b].status = "confirmed" /\ clock >= Sessions!EndAt(row[b])
    BY <1>2 DEF Sessions!Overdue, Sessions!Completed, SessionsInv, SessionsType
  <2> DEFINE r == [row[b] EXCEPT !.status = "completed"]
  <2>1. r \in SessionRow /\ r.status = "completed" /\ r.start = row[b].start /\ r.length = row[b].length
    BY <2>0 DEF SessionRow
  <2>2. item(b).copy = r /\ item(b).id = b
    OBVIOUS
  <2> HIDE DEF r, item
  <2>3. CopyOf(r, row[b], told[b], {}, clock)
    BY <2>0, <2>1 DEF CopyOf, Sessions!EndAt, SessionsInv
  <2>4. Booked(b)
    BY <2>0, SessionIdle DEF Booked, SessionsInv, SessionCall
  <2> QED BY <2>1, <2>2, <2>3, <2>4
<1> DEFINE items == {item(b) : b \in batch}
           next == Sessions!Doing("sweep", "sweep", "none", Sessions!NoRow, items)
<1>3. next.op = "sweep" /\ next.at = "sweep" /\ next.left = items
  BY SessionDoing
<1>4. \A i \in items : i.copy.status = "completed" /\ Booked(i.id)
                       /\ CopyOf(i.copy, row[i.id], told[i.id], {}, clock)
  BY <1>2
<1> HIDE DEF item
<1>5. call' = [call EXCEPT ![c] = next]
  BY <1>1
<1> HIDE DEF items, next
<1>6. call[c].op = "new" /\ row[c] = Sessions!NoRow
  BY <1>1, SessionIdle DEF SessionsInv, SessionCall
<1>7. call'[c] = next /\ \A d \in Call : d # c => call'[d] = call[d]
  BY <1>5 DEF SessionsInv, SessionsType
<1>8. \A b \in Call : Booked(b) => Booked(b)'
  BY <1>6, <1>7 DEF Booked
<1>9. \A i \in items : i.copy.status = "completed" /\ Booked(i.id)'
                       /\ CopyOf(i.copy, row'[i.id], told'[i.id], {}, clock')
  BY <1>1, <1>4, <1>6, <1>7 DEF Booked
<1>10. SessionCall(c)' /\ ~Inserting(c)'
  BY <1>1, <1>3, <1>6, <1>7, <1>9 DEF SessionCall, Inserting, Sessions!NoRow
<1> QED BY <1>1, <1>5, <1>6, <1>10, SessionsMoves

\* A copy is written over what the row has become, with what it has to tell.
LEMMA SessionsWrite ==
  ASSUME SessionsInv, NEW c \in Call, NEW next, call' = [call EXCEPT ![c] = next],
         call[c].op # "over", row[c] = Sessions!NoRow, SessionCall(c)', ~Inserting(c)',
         NEW b \in Call, NEW r, NEW left, Booked(b), CopyOf(r, row[b], told[b], left, clock),
         left \subseteq {"confirmed", "cancelled"},
         Sessions!Write(b, r), UNCHANGED <<listing, edit, clock, raced>>,
         \/ row[b] = Sessions!NoRow /\ told' = told
         \/ row[b] # Sessions!NoRow /\ told' = [told EXCEPT ![b] = @ \cup left]
  PROVE SessionsInv'
<1>1. /\ SessionsType /\ call'[c] = next /\ \A d \in Call : d # c => call'[d] = call[d]
      /\ call' = [d \in Call |-> call'[d]] /\ r \in SessionRow /\ b # c
  BY DEF SessionsInv, SessionsType, CopyOf, Booked
<1>2. /\ \A d \in Call : d # b => row'[d] = row[d]
      /\ row' \in [Call -> SessionRow]
      /\ row'[b] = (IF row[b] = Sessions!NoRow THEN row[b] ELSE r)
      /\ revived \subseteq revived' /\ revived' \subseteq Call
      /\ row[b].status = "cancelled" /\ r.status # "cancelled" => b \in revived'
  BY <1>1 DEF SessionsType, Sessions!Write
<1>3. /\ told' \in [Call -> SUBSET {"created", "confirmed", "cancelled"}]
      /\ \A d \in Call : told[d] \subseteq told'[d]
      /\ row[b] # Sessions!NoRow => left \subseteq told'[b]
  BY <1>1 DEF SessionsType
<1>4. SessionsType'
  BY <1>1, <1>2, <1>3 DEF SessionsType
<1>5. row'[b] # Sessions!NoRow => /\ row[b] # Sessions!NoRow /\ row'[b] = r
                                  /\ r.start = row[b].start /\ r.length = row[b].length
  BY <1>2 DEF CopyOf
<1>6. \A d \in Call : SessionCall(d)'
  <2>1. /\ \A d \in Call : call[d].op = "over" => call'[d].op = "over"
        /\ clock \in Int /\ clock' \in Int /\ clock <= clock'
        /\ \A d \in Call : row'[d] # Sessions!NoRow =>
             row[d] # Sessions!NoRow /\ row'[d].start = row[d].start /\ row'[d].length = row[d].length
    BY <1>1, <1>2, <1>5 DEF SessionsType
  <2>2. ASSUME NEW d \in Call, d # c PROVE SessionCall(d)'
    BY <1>1, <1>3, <2>1, <2>2, SessionsOther DEF SessionsInv
  <2> QED BY <2>2
<1>7. (\A d \in Call : FoundFree(d)') /\ Sessions!DoubleSaleNeedsARace'
  <2>1. ASSUME NEW d \in Call, Sessions!Holds(row'[d])
        PROVE \/ Sessions!Holds(row[d]) /\ row'[d].start = row[d].start /\ row'[d].length = row[d].length
              \/ d \in revived'
    <3>1. CASE d # b
      BY <1>2, <2>1, <3>1
    <3>2. CASE d = b
      <4>1. row'[b] # Sessions!NoRow
        BY <2>1, <3>2, SessionIdle DEF Sessions!Holds
      <4>2. row[b].status \in {"pending", "confirmed", "cancelled", "completed", "none"} /\ row[b] \in SessionRow
        BY <1>1 DEF SessionsType, SessionRow
      <4>3. row[b].status # "none"
        BY <1>5, <4>1 DEF SessionsInv, SessionsNone
      <4> QED BY <1>2, <1>5, <2>1, <3>2, <4>1, <4>2, <4>3 DEF Sessions!Holds
    <3> QED BY <3>1, <3>2
  <2>2. \A d \in Call : Inserting(d)' => Inserting(d) /\ call'[d].copy = call[d].copy
    BY <1>1 DEF Inserting
  <2> QED BY <1>2, <2>1, <2>2, SessionsKept
<1>8. \A d \in Call : /\ row'[d].status \in {"confirmed", "completed"} => "confirmed" \in told'[d]
                      /\ row'[d].status = "completed" => clock' >= Sessions!EndAt(row'[d])
  BY <1>1, <1>2, <1>3, <1>5, SessionIdle DEF SessionsInv, CopyOf
<1>9. SessionsNone'
  BY <1>2, <1>5 DEF SessionsInv, SessionsNone, CopyOf, Sessions!NoRow
<1> QED BY <1>4, <1>6, <1>7, <1>8, <1>9 DEF SessionsInv, Sessions!EndAt

LEMMA SessionsUpdate ==
  ASSUME SessionsInv, NEW c \in Call, Sessions!Update(c)
  PROVE SessionsInv'
<1> DEFINE b == call[c].id  r == call[c].copy  left == call[c].left
<1>1. /\ call[c].at = "write" /\ call' = [call EXCEPT ![c] = Sessions!Over]
      /\ Sessions!Write(b, r) /\ UNCHANGED <<listing, edit, clock, raced>>
      /\ told' = IF row[b] = Sessions!NoRow THEN told ELSE [told EXCEPT ![b] = @ \cup left]
  BY DEF Sessions!Update
<1>2. /\ call[c].op # "over" /\ row[c] = Sessions!NoRow
      /\ Booked(b) /\ b \in Call /\ CopyOf(r, row[b], told[b], left, clock)
      /\ left \subseteq {"confirmed", "cancelled"}
  BY <1>1, SessionIdle DEF SessionsInv, SessionCall, Booked
<1>3. call'[c] = Sessions!Over /\ Sessions!Over.op = "over" /\ Sessions!Over.at = "over"
  BY <1>1, SessionIdle DEF SessionsInv, SessionsType
<1>4. SessionCall(c)' /\ ~Inserting(c)'
  BY <1>3 DEF SessionCall, Inserting
<1> HIDE DEF b, r, left
<1> QED BY <1>1, <1>2, <1>4, SessionsWrite

LEMMA SessionsAutoComplete ==
  ASSUME SessionsInv, NEW c \in Call, Sessions!AutoComplete(c)
  PROVE SessionsInv'
<1>1. PICK item \in call[c].left :
        /\ Sessions!Write(item.id, item.copy)
        /\ call' = [call EXCEPT ![c] = IF @.left = {item} THEN Sessions!Over
                     ELSE Sessions!Doing("sweep", "sweep", "none", Sessions!NoRow, @.left \ {item})]
  BY DEF Sessions!AutoComplete
<1> DEFINE next == IF call[c].left = {item} THEN Sessions!Over
             ELSE Sessions!Doing("sweep", "sweep", "none", Sessions!NoRow, call[c].left \ {item})
           b == item.id  r == item.copy
<1>2. /\ call[c].op = "sweep" /\ call[c].at = "sweep" /\ call' = [call EXCEPT ![c] = next]
      /\ Sessions!Write(b, r) /\ UNCHANGED <<listing, edit, clock, told, raced>>
  BY <1>1 DEF Sessions!AutoComplete, Sessions!At
<1>3. /\ row[c] = Sessions!NoRow
      /\ \A i \in call[c].left : i.copy.status = "completed" /\ Booked(i.id)
                                 /\ CopyOf(i.copy, row[i.id], told[i.id], {}, clock)
  BY <1>2, SessionIdle DEF SessionsInv, SessionCall
<1>4. Booked(b) /\ b \in Call /\ CopyOf(r, row[b], told[b], {}, clock)
  BY <1>3 DEF Booked
<1>5. \/ next.op = "over" /\ next.at = "over"
      \/ next.op = "sweep" /\ next.at = "sweep" /\ next.left \subseteq call[c].left
  BY SessionDoing, SessionIdle
<1> HIDE DEF next, b, r
<1>6. SessionsType /\ call'[c] = next /\ \A d \in Call : d # c => call'[d] = call[d]
  BY <1>2 DEF SessionsInv, SessionsType
<1>7. told' = [told EXCEPT ![b] = @ \cup {}] /\ told' = told
  BY <1>2, <1>4, <1>6 DEF SessionsType
<1>8. /\ b # c /\ clock \in Int
      /\ \A d \in Call : row'[d] # Sessions!NoRow =>
           row[d] # Sessions!NoRow /\ row'[d].start = row[d].start /\ row'[d].length = row[d].length
  <2>1. b # c
    BY <1>2, <1>4 DEF Booked
  <2>2. row' = IF row[b] = Sessions!NoRow THEN row ELSE [row EXCEPT ![b] = r]
    BY <1>2 DEF Sessions!Write
  <2>3. row[b] # Sessions!NoRow => r.start = row[b].start /\ r.length = row[b].length
    BY <1>4 DEF CopyOf
  <2> QED BY <1>4, <1>6, <2>1, <2>2, <2>3 DEF SessionsType
<1>9. ASSUME NEW i \in call[c].left
      PROVE i.copy.status = "completed" /\ Booked(i.id)' /\ CopyOf(i.copy, row'[i.id], told'[i.id], {}, clock')
  <2>1. Booked(i.id)' /\ i.id \in Call
    BY <1>2, <1>3, <1>6, <1>9 DEF Booked
  <2>2. CopyOf(i.copy, row'[i.id], told'[i.id], {}, clock')
    BY <1>2, <1>3, <1>8, <1>9, <2>1, CopyStays
  <2> QED BY <1>3, <1>9, <2>1, <2>2
<1>10. row'[c] = Sessions!NoRow
  BY <1>3, <1>8
<1>11. SessionCall(c)' /\ ~Inserting(c)'
  BY <1>5, <1>6, <1>9, <1>10 DEF SessionCall, Inserting, Sessions!NoRow
<1>12. PICK left : left = {}
  OBVIOUS
<1>13. /\ left \subseteq {"confirmed", "cancelled"} /\ CopyOf(r, row[b], told[b], left, clock)
       /\ \/ row[b] = Sessions!NoRow /\ told' = told
          \/ row[b] # Sessions!NoRow /\ told' = [told EXCEPT ![b] = @ \cup left]
  BY <1>4, <1>7, <1>12
<1>14. UNCHANGED <<listing, edit, clock, raced>> /\ call[c].op # "over"
  BY <1>2
<1> QED BY <1>2, <1>3, <1>4, <1>11, <1>13, <1>14, SessionsWrite

LEMMA SessionsStep ==
  ASSUME SessionsAssumption, SessionsInv, [Sessions!Next]_(Sessions!experienceVars)
  PROVE SessionsInv'
<1>1. CASE UNCHANGED Sessions!experienceVars
  <2>1. UNCHANGED <<listing, edit, row, clock, call, told, raced, revived>>
    BY <1>1 DEF Sessions!experienceVars
  <2>2. SessionsType' /\ clock \in Int
    BY <2>1 DEF SessionsInv, SessionsType
  <2>3. \A c \in Call : SessionCall(c)'
    BY <2>1, <2>2, SessionsOther DEF SessionsInv
  <2>4. (\A c \in Call : FoundFree(c)') /\ Sessions!DoubleSaleNeedsARace'
    BY <2>1, SessionsKept DEF Inserting
  <2> QED BY <2>1, <2>2, <2>3, <2>4 DEF SessionsInv, SessionsNone, Sessions!NoRow, Sessions!EndAt
<1>2. CASE Sessions!Next
  BY <1>2, SessionsListing, SessionsCreate, SessionsFind, SessionsInsert, SessionsLoad, SessionsUpdate,
     SessionsOverdue, SessionsAutoComplete DEF Sessions!Next
<1> QED BY <1>1, <1>2

LEMMA SessionsMeans == SessionsInv => Sessions!SessionsAreExplained
BY DEF SessionsInv, Sessions!SessionsAreExplained, Sessions!CompletedWasConfirmed

-----------------------------------------------------------------------------
(* Payment providers: Providers. *)

\* No booking goes by the name that stands for none.
GatewaysAssumption == "none" \notin Stay

GatewayNames == {"gpayangola", "appypay", "stripe"} \cup Providers!Fakes \cup {s.provider : s \in Setting}
GatewayRef == [tag : GatewayNames \cup {"fake", "none"}, provider : GatewayNames \cup {"none"}, n : Nat]
GatewayHold ==
  [provider : GatewayNames, n : Nat \ {0}, booking : Stay, state : {"held", "captured", "refunded"}]
GatewayEvent == [provider : GatewayNames, n : Nat \ {0}, booking : Stay]
GatewayPayment == [ref : GatewayRef, status : {"none", "failed", "authorized", "captured", "refunded"}]
GatewayCall == [op : {"idle", "ask", "create", "over"}, b : Stay \cup {"none"}, i : Nat, ref : GatewayRef]

GatewayType ==
  /\ setting \in Setting /\ rerouted \in BOOLEAN /\ faulted \in Nat
  /\ holds \subseteq GatewayHold /\ sent \subseteq GatewayEvent
  /\ payment \in [Stay -> GatewayPayment] /\ call \in [Worker -> GatewayCall]
  /\ \A m \in found : m.e \in sent

\* The providers that the settings of the process ask, and in which order.
Asking == IF Providers!Routed THEN {Providers!Domestic[i] : i \in DOMAIN Providers!Domestic}
                                     \cup {Providers!Foreign[i] : i \in DOMAIN Providers!Foreign}
          ELSE {Providers!Only}
Chains == [b \in Stay |-> Providers!Asked(b)]

\* References that lead to a hold of the booking, unless a fake gateway has forgotten it.
Leading ==
  [b \in Stay |->
    {ref \in GatewayRef :
       \/ ref = Providers!NoRef
       \/ /\ ref.n > 0
          /\ ~rerouted => /\ ref.provider \in Asking
                          /\ ref.tag = IF Providers!Routed THEN Providers!Name(ref.provider) ELSE "none"
          /\ \/ \E h \in holds : Providers!Names(ref, h) /\ h.booking = b
             \/ ref.provider \in Providers!Fakes /\ faulted > 0}]

\* Of one booking, the deliveries that are still at work.
Working(c) == call[c].op \in {"ask", "create"}
GatewayDelivery(c) ==
  /\ Working(c) => call[c].b \in Stay
  /\ call[c].op = "ask" =>
       call[c].ref = Providers!NoRef /\ call[c].i \in 1 .. Len(Chains[call[c].b])
  /\ call[c].op = "create" => call[c].ref \in Leading[call[c].b]
  /\ Working(c) /\ payment[call[c].b] # Providers!NoPayment => faulted > 0 \/ call[c].b \in doubled
  /\ \A d \in Worker : Working(c) /\ Working(d) /\ c # d /\ call[c].b = call[d].b => call[c].b \in doubled

\* A number is of one booking, and its hold is on record.
HoldRecorded(h) ==
  /\ \A k \in holds : h.provider = k.provider /\ h.n = k.n => h.booking = k.booking
  /\ ~rerouted => h.provider \in Asking
  /\ \/ Providers!Names(payment[h.booking].ref, h)
     \/ \E c \in Worker :
          call[c].op = "create" /\ call[c].b = h.booking /\ Providers!Names(call[c].ref, h)
     \/ faulted > 0 \/ h.booking \in doubled

\* What a provider announced has its hold, and what a webhook found is its payment.
WebhookAnnounced(e) ==
  /\ e.provider \notin Providers!Fakes
  /\ \E h \in holds : h.provider = e.provider /\ h.n = e.n /\ h.booking = e.booking
WebhookAnswered(m) ==
  /\ m.b # m.e.booking /\ m.b # "none" => rerouted
  /\ m.b = "none" /\ m.known =>
       /\ payment[m.e.booking] # Providers!NoPayment
       /\ rerouted \/ ~Providers!Names(payment[m.e.booking].ref, m.e)

GatewaysInv ==
  /\ GatewayType
  /\ \A c \in Worker : GatewayDelivery(c)
  /\ \A h \in holds : HoldRecorded(h)
  /\ \A e \in sent : WebhookAnnounced(e)
  /\ \A m \in found : WebhookAnswered(m)
  /\ \A b \in Stay : payment[b].ref \in Leading[b]
                     /\ (payment[b].status = "authorized" => payment[b].ref # Providers!NoRef)

-----------------------------------------------------------------------------
LEMMA Tuples ==
  /\ Len(<<>>) = 0
  /\ \A x : Len(<<x>>) = 1 /\ DOMAIN <<x>> = 1 .. 1 /\ {<<x>>[i] : i \in DOMAIN <<x>>} = {x} /\ <<x>> # <<>>
  /\ \A x, y : Len(<<x, y>>) = 2 /\ DOMAIN <<x, y>> = 1 .. 2 /\ <<x, y>> # <<>>
              /\ {<<x, y>>[i] : i \in DOMAIN <<x, y>>} = {x, y}
  /\ \A x : <<x>> \o <<>> = <<x>> /\ <<>> \o <<x>> = <<x>>
  /\ \A x, y : <<x>> \o <<y>> = <<x, y>>
  /\ \A x, y : <<x>> = <<y>> => x = y
<1>1. Len(<<>>) = 0
  OBVIOUS
<1>2. \A x : Len(<<x>>) = 1 /\ DOMAIN <<x>> = 1 .. 1 /\ {<<x>>[i] : i \in DOMAIN <<x>>} = {x} /\ <<x>> # <<>>
  OBVIOUS
<1>3. \A x, y : Len(<<x, y>>) = 2 /\ DOMAIN <<x, y>> = 1 .. 2 /\ <<x, y>> # <<>>
  OBVIOUS
<1>4. ASSUME NEW x, NEW y PROVE {<<x, y>>[i] : i \in DOMAIN <<x, y>>} = {x, y}
  OBVIOUS
<1>5. \A x : <<x>> \o <<>> = <<x>> /\ <<>> \o <<x>> = <<x>>
  OBVIOUS
<1>6. ASSUME NEW x, NEW y PROVE <<x>> \o <<y>> = <<x, y>>
  <2> DEFINE s == <<x>> \o <<y>>
             t == <<x, y>>
  <2>1. <<x>> \in Seq({x, y}) /\ <<y>> \in Seq({x, y}) /\ t \in Seq({x, y})
    OBVIOUS
  <2>2. /\ s \in Seq({x, y}) /\ Len(s) = 2 /\ s[1] = x /\ s[2] = y
    BY <2>1, ConcatProperties, <1>2
  <2>3. Len(t) = 2 /\ t[1] = x /\ t[2] = y
    OBVIOUS
  <2> HIDE DEF s, t
  <2>4. \A i \in 1 .. Len(s) : s[i] = t[i]
    BY <2>2, <2>3
  <2>5. s = t
    BY <2>1, <2>2, <2>3, <2>4, SeqEqual
  <2> QED BY <2>5 DEF s, t
<1>7. ASSUME NEW x, NEW y, <<x>> = <<y>> PROVE x = y
  BY <1>7
<1> QED BY <1>1, <1>2, <1>3, <1>4, <1>5, <1>6, <1>7

\* What a chain can be, and where a name leads.
LEMMA GatewayForeign ==
  /\ Len(Providers!Foreign) = 1 /\ DOMAIN Providers!Foreign = 1 .. Len(Providers!Foreign)
  /\ \/ /\ Providers!Foreign = <<"fake, foreign">>
        /\ {Providers!Foreign[i] : i \in DOMAIN Providers!Foreign} = {"fake, foreign"}
     \/ /\ Providers!Foreign # <<"fake, foreign">>
        /\ {Providers!Foreign[i] : i \in DOMAIN Providers!Foreign} = {"stripe"}
<1>1. Providers!Foreign = <<"fake, foreign">> \/ Providers!Foreign = <<"stripe">>
  BY DEF Providers!Foreign, Providers!Or, Providers!Leg
<1>2. CASE Providers!Foreign = <<"fake, foreign">>
  <2> DEFINE x == "fake, foreign"
  <2>1. Providers!Foreign = <<x>>
    BY <1>2
  <2> HIDE DEF x
  <2>2. /\ Len(Providers!Foreign) = 1 /\ DOMAIN Providers!Foreign = 1 .. 1
        /\ {Providers!Foreign[i] : i \in DOMAIN Providers!Foreign} = {x}
    BY <2>1
  <2> QED BY <1>2, <2>2 DEF x
<1>3. CASE Providers!Foreign = <<"stripe">>
  <2> DEFINE x == "stripe"
             y == "fake, foreign"
  <2>1. Providers!Foreign = <<x>> /\ x # y
    BY <1>3
  <2> HIDE DEF x, y
  <2>2. /\ Len(Providers!Foreign) = 1 /\ DOMAIN Providers!Foreign = 1 .. 1
        /\ {Providers!Foreign[i] : i \in DOMAIN Providers!Foreign} = {x}
        /\ Providers!Foreign # <<y>>
    BY <2>1, Tuples
  <2> QED BY <2>2 DEF x, y
<1> QED BY <1>1, <1>2, <1>3

LEMMA GatewayDomestic ==
  /\ Len(Providers!Domestic) \in 1 .. 2 /\ DOMAIN Providers!Domestic = 1 .. Len(Providers!Domestic)
  /\ {Providers!Domestic[i] : i \in DOMAIN Providers!Domestic} \subseteq
       {"fake, domestic", "gpayangola", "appypay"}
<1> DEFINE x == "gpayangola"
           y == "appypay"
           z == "fake, domestic"
<1>1. \/ Providers!Domestic = <<x>> \/ Providers!Domestic = <<y>> \/ Providers!Domestic = <<x, y>>
      \/ Providers!Domestic = <<z>>
  <2>1. /\ Providers!Leg(x) = <<x>> \/ Providers!Leg(x) = <<>>
        /\ Providers!Leg(y) = <<y>> \/ Providers!Leg(y) = <<>>
    BY DEF Providers!Leg
  <2>2. Providers!Domestic = IF Providers!Leg(x) \o Providers!Leg(y) = <<>> THEN <<z>>
                             ELSE Providers!Leg(x) \o Providers!Leg(y)
    BY DEF Providers!Domestic, Providers!Or
  <2>3. <<>> \o <<>> = <<>>
    OBVIOUS
  <2> HIDE DEF x, y, z
  <2>4. <<x>> \o <<>> = <<x>> /\ <<>> \o <<y>> = <<y>> /\ <<x>> \o <<y>> = <<x, y>>
    BY Tuples
  <2>5. CASE Providers!Leg(x) = <<x>> /\ Providers!Leg(y) = <<y>>
    BY <2>2, <2>4, <2>5
  <2>6. CASE Providers!Leg(x) = <<x>> /\ Providers!Leg(y) = <<>>
    BY <2>2, <2>4, <2>6
  <2>7. CASE Providers!Leg(x) = <<>> /\ Providers!Leg(y) = <<y>>
    BY <2>2, <2>4, <2>7
  <2>8. CASE Providers!Leg(x) = <<>> /\ Providers!Leg(y) = <<>>
    BY <2>2, <2>3, <2>8
  <2> QED BY <2>1, <2>5, <2>6, <2>7, <2>8
<1> HIDE DEF x, y, z
<1>2. ASSUME NEW p, Providers!Domestic = <<p>>
      PROVE /\ Len(Providers!Domestic) \in 1 .. 2 /\ DOMAIN Providers!Domestic = 1 .. Len(Providers!Domestic)
            /\ {Providers!Domestic[i] : i \in DOMAIN Providers!Domestic} = {p}
  BY <1>2
<1>3. ASSUME NEW p, NEW q, Providers!Domestic = <<p, q>>
      PROVE /\ Len(Providers!Domestic) \in 1 .. 2 /\ DOMAIN Providers!Domestic = 1 .. Len(Providers!Domestic)
            /\ {Providers!Domestic[i] : i \in DOMAIN Providers!Domestic} = {p, q}
  BY <1>3
<1>4. /\ Len(Providers!Domestic) \in 1 .. 2 /\ DOMAIN Providers!Domestic = 1 .. Len(Providers!Domestic)
      /\ {Providers!Domestic[i] : i \in DOMAIN Providers!Domestic} \subseteq {x, y, z}
  BY <1>1, <1>2, <1>3
<1> QED BY <1>4 DEF x, y, z

LEMMA GatewaysAsked ==
  ASSUME setting \in Setting
  PROVE /\ Asking \subseteq GatewayNames
        /\ \A b \in Stay : /\ Len(Chains[b]) \in Nat \ {0}
                           /\ \A i \in 1 .. Len(Chains[b]) : Chains[b][i] \in Asking
<1>1. CASE ~Providers!Routed
  <2>1. Asking = {Providers!Only}
    BY <1>1 DEF Asking
  <2>2. Providers!Only \in GatewayNames
    BY DEF Providers!Only, Providers!Has, GatewayNames, Providers!Fakes
  <2>3. \A b \in Stay : Chains[b] = <<Providers!Only>>
    BY <1>1 DEF Chains, Providers!Asked
  <2> QED BY <2>1, <2>2, <2>3
<1>2. CASE Providers!Routed
  <2> DEFINE fore == {Providers!Foreign[i] : i \in DOMAIN Providers!Foreign}
             home == {Providers!Domestic[i] : i \in DOMAIN Providers!Domestic}
  <2>1. fore \subseteq {"fake, foreign", "stripe"} /\ home \subseteq {"fake, domestic", "gpayangola", "appypay"}
    BY GatewayForeign, GatewayDomestic
  <2>2. Asking = home \cup fore
    BY <1>2 DEF Asking
  <2>3. /\ \A i \in 1 .. Len(Providers!Domestic) : Providers!Domestic[i] \in home
        /\ \A i \in 1 .. Len(Providers!Foreign) : Providers!Foreign[i] \in fore
    BY GatewayForeign, GatewayDomestic
  <2> HIDE DEF fore, home
  <2>4. Asking \subseteq GatewayNames
    BY <2>1, <2>2 DEF GatewayNames, Providers!Fakes
  <2>5. \A b \in Stay : Chains[b] = Providers!Domestic \/ Chains[b] = Providers!Foreign
    BY <1>2 DEF Chains, Providers!Asked, Providers!Chain
  <2>6. /\ Len(Providers!Domestic) \in Nat \ {0} /\ Len(Providers!Foreign) \in Nat \ {0}
    <3>1. Len(Providers!Foreign) = 1 /\ Len(Providers!Domestic) \in 1 .. 2
      BY GatewayForeign, GatewayDomestic
    <3> QED BY <3>1
  <2> QED BY <2>2, <2>3, <2>4, <2>5, <2>6
<1> QED BY <1>1, <1>2

\* Asked by routing, only the two fake gateways share a name.
LEMMA GatewaysNamed ==
  ASSUME Providers!Routed, NEW p \in Asking
  PROVE /\ p \in {"fake, domestic", "fake, foreign", "gpayangola", "appypay", "stripe"}
        /\ Providers!Name(p) # "none"
        /\ p \notin Providers!Fakes => Providers!Name(p) = p
        /\ \/ p = "fake, domestic" /\ Providers!Foreign = <<"fake, foreign">>
           \/ p \in Providers!ByName(Providers!Name(p))
<1> DEFINE fore == {Providers!Foreign[i] : i \in DOMAIN Providers!Foreign}
           home == {Providers!Domestic[i] : i \in DOMAIN Providers!Domestic}
           called(S) == {q \in S : Providers!Name(q) = Providers!Name(p)}
<1>1. /\ \/ fore = {"fake, foreign"} /\ Providers!Foreign = <<"fake, foreign">>
         \/ fore = {"stripe"} /\ Providers!Foreign # <<"fake, foreign">>
      /\ home \subseteq {"fake, domestic", "gpayangola", "appypay"}
  BY GatewayForeign, GatewayDomestic
<1>2. p \in home \cup fore
  BY DEF Asking
<1>3. Providers!ByName(Providers!Name(p)) = IF called(fore) # {} THEN called(fore) ELSE called(home)
  BY DEF Providers!ByName
<1> HIDE DEF fore, home
<1>4. p \in {"fake, domestic", "fake, foreign", "gpayangola", "appypay", "stripe"}
  BY <1>1, <1>2
<1>5. Providers!Name(p) # "none" /\ (p \notin Providers!Fakes => Providers!Name(p) = p)
  BY <1>4 DEF Providers!Name, Providers!Fakes
<1>6. CASE p \in fore
  BY <1>3, <1>4, <1>5, <1>6
<1>7. CASE p \in home /\ (p # "fake, domestic" \/ Providers!Foreign # <<"fake, foreign">>)
  <2>1. called(fore) = {}
    BY <1>1, <1>7 DEF Providers!Name, Providers!Fakes
  <2> QED BY <1>3, <1>4, <1>5, <1>7, <2>1
<1> QED BY <1>2, <1>4, <1>5, <1>6, <1>7

\* What does not change while the settings stay, and what only grows.
LEMMA GatewaySettings ==
  ASSUME setting' = setting
  PROVE Asking' = Asking /\ Chains' = Chains /\ (Providers!Routed' <=> Providers!Routed)
BY DEF Asking, Chains, Providers!Asked, Providers!Chain, Providers!Routed, Providers!Domestic,
       Providers!Foreign, Providers!Or, Providers!Leg, Providers!Has, Providers!Only

LEMMA LeadingGrows ==
  ASSUME UNCHANGED <<setting, rerouted>>, faulted > 0 => faulted' > 0,
         \A h \in holds : \E k \in holds' : k.provider = h.provider /\ k.n = h.n /\ k.booking = h.booking
  PROVE \A b \in Stay : Leading[b] \subseteq Leading'[b]
<1> SUFFICES ASSUME NEW b \in Stay, NEW ref \in Leading[b] PROVE ref \in Leading'[b]
  OBVIOUS
<1>1. /\ ref \in GatewayRef
      /\ \/ ref = Providers!NoRef
         \/ /\ ref.n > 0
            /\ ~rerouted => /\ ref.provider \in Asking
                            /\ ref.tag = IF Providers!Routed THEN Providers!Name(ref.provider) ELSE "none"
            /\ \/ \E h \in holds : Providers!Names(ref, h) /\ h.booking = b
               \/ ref.provider \in Providers!Fakes /\ faulted > 0
  BY DEF Leading
<1>2. Asking' = Asking /\ (Providers!Routed' <=> Providers!Routed)
  BY GatewaySettings
<1>3. (\E h \in holds : Providers!Names(ref, h) /\ h.booking = b)
        => \E h \in holds' : Providers!Names(ref, h) /\ h.booking = b
  BY DEF Providers!Names
<1>4. /\ ref \in GatewayRef
      /\ \/ ref = Providers!NoRef
         \/ /\ ref.n > 0
            /\ ~rerouted' => /\ ref.provider \in Asking'
                             /\ ref.tag = IF Providers!Routed' THEN Providers!Name(ref.provider) ELSE "none"
            /\ \/ \E h \in holds' : Providers!Names(ref, h) /\ h.booking = b
               \/ ref.provider \in Providers!Fakes /\ faulted' > 0
  BY <1>1, <1>2, <1>3
<1> QED BY <1>4 DEF Leading

LEMMA NoRefLeads == \A b \in Stay : Providers!NoRef \in Leading[b]
BY DEF Leading, GatewayRef, Providers!NoRef

LEMMA GatewaysInit == Providers!Init => GatewaysInv
<1> SUFFICES ASSUME Providers!Init PROVE GatewaysInv
  OBVIOUS
<1>1. Providers!NoRef \in GatewayRef /\ Providers!NoPayment \in GatewayPayment
      /\ Providers!NoPayment.ref = Providers!NoRef /\ Providers!NoPayment.status = "none"
      /\ Providers!Idle \in GatewayCall /\ Providers!Idle.op = "idle"
  BY DEF Providers!NoRef, Providers!NoPayment, GatewayRef, GatewayPayment, GatewayCall, Providers!Idle,
         Providers!Doing
<1>2. GatewayType /\ holds = {} /\ sent = {} /\ found = {}
  BY <1>1 DEF Providers!Init, GatewayType
<1>3. \A c \in Worker : GatewayDelivery(c)
  BY <1>1 DEF Providers!Init, GatewayDelivery, Working
<1>4. \A b \in Stay : payment[b].ref \in Leading[b] /\ payment[b].status # "authorized"
  BY <1>1, NoRefLeads DEF Providers!Init
<1> QED BY <1>2, <1>3, <1>4 DEF GatewaysInv

\* A hold that is placed is a new number of its provider, or the one that is there.
LEMMA GatewayPlaces ==
  ASSUME GatewayType, NEW b \in Stay, NEW p \in GatewayNames, NEW h \in Providers!Hold(p, b)
  PROVE /\ h \in GatewayHold /\ h.provider = p /\ h.booking = b
        /\ h \in holds \/ \A k \in holds : k.provider = p => k.n # h.n
<1>1. CASE h \in Providers!Placed(p, b)
  BY <1>1 DEF Providers!Placed, GatewayType
<1>2. CASE h \notin Providers!Placed(p, b)
  <2>1. PICK n \in 1 .. MaxHolds :
          n \notin Providers!Numbers(p) /\ h = [provider |-> p, n |-> n, booking |-> b, state |-> "held"]
    BY <1>2 DEF Providers!Hold
  <2>2. n \in Nat \ {0}
    OBVIOUS
  <2>3. h \in GatewayHold /\ h.provider = p /\ h.booking = b /\ h.n = n
    BY <2>1, <2>2 DEF GatewayHold
  <2>4. \A k \in holds : k.provider = p => k.n # n
    BY <2>1 DEF Providers!Numbers
  <2> QED BY <2>3, <2>4
<1> QED BY <1>1, <1>2

LEMMA GatewayCallTo ==
  ASSUME GatewayType, NEW c \in Worker, NEW rec \in GatewayCall, Providers!Goes(c, rec)
  PROVE call' \in [Worker -> GatewayCall] /\ call'[c] = rec /\ \A d \in Worker : d # c => call'[d] = call[d]
BY DEF GatewayType, Providers!Goes

LEMMA GatewayDoing ==
  ASSUME NEW op, NEW b, NEW i, NEW ref
  PROVE /\ Providers!Doing(op, b, i, ref).op = op /\ Providers!Doing(op, b, i, ref).b = b
        /\ Providers!Doing(op, b, i, ref).i = i /\ Providers!Doing(op, b, i, ref).ref = ref
        /\ op \in {"idle", "ask", "create", "over"} /\ b \in Stay \cup {"none"} /\ i \in Nat /\ ref \in GatewayRef
             => Providers!Doing(op, b, i, ref) \in GatewayCall
BY DEF Providers!Doing, GatewayCall

\* What every step but a restart takes over from the state before it.
LEMMA GatewaysCarried ==
  ASSUME GatewaysInv, UNCHANGED <<setting, rerouted, sent, found>>, faulted > 0 => faulted' > 0,
         \A h \in holds : \E k \in holds' : k.provider = h.provider /\ k.n = h.n /\ k.booking = h.booking,
         \A b \in Stay : payment[b] # Providers!NoPayment =>
                           payment'[b] # Providers!NoPayment /\ payment'[b].ref = payment[b].ref
  PROVE /\ \A b \in Stay : Leading[b] \subseteq Leading'[b]
        /\ Asking' = Asking /\ Chains' = Chains /\ (Providers!Routed' <=> Providers!Routed)
        /\ \A e \in sent' : WebhookAnnounced(e)'
        /\ \A m \in found' : WebhookAnswered(m)'
<1>1. \A b \in Stay : Leading[b] \subseteq Leading'[b]
  BY LeadingGrows
<1>2. Asking' = Asking /\ Chains' = Chains /\ (Providers!Routed' <=> Providers!Routed)
  BY GatewaySettings
<1>3. ASSUME NEW e \in sent' PROVE WebhookAnnounced(e)'
  <2>1. WebhookAnnounced(e)
    BY DEF GatewaysInv
  <2> QED BY <2>1 DEF WebhookAnnounced
<1>4. ASSUME NEW m \in found' PROVE WebhookAnswered(m)'
  <2>1. WebhookAnswered(m) /\ m.e.booking \in Stay
    BY DEF GatewaysInv, GatewayType, GatewayEvent
  <2> QED BY <2>1 DEF WebhookAnswered, Providers!Names
<1> QED BY <1>1, <1>2, <1>3, <1>4

\* The parts that a step has to show once the rest is taken over.
LEMMA GatewayKept ==
  ASSUME GatewaysInv, NEW c \in Worker, call'[c] = call[c], doubled \subseteq doubled',
         faulted > 0 => faulted' > 0, Chains' = Chains, \A b \in Stay : Leading[b] \subseteq Leading'[b],
         Working(c) => payment'[call[c].b] = payment[call[c].b] \/ call[c].b \in doubled',
         \A d \in Worker : d # c /\ Working(d)' =>
           \/ Working(d) /\ call'[d].b = call[d].b
           \/ call'[d].b = call[c].b => call'[d].b \in doubled'
  PROVE GatewayDelivery(c)'
<1>1. GatewayDelivery(c)
  BY DEF GatewaysInv
<1>2. Working(c)' = Working(c)
  BY DEF Working
<1>3. /\ Working(c) => call[c].b \in Stay
      /\ call[c].op = "ask" =>
           call[c].ref = Providers!NoRef /\ call[c].i \in 1 .. Len(Chains[call[c].b])
      /\ call[c].op = "create" => call[c].ref \in Leading[call[c].b]
      /\ Working(c) /\ payment[call[c].b] # Providers!NoPayment => faulted > 0 \/ call[c].b \in doubled
      /\ \A d \in Worker : Working(c) /\ Working(d) /\ c # d /\ call[c].b = call[d].b => call[c].b \in doubled
  BY <1>1 DEF GatewayDelivery
<1>4. /\ Working(c)' => call'[c].b \in Stay
      /\ call'[c].op = "ask" =>
           call'[c].ref = Providers!NoRef /\ call'[c].i \in 1 .. Len(Chains'[call'[c].b])
      /\ Working(c)' /\ payment'[call'[c].b] # Providers!NoPayment => faulted' > 0 \/ call'[c].b \in doubled'
  BY <1>2, <1>3
<1>5. call'[c].op = "create" => call'[c].ref \in Leading'[call'[c].b]
  BY <1>3 DEF Working
<1>6. \A d \in Worker : Working(c)' /\ Working(d)' /\ c # d /\ call'[c].b = call'[d].b => call'[c].b \in doubled'
  BY <1>2, <1>3
<1> QED BY <1>4, <1>5, <1>6 DEF GatewayDelivery, Providers!NoRef, Providers!NoPayment

LEMMA GatewayAuthorize ==
  ASSUME GatewaysInv, NEW c \in Worker, NEW b \in Stay, Providers!Authorize(c, b)
  PROVE GatewaysInv'
<1> DEFINE rec == Providers!Doing("ask", b, 1, Providers!NoRef)
<1>1. /\ call[c].op = "idle" /\ payment[b] = Providers!NoPayment /\ Providers!Goes(c, rec)
      /\ UNCHANGED <<setting, rerouted, holds, payment, sent, seen, found, faulted>>
      /\ doubled \subseteq doubled' /\ ((\E d \in Worker \ {c} : call[d].b = b) => b \in doubled')
  BY DEF Providers!Authorize, Providers!At
<1>2. GatewayType /\ rec \in GatewayCall
  BY GatewayDoing, NoRefLeads DEF GatewaysInv, Leading
<1>3. rec.op = "ask" /\ rec.b = b /\ rec.i = 1 /\ rec.ref = Providers!NoRef
  BY GatewayDoing
<1> HIDE DEF rec
<1>4. call' \in [Worker -> GatewayCall] /\ call'[c] = rec /\ \A d \in Worker : d # c => call'[d] = call[d]
  BY <1>1, <1>2, GatewayCallTo
<1>5. /\ \A x \in Stay : Leading[x] \subseteq Leading'[x]
      /\ Asking' = Asking /\ Chains' = Chains /\ (Providers!Routed' <=> Providers!Routed)
      /\ \A e \in sent' : WebhookAnnounced(e)'
      /\ \A m \in found' : WebhookAnswered(m)'
  <2>1. \A x \in Stay : payment[x] # Providers!NoPayment =>
          payment'[x] # Providers!NoPayment /\ payment'[x].ref = payment[x].ref
    BY <1>1
  <2> QED BY <1>1, <2>1, GatewaysCarried
<1>6. GatewayType'
  BY <1>1, <1>2, <1>4 DEF GatewayType
<1>7. ASSUME NEW x \in Worker PROVE GatewayDelivery(x)'
  <2>1. CASE x = c
    <3>1. 1 \in 1 .. Len(Chains'[b])
      BY <1>2, <1>5, GatewaysAsked DEF GatewayType
    <3>2. \A d \in Worker : d # c /\ call'[d].b = b => b \in doubled'
      BY <1>1, <1>4
    <3> QED BY <1>1, <1>3, <1>4, <2>1, <3>1, <3>2 DEF GatewayDelivery, Providers!NoPayment, Providers!NoRef
  <2>2. CASE x # c
    <3>1. Working(x) => payment'[call[x].b] = payment[call[x].b] \/ call[x].b \in doubled'
      BY <1>1
    <3>2. ASSUME NEW d \in Worker, d # x, Working(d)'
          PROVE (Working(d) /\ call'[d].b = call[d].b) \/ (call'[d].b = call[x].b => call'[d].b \in doubled')
      BY <1>1, <1>3, <1>4, <2>2, <3>2 DEF Working
    <3> QED BY <1>1, <1>4, <1>5, <2>2, <3>1, <3>2, GatewayKept
  <2> QED BY <2>1, <2>2
<1>8. ASSUME NEW h \in holds' PROVE HoldRecorded(h)'
  <2>1. HoldRecorded(h)
    BY <1>1 DEF GatewaysInv
  <2>2. \A d \in Worker : call[d].op = "create" => call'[d] = call[d]
    BY <1>1, <1>4
  <2> QED BY <1>1, <1>5, <2>1, <2>2 DEF HoldRecorded, Providers!Names
<1>9. \A x \in Stay : payment'[x].ref \in Leading'[x]
                     /\ (payment'[x].status = "authorized" => payment'[x].ref # Providers!NoRef)
  BY <1>1, <1>5 DEF GatewaysInv
<1> QED BY <1>5, <1>6, <1>7, <1>8, <1>9 DEF GatewaysInv, Providers!NoRef

\* A delivery that asks goes on with the same booking, and the hold it may have left is new
\* to its provider or was there.
LEMMA GatewayAsks ==
  ASSUME GatewaysInv, NEW c \in Worker, call[c].op = "ask", NEW rec \in GatewayCall, Providers!Goes(c, rec),
         rec.b = call[c].b, rec.op \in {"ask", "create"},
         UNCHANGED <<setting, rerouted, payment, sent, seen, found, doubled>>,
         faulted' \in Nat, faulted > 0 => faulted' > 0,
         rec.op = "ask" => rec.ref = Providers!NoRef /\ rec.i \in 1 .. Len(Chains[rec.b]),
         rec.op = "create" => rec.ref = Providers!NoRef \/ rec.ref \in Leading'[rec.b],
         \/ holds' = holds
         \/ \E h \in Providers!Hold(Chains[call[c].b][call[c].i], call[c].b) :
              /\ holds' = holds \cup {h}
              /\ (rec.op = "create" /\ Providers!Names(rec.ref, h)) \/ faulted' > 0
  PROVE GatewaysInv'
<1> DEFINE b == call[c].b
           p == Chains[b][call[c].i]
<1>1. GatewayType /\ GatewayDelivery(c) /\ Working(c) /\ b \in Stay /\ p \in Asking /\ p \in GatewayNames
  <2>1. GatewayType /\ GatewayDelivery(c) /\ Working(c)
    BY DEF GatewaysInv, Working
  <2>2. b \in Stay /\ call[c].i \in 1 .. Len(Chains[b])
    BY <2>1 DEF GatewayDelivery
  <2> QED BY <2>1, <2>2, GatewaysAsked DEF GatewayType
<1> HIDE DEF p
<1>2. call' \in [Worker -> GatewayCall] /\ call'[c] = rec /\ \A d \in Worker : d # c => call'[d] = call[d]
  BY <1>1, GatewayCallTo
<1>3. \/ holds' = holds
      \/ \E h \in Providers!Hold(p, b) :
              /\ holds' = holds \cup {h}
              /\ (rec.op = "create" /\ Providers!Names(rec.ref, h)) \/ faulted' > 0
  BY DEF p
<1>4. \A h \in holds : \E k \in holds' : k.provider = h.provider /\ k.n = h.n /\ k.booking = h.booking
  BY <1>3
<1>5. /\ \A x \in Stay : Leading[x] \subseteq Leading'[x]
      /\ Asking' = Asking /\ Chains' = Chains /\ (Providers!Routed' <=> Providers!Routed)
      /\ \A e \in sent' : WebhookAnnounced(e)'
      /\ \A m \in found' : WebhookAnswered(m)'
  <2>1. \A x \in Stay : payment[x] # Providers!NoPayment =>
          payment'[x] # Providers!NoPayment /\ payment'[x].ref = payment[x].ref
    OBVIOUS
  <2> QED BY <1>4, <2>1, GatewaysCarried
<1>6. GatewayType'
  <2>1. holds' \subseteq GatewayHold
    BY <1>1, <1>3, GatewayPlaces DEF GatewayType
  <2> QED BY <1>1, <1>2, <2>1 DEF GatewayType
<1>7. ASSUME NEW x \in Worker PROVE GatewayDelivery(x)'
  <2>1. CASE x = c
    <3>1. rec.op = "create" => rec.ref \in Leading'[b]
      BY <1>1, <1>5, NoRefLeads
    <3>2. payment'[b] # Providers!NoPayment => faulted' > 0 \/ b \in doubled'
      BY <1>1 DEF GatewayDelivery
    <3>3. \A d \in Worker : d # c /\ Working(d)' /\ call'[d].b = b => b \in doubled'
      BY <1>1, <1>2 DEF GatewayDelivery, Working
    <3> QED BY <1>1, <1>2, <1>5, <2>1, <3>1, <3>2, <3>3
            DEF GatewayDelivery, Providers!NoPayment, Providers!NoRef, Working
  <2>2. CASE x # c
    <3>1. ASSUME NEW d \in Worker, d # x, Working(d)' PROVE Working(d) /\ call'[d].b = call[d].b
      BY <1>1, <1>2, <3>1 DEF Working
    <3> QED BY <1>2, <1>5, <2>2, <3>1, GatewayKept
  <2> QED BY <2>1, <2>2
<1>8. ASSUME NEW h \in holds' PROVE HoldRecorded(h)'
  <2>1. \A d \in Worker : call[d].op = "create" => call'[d] = call[d]
    BY <1>2
  <2>2. ASSUME NEW k \in holds, NEW l \in holds', k.provider = l.provider, k.n = l.n
        PROVE k.booking = l.booking
    <3>1. HoldRecorded(k)
      BY DEF GatewaysInv
    <3>2. CASE l \in holds
      BY <2>2, <3>1, <3>2 DEF HoldRecorded
    <3>3. CASE l \notin holds
      <4>1. l \in Providers!Hold(p, b)
        BY <1>3, <3>3
      <4>2. l.provider = p /\ \A j \in holds : j.provider = p => j.n # l.n
        BY <1>1, <3>3, <4>1, GatewayPlaces
      <4> QED BY <2>2, <4>2
    <3> QED BY <3>2, <3>3
  <2>3. CASE h \in holds
    <3>1. HoldRecorded(h)
      BY <2>3 DEF GatewaysInv
    <3>2. \A k \in holds' : h.provider = k.provider /\ h.n = k.n => h.booking = k.booking
      BY <2>2, <2>3
    <3> QED BY <1>5, <2>1, <3>1, <3>2 DEF HoldRecorded, Providers!Names
  <2>4. CASE h \notin holds
    <3>1. /\ h \in Providers!Hold(p, b) /\ holds' = holds \cup {h}
          /\ (rec.op = "create" /\ Providers!Names(rec.ref, h)) \/ faulted' > 0
      BY <1>3, <2>4
    <3>2. h.provider = p /\ h.booking = b
      BY <1>1, <3>1, GatewayPlaces
    <3>3. \A k \in holds' : h.provider = k.provider /\ h.n = k.n => h.booking = k.booking
      BY <2>2, <3>1
    <3>4. \/ \E d \in Worker : call'[d].op = "create" /\ call'[d].b = h.booking /\ Providers!Names(call'[d].ref, h)
          \/ faulted' > 0
      BY <1>2, <3>1, <3>2
    <3> QED BY <1>1, <1>5, <3>2, <3>3, <3>4 DEF HoldRecorded, Providers!Names
  <2> QED BY <2>3, <2>4
<1>9. \A x \in Stay : payment'[x].ref \in Leading'[x]
                     /\ (payment'[x].status = "authorized" => payment'[x].ref # Providers!NoRef)
  BY <1>5 DEF GatewaysInv
<1> QED BY <1>5, <1>6, <1>7, <1>8, <1>9 DEF GatewaysInv, Providers!NoRef

LEMMA GatewayAuthorizeAt ==
  ASSUME GatewaysInv, NEW c \in Worker, Providers!AuthorizeAt(c)
  PROVE GatewaysInv'
<1> DEFINE b == call[c].b
           p == Chains[b][call[c].i]
<1>1. GatewayType /\ GatewayDelivery(c) /\ Working(c) /\ call[c].op = "ask"
  BY DEF GatewaysInv, Working, Providers!AuthorizeAt, Providers!At
<1>2. b \in Stay /\ call[c].i \in 1 .. Len(Chains[b]) /\ call[c].i \in Nat
  BY <1>1 DEF GatewayDelivery, GatewayType, GatewayCall
<1>3. p \in Asking /\ p \in GatewayNames
  BY <1>1, <1>2, GatewaysAsked DEF GatewayType
<1>4. p = Providers!Asked(b)[call[c].i]
  BY <1>2 DEF Chains
<1>5. PICK h \in Providers!Hold(p, b) :
        /\ holds' = holds \cup {h}
        /\ Providers!Goes(c, Providers!Doing("create", b, call[c].i, Providers!Tagged(p, h.n)))
  BY <1>4 DEF Providers!AuthorizeAt
<1>6. UNCHANGED <<setting, rerouted, payment, sent, seen, found, doubled, faulted>>
  BY DEF Providers!AuthorizeAt
<1> HIDE DEF p
<1>7. h \in GatewayHold /\ h.provider = p /\ h.booking = b
  BY <1>1, <1>2, <1>3, GatewayPlaces
<1> DEFINE ref == Providers!Tagged(p, h.n)
           rec == Providers!Doing("create", b, call[c].i, ref)
<1>8. ref.provider = p /\ ref.n = h.n /\ ref.tag = (IF Providers!Routed THEN Providers!Name(p) ELSE "none")
  BY DEF Providers!Tagged
<1>9. ref \in GatewayRef
  <2>1. Providers!Name(p) \in GatewayNames \cup {"fake"} /\ h.n \in Nat
    BY <1>3, <1>7 DEF Providers!Name, GatewayHold
  <2> QED BY <1>3, <2>1 DEF Providers!Tagged, GatewayRef
<1> HIDE DEF ref
<1>10. Asking' = Asking /\ (Providers!Routed' <=> Providers!Routed)
  BY <1>6, GatewaySettings
<1>11. ref \in Leading'[b]
  <2>1. ref.n > 0 /\ Providers!Names(ref, h) /\ h \in holds'
    BY <1>5, <1>7, <1>8 DEF GatewayHold, Providers!Names
  <2> QED BY <1>2, <1>3, <1>7, <1>8, <1>9, <1>10, <2>1 DEF Leading
<1>12. rec \in GatewayCall /\ rec.op = "create" /\ rec.b = b /\ rec.ref = ref
  BY <1>2, <1>9, GatewayDoing
<1>13. Providers!Goes(c, rec)
  BY <1>5 DEF ref
<1> HIDE DEF rec
<1>14. rec.op = "create" /\ Providers!Names(rec.ref, h)
  BY <1>7, <1>8, <1>12 DEF Providers!Names
<1>15. faulted' \in Nat
  BY <1>1, <1>6 DEF GatewayType
<1> QED BY <1>1, <1>5, <1>6, <1>11, <1>12, <1>13, <1>14, <1>15, GatewayAsks DEF p

LEMMA GatewayNext ==
  ASSUME GatewaysInv, NEW c \in Worker, Providers!NextGateway(c)
  PROVE GatewaysInv'
<1> DEFINE b == call[c].b
           p == Chains[b][call[c].i]
           i == call[c].i
           rec == IF i < Len(Chains[b]) THEN Providers!Doing("ask", b, i + 1, Providers!NoRef)
                  ELSE Providers!Doing("create", b, i, Providers!NoRef)
<1>1. GatewayType /\ GatewayDelivery(c) /\ Working(c) /\ call[c].op = "ask"
  BY DEF GatewaysInv, Working, Providers!NextGateway, Providers!At
<1>2. b \in Stay /\ i \in 1 .. Len(Chains[b]) /\ i \in Nat /\ Len(Chains[b]) \in Nat
  BY <1>1, GatewaysAsked DEF GatewayDelivery, GatewayType, GatewayCall
<1>3. Chains[b] = Providers!Asked(b)
  BY <1>2 DEF Chains
<1>4. /\ Providers!Goes(c, rec)
      /\ \/ UNCHANGED <<holds, faulted>>
         \/ Providers!Fault /\ \E h \in Providers!Hold(p, b) : holds' = holds \cup {h}
      /\ UNCHANGED <<setting, rerouted, payment, sent, seen, found, doubled>>
  BY <1>3 DEF Providers!NextGateway
<1>5. /\ rec \in GatewayCall /\ rec.b = b /\ rec.ref = Providers!NoRef /\ rec.op \in {"ask", "create"}
      /\ rec.op = "ask" => rec.i \in 1 .. Len(Chains[b])
  <2>1. Providers!NoRef \in GatewayRef
    BY <1>2, NoRefLeads DEF Leading
  <2>2. CASE i < Len(Chains[b])
    <3>1. i + 1 \in Nat /\ i + 1 \in 1 .. Len(Chains[b])
      BY <1>2, <2>2
    <3> QED BY <1>2, <2>1, <2>2, <3>1, GatewayDoing
  <2>3. CASE ~(i < Len(Chains[b]))
    BY <1>2, <2>1, <2>3, GatewayDoing
  <2> QED BY <2>2, <2>3
<1>6. faulted' \in Nat /\ (faulted > 0 => faulted' > 0) /\ (holds' = holds \/ faulted' > 0)
  BY <1>1, <1>4 DEF Providers!Fault, GatewayType
<1> HIDE DEF rec
<1> QED BY <1>1, <1>4, <1>5, <1>6, GatewayAsks

LEMMA GatewayCreate ==
  ASSUME GatewaysInv, NEW c \in Worker, Providers!CreatePayment(c)
  PROVE GatewaysInv'
<1> DEFINE b == call[c].b
           ref == call[c].ref
           entry == [ref |-> ref, status |-> IF ref = Providers!NoRef THEN "failed" ELSE "authorized"]
<1>1. GatewayType /\ GatewayDelivery(c) /\ Working(c) /\ call[c].op = "create"
  BY DEF GatewaysInv, Working, Providers!CreatePayment, Providers!At
<1>2. b \in Stay /\ ref \in Leading[b] /\ ref \in GatewayRef
  BY <1>1 DEF GatewayDelivery, GatewayType, GatewayCall
<1>3. /\ Providers!Goes(c, Providers!Over)
      /\ \/ payment[b] = Providers!NoPayment /\ payment' = [payment EXCEPT ![b] = entry] /\ UNCHANGED faulted
         \/ payment[b] # Providers!NoPayment /\ UNCHANGED <<payment, faulted>>
         \/ Providers!Fault /\ UNCHANGED payment
      /\ UNCHANGED <<setting, rerouted, holds, sent, seen, found, doubled>>
  BY DEF Providers!CreatePayment
<1>4. Providers!Over \in GatewayCall /\ Providers!Over.op = "over"
  BY <1>2, NoRefLeads, GatewayDoing DEF Providers!Over, Leading
<1>5. call' \in [Worker -> GatewayCall] /\ call'[c].op = "over" /\ \A d \in Worker : d # c => call'[d] = call[d]
  BY <1>1, <1>3, <1>4, GatewayCallTo
<1>6. entry \in GatewayPayment /\ entry.ref = ref /\ (entry.status = "authorized" => ref # Providers!NoRef)
  BY <1>2 DEF GatewayPayment
<1> HIDE DEF entry
<1>7. /\ payment' \in [Stay -> GatewayPayment]
      /\ \A x \in Stay : payment'[x] = payment[x] \/ (x = b /\ payment[b] = Providers!NoPayment /\ payment'[x] = entry)
      /\ faulted' \in Nat /\ (faulted > 0 => faulted' > 0)
      /\ payment'[b] = entry \/ payment[b] # Providers!NoPayment \/ faulted' > 0
  BY <1>1, <1>2, <1>3, <1>6 DEF GatewayType, Providers!Fault
<1>8. Providers!NoPayment.ref = Providers!NoRef /\ Providers!NoRef.n = 0 /\ Providers!NoPayment.status = "none"
  BY DEF Providers!NoPayment, Providers!NoRef
<1>9. entry # Providers!NoPayment
  <2>1. entry.status \in {"failed", "authorized"}
    BY DEF entry
  <2> QED BY <1>8, <2>1
<1>10. /\ \A x \in Stay : Leading[x] \subseteq Leading'[x]
       /\ Asking' = Asking /\ Chains' = Chains /\ (Providers!Routed' <=> Providers!Routed)
       /\ \A e \in sent' : WebhookAnnounced(e)'
       /\ \A m \in found' : WebhookAnswered(m)'
  <2>1. \A x \in Stay : payment[x] # Providers!NoPayment =>
          payment'[x] # Providers!NoPayment /\ payment'[x].ref = payment[x].ref
    BY <1>7, <1>9
  <2> QED BY <1>3, <1>7, <2>1, GatewaysCarried
<1>11. GatewayType'
  BY <1>1, <1>3, <1>5, <1>7 DEF GatewayType
<1>12. ASSUME NEW x \in Worker PROVE GatewayDelivery(x)'
  <2>1. CASE x = c
    BY <1>5, <2>1 DEF GatewayDelivery, Working
  <2>2. CASE x # c
    <3>1. Working(x) => payment'[call[x].b] = payment[call[x].b] \/ call[x].b \in doubled'
      <4>1. GatewayDelivery(x)
        BY DEF GatewaysInv
      <4> QED BY <1>1, <1>3, <1>7, <2>2, <4>1 DEF GatewayDelivery
    <3>2. ASSUME NEW d \in Worker, d # x, Working(d)' PROVE Working(d) /\ call'[d].b = call[d].b
      BY <1>5, <3>2 DEF Working
    <3> QED BY <1>3, <1>5, <1>7, <1>10, <2>2, <3>1, <3>2, GatewayKept
  <2> QED BY <2>1, <2>2
<1>13. ASSUME NEW h \in holds' PROVE HoldRecorded(h)'
  <2>1. HoldRecorded(h) /\ h.n # 0 /\ h.booking \in Stay
    BY <1>1, <1>3 DEF GatewaysInv, GatewayType, GatewayHold
  <2>2. \/ Providers!Names(payment'[h.booking].ref, h)
        \/ \E d \in Worker : call'[d].op = "create" /\ call'[d].b = h.booking /\ Providers!Names(call'[d].ref, h)
        \/ faulted' > 0 \/ h.booking \in doubled'
    <3>1. CASE Providers!Names(payment[h.booking].ref, h)
      <4>1. payment[h.booking] # Providers!NoPayment
        BY <1>8, <2>1, <3>1 DEF Providers!Names
      <4> QED BY <1>7, <2>1, <3>1, <4>1
    <3>2. ASSUME NEW d \in Worker, call[d].op = "create", call[d].b = h.booking, Providers!Names(call[d].ref, h),
                 d # c
          PROVE call'[d].op = "create" /\ call'[d].b = h.booking /\ Providers!Names(call'[d].ref, h)
      BY <1>5, <3>2
    <3>3. CASE b = h.booking /\ Providers!Names(ref, h)
      <4>1. CASE payment'[b] = entry
        BY <1>6, <3>3, <4>1
      <4>2. CASE payment[b] # Providers!NoPayment
        BY <1>1, <1>3, <1>7, <3>3, <4>2 DEF GatewayDelivery
      <4> QED BY <1>7, <4>1, <4>2
    <3>4. faulted > 0 \/ h.booking \in doubled => faulted' > 0 \/ h.booking \in doubled'
      BY <1>3, <1>7
    <3> QED BY <2>1, <3>1, <3>2, <3>3, <3>4 DEF HoldRecorded
  <2> QED BY <1>3, <1>10, <2>1, <2>2 DEF HoldRecorded, Providers!Names
<1>14. \A x \in Stay : payment'[x].ref \in Leading'[x]
                      /\ (payment'[x].status = "authorized" => payment'[x].ref # Providers!NoRef)
  BY <1>2, <1>6, <1>7, <1>10 DEF GatewaysInv
<1> QED BY <1>10, <1>11, <1>12, <1>13, <1>14 DEF GatewaysInv, Providers!NoRef

LEMMA GatewaySettle ==
  ASSUME GatewaysInv, NEW b \in Stay, NEW status \in {"authorized", "captured"}, NEW state,
         NEW to \in {"captured", "refunded"}, Providers!Settle(b, status, state, to)
  PROVE GatewaysInv'
<1>1. GatewayType /\ b \in Stay
  BY DEF GatewaysInv
<1>2. PICK h \in holds :
        /\ payment[b].status = status
        /\ holds' = (holds \ {h}) \cup {[h EXCEPT !.state = to]}
        /\ payment' = [payment EXCEPT ![b].status = to]
        /\ UNCHANGED <<setting, rerouted, call, sent, seen, found, doubled, faulted>>
  BY DEF Providers!Settle, Providers!Resolved
<1> DEFINE after == [h EXCEPT !.state = to]
<1>3. after \in GatewayHold /\ after.provider = h.provider /\ after.n = h.n /\ after.booking = h.booking
  BY <1>1, <1>2 DEF GatewayType, GatewayHold
<1>4. holds' = (holds \ {h}) \cup {after}
  BY <1>2
<1> HIDE DEF after
<1>5. /\ holds' \subseteq GatewayHold
      /\ \A k \in holds : \E l \in holds' : l.provider = k.provider /\ l.n = k.n /\ l.booking = k.booking
      /\ \A l \in holds' : \E k \in holds : l.provider = k.provider /\ l.n = k.n /\ l.booking = k.booking
  BY <1>1, <1>3, <1>4 DEF GatewayType
<1>6. /\ payment' \in [Stay -> GatewayPayment]
      /\ \A x \in Stay : x # b => payment'[x] = payment[x]
      /\ payment'[b].ref = payment[b].ref /\ payment'[b].status = to
  BY <1>1, <1>2 DEF GatewayType, GatewayPayment
<1>7. payment[b] # Providers!NoPayment /\ payment'[b] # Providers!NoPayment
  BY <1>2, <1>6 DEF Providers!NoPayment
<1>8. /\ \A x \in Stay : Leading[x] \subseteq Leading'[x]
      /\ Asking' = Asking /\ Chains' = Chains /\ (Providers!Routed' <=> Providers!Routed)
      /\ \A e \in sent' : WebhookAnnounced(e)'
      /\ \A m \in found' : WebhookAnswered(m)'
  <2>1. \A x \in Stay : payment[x] # Providers!NoPayment =>
          payment'[x] # Providers!NoPayment /\ payment'[x].ref = payment[x].ref
    BY <1>6, <1>7
  <2> QED BY <1>2, <1>5, <2>1, GatewaysCarried
<1>9. GatewayType'
  BY <1>1, <1>2, <1>5, <1>6 DEF GatewayType
<1>10. ASSUME NEW x \in Worker PROVE GatewayDelivery(x)'
  <2>1. GatewayDelivery(x) /\ call' = call /\ doubled' = doubled /\ faulted' = faulted
    BY <1>2 DEF GatewaysInv
  <2>2. \A y \in Stay : payment'[y] # Providers!NoPayment => payment[y] # Providers!NoPayment
    BY <1>6, <1>7
  <2> QED BY <1>8, <2>1, <2>2 DEF GatewayDelivery, Working, Providers!NoPayment, Providers!NoRef
<1>11. ASSUME NEW l \in holds' PROVE HoldRecorded(l)'
  <2>1. PICK k \in holds : l.provider = k.provider /\ l.n = k.n /\ l.booking = k.booking
    BY <1>5
  <2>2. HoldRecorded(k) /\ k.booking \in Stay
    BY <1>1 DEF GatewaysInv, GatewayType, GatewayHold
  <2>3. payment'[k.booking].ref = payment[k.booking].ref
    BY <1>6, <2>2
  <2>4. \A j \in holds' : l.provider = j.provider /\ l.n = j.n => l.booking = j.booking
    <3>1. SUFFICES ASSUME NEW j \in holds', l.provider = j.provider, l.n = j.n PROVE l.booking = j.booking
      OBVIOUS
    <3>2. PICK i \in holds : j.provider = i.provider /\ j.n = i.n /\ j.booking = i.booking
      BY <1>5
    <3> QED BY <2>1, <2>2, <3>1, <3>2 DEF HoldRecorded
  <2> QED BY <1>2, <1>8, <2>1, <2>2, <2>3, <2>4 DEF HoldRecorded, Providers!Names
<1>12. \A x \in Stay : payment'[x].ref \in Leading'[x]
                      /\ (payment'[x].status = "authorized" => payment'[x].ref # Providers!NoRef)
  <2>1. \A x \in Stay : payment[x].ref \in Leading[x]
                       /\ (payment[x].status = "authorized" => payment[x].ref # Providers!NoRef)
    BY DEF GatewaysInv
  <2> QED BY <1>6, <1>8, <2>1
<1> QED BY <1>8, <1>9, <1>10, <1>11, <1>12 DEF GatewaysInv, Providers!NoRef

LEMMA GatewayRestart ==
  ASSUME GatewaysInv, Providers!Restart
  PROVE GatewaysInv'
<1>1. /\ faulted' > 0 /\ faulted' \in Nat /\ GatewayType
      /\ holds' = {h \in holds : h.provider \notin Providers!Fakes}
      /\ call' = [c \in Worker |-> IF Providers!At(c, "idle") THEN Providers!Idle ELSE Providers!Over]
      /\ UNCHANGED <<payment, sent, seen, found, doubled>>
  BY DEF Providers!Restart, Providers!Fault, GatewaysInv, GatewayType
<1>2. PICK r \in Setting : setting' = r /\ rerouted' = (rerouted \/ r # setting)
  BY DEF Providers!Restart
<1>3. ~rerouted' => ~rerouted /\ Asking' = Asking /\ (Providers!Routed' <=> Providers!Routed)
  BY <1>2, GatewaySettings
<1>4. Providers!NoRef \in GatewayRef
  BY DEF GatewayRef, Providers!NoRef
<1>5. /\ Providers!Idle \in GatewayCall /\ Providers!Idle.op = "idle"
      /\ Providers!Over \in GatewayCall /\ Providers!Over.op = "over"
  BY <1>4, GatewayDoing DEF Providers!Idle, Providers!Over
<1>6. GatewayType'
  <2>1. call' \in [Worker -> GatewayCall]
    BY <1>1, <1>5
  <2>2. setting' \in Setting /\ rerouted' \in BOOLEAN
    BY <1>1, <1>2 DEF GatewayType
  <2> QED BY <1>1, <2>1, <2>2 DEF GatewayType
<1>7. \A c \in Worker : GatewayDelivery(c)'
  BY <1>1, <1>5 DEF GatewayDelivery, Working
<1>8. ASSUME NEW h \in holds' PROVE HoldRecorded(h)'
  <2>1. HoldRecorded(h)
    BY <1>1 DEF GatewaysInv
  <2> QED BY <1>1, <1>3, <2>1 DEF HoldRecorded
<1>9. ASSUME NEW e \in sent' PROVE WebhookAnnounced(e)'
  <2>1. WebhookAnnounced(e)
    BY <1>1 DEF GatewaysInv
  <2> QED BY <1>1, <2>1 DEF WebhookAnnounced
<1>10. ASSUME NEW m \in found' PROVE WebhookAnswered(m)'
  <2>1. WebhookAnswered(m)
    BY <1>1 DEF GatewaysInv
  <2> QED BY <1>1, <1>2, <2>1 DEF WebhookAnswered, Providers!NoPayment, Providers!NoRef, Providers!Names
<1>11. ASSUME NEW b \in Stay PROVE payment'[b].ref \in Leading'[b]
  <2> DEFINE ref == payment[b].ref
  <2>1. ref \in Leading[b] /\ payment' = payment
    BY <1>1 DEF GatewaysInv
  <2> HIDE DEF ref
  <2>2. /\ ref \in GatewayRef
        /\ \/ ref = Providers!NoRef
           \/ /\ ref.n > 0
              /\ ~rerouted => /\ ref.provider \in Asking
                              /\ ref.tag = IF Providers!Routed THEN Providers!Name(ref.provider) ELSE "none"
              /\ \/ \E h \in holds : Providers!Names(ref, h) /\ h.booking = b
                 \/ ref.provider \in Providers!Fakes /\ faulted > 0
    BY <2>1 DEF Leading
  <2>3. (\E h \in holds : Providers!Names(ref, h) /\ h.booking = b) =>
          \/ \E h \in holds' : Providers!Names(ref, h) /\ h.booking = b
          \/ ref.provider \in Providers!Fakes /\ faulted' > 0
    BY <1>1 DEF Providers!Names
  <2>4. /\ ref \in GatewayRef
        /\ \/ ref = Providers!NoRef
           \/ /\ ref.n > 0
              /\ ~rerouted' => /\ ref.provider \in Asking'
                               /\ ref.tag = IF Providers!Routed' THEN Providers!Name(ref.provider) ELSE "none"
              /\ \/ \E h \in holds' : Providers!Names(ref, h) /\ h.booking = b
                 \/ ref.provider \in Providers!Fakes /\ faulted' > 0
    BY <1>1, <1>3, <2>2, <2>3
  <2>5. ref \in Leading'[b]
    BY <2>4 DEF Leading
  <2> QED BY <2>1, <2>5 DEF ref
<1>12. \A b \in Stay : payment'[b].status = "authorized" => payment'[b].ref # Providers!NoRef
  BY <1>1 DEF GatewaysInv
<1> QED BY <1>6, <1>7, <1>8, <1>9, <1>10, <1>11, <1>12 DEF GatewaysInv, Providers!NoRef

\* A step of the webhooks leaves the rows and the holds alone.
LEMMA GatewayQuiet ==
  ASSUME GatewaysInv, UNCHANGED <<setting, rerouted, holds, payment, call, doubled>>,
         faulted' \in Nat, faulted > 0 => faulted' > 0, sent' \subseteq GatewayEvent,
         \A e \in sent' : WebhookAnnounced(e),
         \A m \in found' : m.e \in sent' /\ WebhookAnswered(m)
  PROVE GatewaysInv'
<1>1. /\ GatewayType /\ \A c \in Worker : GatewayDelivery(c)
      /\ \A h \in holds : HoldRecorded(h)
      /\ \A b \in Stay : payment[b].ref \in Leading[b]
                         /\ (payment[b].status = "authorized" => payment[b].ref # Providers!NoRef)
  BY DEF GatewaysInv
<1>2. \A h \in holds : \E k \in holds' : k.provider = h.provider /\ k.n = h.n /\ k.booking = h.booking
  OBVIOUS
<1>3. /\ \A x \in Stay : Leading[x] \subseteq Leading'[x]
      /\ Asking' = Asking /\ Chains' = Chains
  BY <1>2, LeadingGrows, GatewaySettings
<1>4. GatewayType'
  BY <1>1 DEF GatewayType
<1>5. \A c \in Worker : GatewayDelivery(c)'
  BY <1>1, <1>3 DEF GatewayDelivery, Working, Providers!NoPayment, Providers!NoRef
<1>6. \A h \in holds' : HoldRecorded(h)'
  BY <1>1, <1>3 DEF HoldRecorded, Providers!Names
<1>7. (\A e \in sent' : WebhookAnnounced(e)') /\ \A m \in found' : WebhookAnswered(m)'
  BY DEF WebhookAnnounced, WebhookAnswered, Providers!NoPayment, Providers!NoRef, Providers!Names
<1>8. \A b \in Stay : payment'[b].ref \in Leading'[b]
                      /\ (payment'[b].status = "authorized" => payment'[b].ref # Providers!NoRef)
  BY <1>1, <1>3
<1> QED BY <1>4, <1>5, <1>6, <1>7, <1>8 DEF GatewaysInv, Providers!NoRef

\* Until the settings change, the reference of a payment that a webhook names is that of
\* its hold, and that hold is the one the webhook is about.
LEMMA WebhookNames ==
  ASSUME GatewaysInv, ~rerouted, NEW e \in sent, NEW b \in Stay,
         b \in Providers!Named(e) \/ b \in Providers!Bare(e)
  PROVE b = e.booking
<1> DEFINE ref == payment[b].ref
           p == ref.provider
<1>1. GatewayType /\ WebhookAnnounced(e) /\ ref \in Leading[b] /\ e \in GatewayEvent
  BY DEF GatewaysInv, GatewayType
<1>2. PICK h \in holds : h.provider = e.provider /\ h.n = e.n /\ h.booking = e.booking
  BY <1>1 DEF WebhookAnnounced
<1>3. HoldRecorded(h) /\ e.provider \in Asking /\ e.provider \notin Providers!Fakes /\ e.n # 0
  <2>1. HoldRecorded(h) /\ h \in GatewayHold
    BY <1>1 DEF GatewaysInv, GatewayType
  <2>2. e.n # 0 /\ e.provider \notin Providers!Fakes
    BY <1>1 DEF WebhookAnnounced, GatewayEvent
  <2> QED BY <1>2, <2>1, <2>2 DEF HoldRecorded
<1>4. ref.n = e.n /\ ref # Providers!NoRef /\ (ref.tag = e.provider \/ ref.tag = "none")
  BY <1>3 DEF Providers!Named, Providers!Bare, Providers!NoRef
<1>5. /\ p \in Asking /\ ref.tag = (IF Providers!Routed THEN Providers!Name(p) ELSE "none")
      /\ \/ \E k \in holds : Providers!Names(ref, k) /\ k.booking = b
         \/ p \in Providers!Fakes
  BY <1>1, <1>4 DEF Leading
<1> HIDE DEF ref, p
<1>6. p = e.provider
  <2>1. CASE Providers!Routed
    <3>1. Providers!Name(p) # "none" /\ (p \notin Providers!Fakes => Providers!Name(p) = p)
      BY <1>5, <2>1, GatewaysNamed
    <3>2. e.provider # "fake"
      <4>1. e.provider \in {"fake, domestic", "fake, foreign", "gpayangola", "appypay", "stripe"}
        BY <1>3, <2>1, GatewaysNamed
      <4> QED BY <4>1
    <3>3. p \in Providers!Fakes => Providers!Name(p) = "fake"
      BY DEF Providers!Name
    <3> QED BY <1>4, <1>5, <2>1, <3>1, <3>2, <3>3
  <2>2. CASE ~Providers!Routed
    BY <1>3, <1>5, <2>2 DEF Asking
  <2> QED BY <2>1, <2>2
<1>7. PICK k \in holds : Providers!Names(ref, k) /\ k.booking = b
  BY <1>3, <1>5, <1>6
<1>8. k.provider = h.provider /\ k.n = h.n
  BY <1>2, <1>4, <1>6, <1>7 DEF Providers!Names, p
<1> QED BY <1>2, <1>3, <1>7, <1>8 DEF HoldRecorded

\* And it names the payment of its hold once that payment has the reference.
LEMMA WebhookIsNamed ==
  ASSUME GatewaysInv, ~rerouted, NEW e \in sent, Providers!Names(payment[e.booking].ref, e)
  PROVE e.booking \in Providers!Candidates(e)
<1> DEFINE b == e.booking
           ref == payment[b].ref
<1>1. WebhookAnnounced(e) /\ e \in GatewayEvent
  BY DEF GatewaysInv, GatewayType
<1>2. b \in Stay /\ e.n # 0 /\ e.provider \notin Providers!Fakes
  BY <1>1 DEF GatewayEvent, WebhookAnnounced
<1>3. ref \in Leading[b] /\ ref.provider = e.provider /\ ref.n = e.n
  BY <1>2 DEF GatewaysInv, Providers!Names
<1>4. ref # Providers!NoRef
  BY <1>2, <1>3 DEF Providers!NoRef
<1>5. /\ e.provider \in Asking
      /\ ref.tag = (IF Providers!Routed THEN Providers!Name(e.provider) ELSE "none")
  BY <1>2, <1>3, <1>4 DEF Leading
<1>6. CASE Providers!Routed
  <2>1. ref.tag = e.provider
    BY <1>2, <1>5, <1>6, GatewaysNamed
  <2>2. b \in Providers!Named(e)
    BY <1>2, <1>3, <2>1 DEF Providers!Named
  <2> QED BY <2>2 DEF Providers!Candidates
<1>7. CASE ~Providers!Routed
  <2>1. ref.tag = "none"
    BY <1>5, <1>7
  <2>2. b \in Providers!Bare(e)
    BY <1>2, <1>3, <1>4, <2>1 DEF Providers!Bare
  <2>3. CASE Providers!Named(e) = {}
    BY <2>2, <2>3 DEF Providers!Candidates
  <2>4. CASE Providers!Named(e) # {}
    <3>1. PICK x \in Stay : x \in Providers!Named(e)
      BY <2>4 DEF Providers!Named
    <3>2. x = b
      BY <3>1, WebhookNames
    <3> QED BY <2>4, <3>1, <3>2 DEF Providers!Candidates
  <2> QED BY <2>3, <2>4
<1> QED BY <1>6, <1>7

LEMMA GatewayHandle ==
  ASSUME GatewaysAssumption, GatewaysInv, NEW e \in sent, Providers!Handle(e)
  PROVE GatewaysInv'
<1>1. /\ GatewayType /\ e \in GatewayEvent /\ e.booking \in Stay
      /\ \A m \in found : m.e \in sent /\ WebhookAnswered(m)
      /\ \A d \in sent : WebhookAnnounced(d)
  BY DEF GatewaysInv, GatewayType, GatewayEvent
<1>2. /\ UNCHANGED <<setting, rerouted, holds, payment, call, sent, doubled>>
      /\ faulted' \in Nat /\ (faulted > 0 => faulted' > 0)
  BY <1>1 DEF Providers!Handle, Providers!Fault, GatewayType
<1>3. \/ Providers!Candidates(e) = {}
         /\ found' = found \cup {[e |-> e, b |-> "none", known |-> payment[e.booking] # Providers!NoPayment]}
      \/ Providers!Candidates(e) # {}
         /\ found' = found \cup {[e |-> e, b |-> b, known |-> TRUE] : b \in Providers!Candidates(e)}
  BY DEF Providers!Handle
<1>4. ASSUME NEW m \in found' PROVE m.e \in sent' /\ WebhookAnswered(m)
  <2>1. CASE m \in found
    BY <1>1, <1>2, <2>1
  <2>2. CASE /\ Providers!Candidates(e) = {}
             /\ m = [e |-> e, b |-> "none", known |-> payment[e.booking] # Providers!NoPayment]
    <3>1. m.e = e /\ m.b = "none" /\ (m.known <=> payment[e.booking] # Providers!NoPayment)
      BY Zenon, <2>2
    <3>2. rerouted \/ ~Providers!Names(payment[e.booking].ref, e)
      BY <2>2, WebhookIsNamed
    <3> QED BY <1>2, <3>1, <3>2 DEF WebhookAnswered
  <2>3. CASE \E b \in Providers!Candidates(e) : m = [e |-> e, b |-> b, known |-> TRUE]
    <3>1. PICK b \in Providers!Candidates(e) : m = [e |-> e, b |-> b, known |-> TRUE]
      BY <2>3
    <3>2. m.e = e /\ m.b = b
      BY <3>1
    <3>3. b \in Stay /\ (b \in Providers!Named(e) \/ b \in Providers!Bare(e))
      BY <3>1 DEF Providers!Candidates, Providers!Named, Providers!Bare
    <3>4. rerouted \/ b = e.booking
      BY <3>3, WebhookNames
    <3>5. b # "none"
      BY <3>3 DEF GatewaysAssumption
    <3> QED BY <1>2, <3>2, <3>4, <3>5 DEF WebhookAnswered
  <2> QED BY <1>3, <2>1, <2>2, <2>3
<1>5. sent' \subseteq GatewayEvent /\ \A d \in sent' : WebhookAnnounced(d)
  BY <1>1, <1>2 DEF GatewayType
<1> QED BY <1>2, <1>4, <1>5, GatewayQuiet

LEMMA GatewayAnnounce ==
  ASSUME GatewaysInv, NEW h \in holds, Providers!Announce(h)
  PROVE GatewaysInv'
<1> DEFINE e == [provider |-> h.provider, n |-> h.n, booking |-> h.booking]
<1>1. /\ GatewayType
      /\ \A m \in found : m.e \in sent /\ WebhookAnswered(m)
      /\ \A d \in sent : WebhookAnnounced(d)
  BY DEF GatewaysInv, GatewayType
<1>2. /\ h.provider \notin Providers!Fakes /\ sent' = sent \cup {e}
      /\ UNCHANGED <<setting, rerouted, holds, payment, call, found, doubled, faulted>>
  BY DEF Providers!Announce
<1>3. e \in GatewayEvent /\ WebhookAnnounced(e)
  BY <1>1, <1>2 DEF GatewayType, GatewayHold, GatewayEvent, WebhookAnnounced
<1> HIDE DEF e
<1>4. /\ sent' \subseteq GatewayEvent /\ \A d \in sent' : WebhookAnnounced(d)
      /\ \A m \in found' : m.e \in sent' /\ WebhookAnswered(m)
      /\ faulted' \in Nat
  BY <1>1, <1>2, <1>3 DEF GatewayType
<1> QED BY <1>2, <1>4, GatewayQuiet

LEMMA GatewaysStep ==
  ASSUME GatewaysAssumption, GatewaysInv, [Providers!Next]_(Providers!gatewayVars)
  PROVE GatewaysInv'
<1>1. /\ GatewayType
      /\ \A m \in found : m.e \in sent /\ WebhookAnswered(m)
      /\ \A d \in sent : WebhookAnnounced(d)
      /\ faulted \in Nat /\ sent \subseteq GatewayEvent
  BY DEF GatewaysInv, GatewayType
<1>2. CASE Providers!Cleanup \/ UNCHANGED Providers!gatewayVars
  <2>1. UNCHANGED <<setting, rerouted, holds, payment, call, sent, found, doubled, faulted>>
    BY <1>2 DEF Providers!Cleanup, Providers!gatewayVars
  <2> QED BY <1>1, <2>1, GatewayQuiet
<1>3. CASE Providers!Restart
  BY <1>3, GatewayRestart
<1>4. ASSUME NEW h \in holds, Providers!Announce(h) PROVE GatewaysInv'
  BY <1>4, GatewayAnnounce
<1>5. ASSUME NEW e \in sent, Providers!Handle(e) PROVE GatewaysInv'
  BY <1>5, GatewayHandle
<1>6. ASSUME NEW b \in Stay, Providers!Capture(b) \/ Providers!Refund(b) PROVE GatewaysInv'
  BY <1>6, GatewaySettle DEF Providers!Capture, Providers!Refund
<1>7. ASSUME NEW b \in Stay, NEW c \in Worker, Providers!Authorize(c, b) PROVE GatewaysInv'
  BY <1>7, GatewayAuthorize
<1>8. ASSUME NEW c \in Worker,
             Providers!AuthorizeAt(c) \/ Providers!NextGateway(c) \/ Providers!CreatePayment(c)
      PROVE GatewaysInv'
  BY <1>8, GatewayAuthorizeAt, GatewayNext, GatewayCreate
<1> QED BY <1>2, <1>3, <1>4, <1>5, <1>6, <1>7, <1>8 DEF Providers!Next

LEMMA GatewaysMeans == ASSUME GatewaysInv PROVE Providers!GatewaysAreExplained
<1>1. GatewayType
  BY DEF GatewaysInv
<1>2. Providers!HoldsAreOnRecord
  <2>1. \A h \in holds : HoldRecorded(h)
    BY DEF GatewaysInv
  <2> QED BY <2>1 DEF Providers!HoldsAreOnRecord, HoldRecorded, Providers!At
<1>3. Providers!WebhooksFindTheirs
  <2>1. \A m \in found : WebhookAnswered(m)
    BY DEF GatewaysInv
  <2> QED BY <2>1 DEF Providers!WebhooksFindTheirs, WebhookAnswered
<1>4. Providers!HoldsCanBeReached
  <2>1. SUFFICES ASSUME NEW b \in Stay, payment[b].status = "authorized", ~rerouted,
                        ~(payment[b].ref.provider \in Providers!Fakes /\ faulted > 0),
                        ~(payment[b].ref.provider = "fake, domestic" /\ Providers!Foreign = <<"fake, foreign">>)
                 PROVE \E h \in Providers!Resolved(payment[b].ref) :
                         Providers!Names(payment[b].ref, h) /\ h.booking = b
    BY DEF Providers!HoldsCanBeReached
  <2> DEFINE ref == payment[b].ref
  <2>2. ref \in Leading[b] /\ ref # Providers!NoRef
    BY <2>1 DEF GatewaysInv
  <2>3. /\ ref.provider \in Asking
        /\ ref.tag = IF Providers!Routed THEN Providers!Name(ref.provider) ELSE "none"
    BY <2>1, <2>2 DEF Leading
  <2>4. PICK h \in holds : Providers!Names(ref, h) /\ h.booking = b
    BY <2>1, <2>2 DEF Leading
  <2>5. h.provider = ref.provider /\ h.n = ref.n
    BY <2>4 DEF Providers!Names
  <2>6. CASE Providers!Routed
    <3>1. ref.provider \in Providers!ByName(ref.tag)
      BY <2>1, <2>3, <2>6, GatewaysNamed
    <3> QED BY <2>4, <2>5, <2>6, <3>1 DEF Providers!Resolved
  <2>7. CASE ~Providers!Routed
    <3>1. ref.provider = Providers!Only /\ ref.tag = "none"
      BY <2>3, <2>7 DEF Asking
    <3> QED BY <2>4, <2>5, <2>7, <3>1 DEF Providers!Resolved
  <2> QED BY <2>6, <2>7
<1> QED BY <1>2, <1>3, <1>4 DEF Providers!GatewaysAreExplained

-----------------------------------------------------------------------------
(* Share links and answers.  A token belongs to one wishlist: its link, the   *)
(* links its owner was given and the token a share is about to write.         *)

BrowsingAssumption == {"no", "bucket", "none"} \cap Collection = {}

VisitShape ==
  /\ DOMAIN call = Call
  /\ \A c \in Call : DOMAIN call[c] = DOMAIN Visits!Idle /\ call[c].old \in BOOLEAN
  /\ DOMAIN place = Wish /\ \A l \in Wish : DOMAIN place[l] = DOMAIN Visits!Gone
  /\ DOMAIN saved = Wish
  /\ DOMAIN shelf = Collection /\ DOMAIN told = Collection

Sharing(c) == call[c].op = "share"

LinkTokens ==
  /\ made \in Nat /\ made >= 1
  /\ \A k \in Collection : shelf[k] \in Nat /\ shelf[k] <= made
  /\ \A k \in Collection : \A t \in told[k] : t \in Nat /\ 2 <= t /\ t <= made
  /\ \A t \in withdrawn : t \in Nat /\ 2 <= t /\ t <= made
  /\ \A c \in Call : Sharing(c) =>
       call[c].k \in Collection /\ call[c].token \in Nat /\ 2 <= call[c].token /\ call[c].token <= made

LinksApart ==
  /\ \A j, k \in Collection : j # k /\ shelf[j] = shelf[k] => shelf[j] < 2
  /\ \A c \in Call, k \in Collection : Sharing(c) /\ k # call[c].k => shelf[k] # call[c].token
  /\ \A c, d \in Call : Sharing(c) /\ Sharing(d) /\ call[c].k # call[d].k => call[c].token # call[d].token

\* A share that nothing has overtaken writes the link that is there, or a new one.
ShareIsFresh(c) ==
  Sharing(c) /\ call[c].old = FALSE =>
    \/ shelf[call[c].k] = call[c].token
    \/ shelf[call[c].k] = 1 /\ call[c].token \notin withdrawn

LinksInv ==
  /\ LinkTokens /\ LinksApart /\ (\A c \in Call : ShareIsFresh(c)) /\ Visits!LinksAreExplained

\* The favourites a page of wishlist k lists, or of all of them.
Filed(k, s) == {l \in Wish : IF k = "none" THEN s[l] # "no" ELSE s[l] = k}
Found == {l \in Wish : Visits!Matches(l)}

SavedInv ==
  \A l \in Wish :
    /\ saved[l] \in Collection => shelf[saved[l]] # 0
    /\ saved[l] # "no" => place[l].status # "gone"

\* What a visitor was told is so while nothing has changed.
AnswerAddsUp(c) ==
  /\ call[c].op = "page" => call[c].k \in Collection \cup {"none"}
  /\ call[c].old = FALSE =>
       /\ call[c].op = "select" => call[c].total = Visits!Cardinality(Found)
       /\ call[c].op = "page" => call[c].total = Visits!Cardinality(Filed(call[c].k, saved))
       /\ call[c].op = "answered" => call[c].total = Visits!Cardinality(call[c].shown)

BrowsingInv == VisitShape /\ LinksInv /\ SavedInv /\ \A c \in Call : AnswerAddsUp(c)

LEMMA BrowsingInit == ASSUME BrowsingAssumption, Visits!Init PROVE BrowsingInv
<1>1. \A c \in Call : call[c] = Visits!Idle
  BY DEF Visits!Init
<1>2. Visits!Idle.op = "idle" /\ Visits!Idle.old = FALSE
  BY DEF Visits!Idle
<1>3. /\ \A k \in Collection : shelf[k] = 0 /\ told[k] = {}
      /\ \A l \in Wish : saved[l] = "no" /\ place[l] = [status |-> "draft", taken |-> FALSE]
      /\ made = 1 /\ withdrawn = {}
  BY DEF Visits!Init, Visits!Absent, Visits!Private
<1>4. VisitShape
  BY <1>1, <1>2, <1>3 DEF VisitShape, Visits!Init, Visits!Gone
<1>5. LinksInv
  <2>1. LinkTokens
    BY <1>1, <1>2, <1>3 DEF LinkTokens, Sharing
  <2>2. LinksApart
    BY <1>1, <1>2, <1>3 DEF LinksApart, Sharing
  <2>3. Visits!LinksAreExplained
    BY <1>3 DEF Visits!LinksAreExplained
  <2> QED BY <1>1, <1>2, <2>1, <2>2, <2>3 DEF LinksInv, ShareIsFresh, Sharing
<1>6. SavedInv
  BY <1>3 DEF SavedInv, BrowsingAssumption
<1>7. \A c \in Call : AnswerAddsUp(c)
  BY <1>1, <1>2 DEF AnswerAddsUp
<1> QED BY <1>4, <1>5, <1>6, <1>7 DEF BrowsingInv

\* The record of a call but for what has overtaken it.
LEMMA VisitRecord ==
  ASSUME NEW rec, DOMAIN rec = DOMAIN Visits!Idle, NEW v \in BOOLEAN
  PROVE  /\ [rec EXCEPT !.old = v].old = v /\ [rec EXCEPT !.old = v].op = rec.op
         /\ [rec EXCEPT !.old = v].k = rec.k /\ [rec EXCEPT !.old = v].token = rec.token
         /\ [rec EXCEPT !.old = v].total = rec.total /\ [rec EXCEPT !.old = v].shown = rec.shown
         /\ DOMAIN [rec EXCEPT !.old = v] = DOMAIN Visits!Idle
BY DEF Visits!Idle

-----------------------------------------------------------------------------
(* The links.                                                                *)

\* A call that shares is as it was, or has been overtaken.
ShareStays(c) ==
  call'[c].op = "share" =>
    /\ Sharing(c) /\ call'[c].k = call[c].k /\ call'[c].token = call[c].token
    /\ call'[c].old = FALSE => call[c].old = FALSE

LEMMA LinksStay ==
  ASSUME LinksInv, UNCHANGED <<shelf, made, told, withdrawn, excused>>, \A c \in Call : ShareStays(c)
  PROVE  LinksInv'
<1>1. LinkTokens'
  BY DEF LinksInv, LinkTokens, ShareStays, Sharing
<1>2. LinksApart'
  BY DEF LinksInv, LinksApart, ShareStays, Sharing
<1>3. \A c \in Call : ShareIsFresh(c)'
  BY DEF LinksInv, ShareIsFresh, ShareStays, Sharing
<1>4. Visits!LinksAreExplained'
  BY DEF LinksInv, Visits!LinksAreExplained
<1> QED BY <1>1, <1>2, <1>3, <1>4 DEF LinksInv

\* A wishlist is made, deleted, or its link withdrawn: every share of it is overtaken.
LEMMA LinkGoes ==
  ASSUME VisitShape, LinksInv, NEW k \in Collection, NEW v \in {0, 1},
         shelf' = [shelf EXCEPT ![k] = v], UNCHANGED <<made, told, excused>>,
         withdrawn' = withdrawn \cup ({shelf[k]} \ {0, 1}),
         \A c \in Call : ShareStays(c) /\ (call'[c].op = "share" /\ call[c].k = k => call'[c].old # FALSE)
  PROVE  LinksInv'
<1>0. \A c \in Call : call'[c].op = "share" =>
        call[c].op = "share" /\ call'[c].k = call[c].k /\ call'[c].token = call[c].token
  BY DEF ShareStays, Sharing
<1>1. /\ \A j \in Collection : shelf'[j] = IF j = k THEN v ELSE shelf[j]
      /\ \A t \in withdrawn' : t \in withdrawn \/ (t = shelf[k] /\ t >= 2)
  BY DEF VisitShape, LinksInv, LinkTokens
<1>2. LinkTokens'
  <2>1. LinkTokens
    BY DEF LinksInv
  <2>2. \A j \in Collection : shelf'[j] \in Nat /\ shelf'[j] <= made
    BY <1>1, <2>1 DEF LinkTokens
  <2>3. \A t \in withdrawn' : t \in Nat /\ 2 <= t /\ t <= made
    BY <1>1, <2>1 DEF LinkTokens
  <2>4. \A c \in Call : call'[c].op = "share" =>
          /\ call'[c].k \in Collection /\ call'[c].token \in Nat
          /\ 2 <= call'[c].token /\ call'[c].token <= made
    BY <2>1 DEF LinkTokens, ShareStays, Sharing
  <2> QED BY <2>1, <2>2, <2>3, <2>4 DEF LinkTokens, Sharing
<1>3. LinksApart'
  <2>1. LinksApart /\ LinkTokens
    BY DEF LinksInv
  <2>2. \A i, j \in Collection : i # j /\ shelf'[i] = shelf'[j] => shelf'[i] < 2
    BY <1>1, <2>1 DEF LinksApart
  <2>3. ASSUME NEW c \in Call, NEW j \in Collection, Sharing(c)', j # call'[c].k
        PROVE shelf'[j] # call'[c].token
    <3>1. /\ call[c].op = "share" /\ call'[c].k = call[c].k /\ call'[c].token = call[c].token
          /\ call[c].token >= 2 /\ call[c].token \in Nat
      BY <1>0, <2>1, <2>3 DEF Sharing, LinkTokens
    <3>2. shelf[j] # call[c].token
      BY <2>1, <2>3, <3>1 DEF LinksApart, Sharing
    <3> QED BY <1>1, <3>1, <3>2
  <2>4. \A c, d \in Call : Sharing(c)' /\ Sharing(d)' /\ call'[c].k # call'[d].k
          => call'[c].token # call'[d].token
    BY <1>0, <2>1 DEF LinksApart, Sharing
  <2> QED BY <2>2, <2>3, <2>4 DEF LinksApart
<1>4. ASSUME NEW c \in Call PROVE ShareIsFresh(c)'
  <2> SUFFICES ASSUME call'[c].op = "share", call'[c].old = FALSE
      PROVE \/ shelf'[call'[c].k] = call'[c].token
            \/ shelf'[call'[c].k] = 1 /\ call'[c].token \notin withdrawn'
    BY DEF ShareIsFresh, Sharing
  <2>1. /\ Sharing(c) /\ call'[c].k = call[c].k /\ call'[c].token = call[c].token
        /\ call[c].old = FALSE /\ call[c].k # k /\ call[c].k \in Collection
    BY DEF ShareStays, LinksInv, LinkTokens
  <2>2. shelf[k] # call[c].token /\ ShareIsFresh(c)
    BY <2>1 DEF LinksInv, LinksApart
  <2> QED BY <1>1, <2>1, <2>2 DEF ShareIsFresh
<1>5. ASSUME NEW j \in Collection
      PROVE  /\ shelf'[j] \in withdrawn' => shelf'[j] \in excused'
             /\ told'[j] \subseteq {shelf'[j]} \cup withdrawn' \cup excused'
  <2>1. CASE j = k
    <3>1. shelf'[j] = v /\ v \notin withdrawn'
      BY <1>1, <1>2, <2>1 DEF LinkTokens
    <3>2. \A t \in told[k] : t \in {shelf[k]} \cup withdrawn \cup excused /\ t >= 2
      BY DEF LinksInv, LinkTokens, Visits!LinksAreExplained
    <3> QED BY <2>1, <3>1, <3>2
  <2>2. CASE j # k
    <3>1. shelf'[j] = shelf[j] /\ (shelf[j] = shelf[k] => shelf[k] < 2)
      BY <1>1, <2>2 DEF LinksInv, LinksApart
    <3>2. /\ shelf[j] \in withdrawn => shelf[j] \in excused
          /\ told[j] \subseteq {shelf[j]} \cup withdrawn \cup excused
      BY DEF LinksInv, Visits!LinksAreExplained
    <3>3. shelf[k] \in Nat
      BY DEF LinksInv, LinkTokens
    <3> QED BY <1>1, <3>1, <3>2, <3>3
  <2> QED BY <2>1, <2>2
<1> QED BY <1>2, <1>3, <1>4, <1>5 DEF LinksInv, Visits!LinksAreExplained

LEMMA ShareKeepsLinks ==
  ASSUME VisitShape, LinksInv, NEW c \in Call, NEW k \in Collection, Visits!ShareCollection(c, k)
  PROVE  LinksInv'
<1> DEFINE t == Visits!Share(shelf[k])
           rec == [Visits!Idle EXCEPT !.op = "share", !.k = k, !.token = t]
<1>1. /\ shelf[k] # 0 /\ UNCHANGED <<shelf, told, withdrawn, excused>>
      /\ made' = (IF t > made THEN t ELSE made) /\ call' = [call EXCEPT ![c] = rec]
  BY DEF Visits!ShareCollection, Visits!Goes, Visits!Absent
<1>2. rec.op = "share" /\ rec.k = k /\ rec.token = t
  BY DEF Visits!Idle
<1>3. /\ \A d \in Call : call'[d] = IF d = c THEN rec ELSE call[d]
  BY <1>1 DEF VisitShape
<1>4. \/ t = shelf[k] /\ t >= 2 /\ made' = made
      \/ shelf[k] = 1 /\ t = made + 1 /\ made' = t
  BY <1>1 DEF Visits!Share, Visits!Private, LinksInv, LinkTokens
<1> HIDE DEF t, rec
<1>5. made \in Nat /\ made >= 1 /\ t \in Nat /\ t >= 2 /\ t <= made' /\ made <= made' /\ made' \in Nat
  BY <1>4 DEF LinksInv, LinkTokens
<1>6. LinkTokens'
  BY <1>1, <1>2, <1>3, <1>5 DEF LinksInv, LinkTokens, Sharing
<1>7. \A j \in Collection : j # k => shelf[j] # t
  BY <1>4, <1>5 DEF LinksInv, LinksApart, LinkTokens
<1>8. \A d \in Call : Sharing(d) /\ call[d].k # k => call[d].token # t
  BY <1>4, <1>5 DEF LinksInv, LinksApart, LinkTokens
<1>9. LinksApart'
  <2>1. \A i, j \in Collection : i # j /\ shelf'[i] = shelf'[j] => shelf'[i] < 2
    BY <1>1 DEF LinksInv, LinksApart
  <2>2. ASSUME NEW d \in Call, NEW j \in Collection, Sharing(d)', j # call'[d].k
        PROVE shelf'[j] # call'[d].token
    BY <1>1, <1>2, <1>3, <1>7, <2>2 DEF LinksInv, LinksApart, Sharing
  <2>3. ASSUME NEW d \in Call, NEW e \in Call, Sharing(d)', Sharing(e)', call'[d].k # call'[e].k
        PROVE call'[d].token # call'[e].token
    BY <1>2, <1>3, <1>8, <2>3 DEF LinksInv, LinksApart, Sharing
  <2> QED BY <2>1, <2>2, <2>3 DEF LinksApart
<1>10. t = shelf[k] \/ (shelf[k] = 1 /\ t \notin withdrawn)
  BY <1>4, <1>5 DEF LinksInv, LinkTokens
<1>11. \A d \in Call : ShareIsFresh(d)'
  BY <1>1, <1>2, <1>3, <1>10 DEF LinksInv, ShareIsFresh, Sharing
<1> QED BY <1>1, <1>6, <1>9, <1>11 DEF LinksInv, Visits!LinksAreExplained

LEMMA SetTokenKeepsLinks ==
  ASSUME VisitShape, LinksInv, NEW c \in Call, Visits!SetCollectionShareToken(c)
  PROVE  LinksInv'
<1> DEFINE k == call[c].k
           t == call[c].token
<1>1. /\ Sharing(c) /\ k \in Collection /\ t \in Nat /\ 2 <= t /\ t <= made
      /\ UNCHANGED <<made, withdrawn>>
  BY DEF Visits!SetCollectionShareToken, Visits!At, Sharing, LinksInv, LinkTokens
<1>2. DOMAIN call = Call /\ Visits!Over.op = "over" /\ Visits!Over.k = "none"
  BY DEF VisitShape, Visits!Over, Visits!Idle
<1>3. CASE shelf[k] = 0
  <2>1. call' = [call EXCEPT ![c] = Visits!Over] /\ UNCHANGED <<shelf, told, excused>>
    BY <1>3 DEF Visits!SetCollectionShareToken, Visits!Goes, Visits!Absent
  <2>2. \A d \in Call : ShareStays(d)
    BY <1>2, <2>1 DEF ShareStays, Sharing
  <2> QED BY <1>1, <2>1, <2>2, LinksStay
<1>4. CASE shelf[k] # 0
  <2> DEFINE next == [call EXCEPT ![c] = Visits!Over]
  <2>1. /\ shelf' = [shelf EXCEPT ![k] = t] /\ told' = [told EXCEPT ![k] = @ \cup {t}]
        /\ excused' = (IF call[c].old THEN excused \cup {t, shelf[k]} ELSE excused)
        /\ call' = (IF shelf[k] = t THEN next
                    ELSE [d \in Call |-> IF next[d].k = k THEN [next[d] EXCEPT !.old = TRUE]
                                         ELSE next[d]])
    BY <1>4 DEF Visits!SetCollectionShareToken, Visits!Absent
  <2>2. \A d \in Call : next[d] = IF d = c THEN Visits!Over ELSE call[d]
    BY <1>2
  <2> HIDE DEF next
  <2>3. \A d \in Call : /\ ShareStays(d)
                        /\ call'[d].op = "share" /\ call[d].k = k /\ shelf[k] # t => call'[d].old = TRUE
    <3>1. CASE shelf[k] = t
      BY <1>2, <2>1, <2>2, <3>1 DEF ShareStays, Sharing
    <3>2. CASE shelf[k] # t
      <4>1. ASSUME NEW d \in Call, d # c
            PROVE  /\ ShareStays(d)
                   /\ call'[d].op = "share" /\ call[d].k = k => call'[d].old = TRUE
        <5>1. call'[d] = IF call[d].k = k THEN [call[d] EXCEPT !.old = TRUE] ELSE call[d]
          BY <2>1, <2>2, <3>2, <4>1
        <5>2. DOMAIN call[d] = DOMAIN Visits!Idle
          BY DEF VisitShape
        <5>3. [call[d] EXCEPT !.old = TRUE].old = TRUE /\ [call[d] EXCEPT !.old = TRUE].op = call[d].op
              /\ [call[d] EXCEPT !.old = TRUE].k = call[d].k /\ [call[d] EXCEPT !.old = TRUE].token = call[d].token
          BY <5>2 DEF Visits!Idle
        <5> QED BY <5>1, <5>3 DEF ShareStays, Sharing
      <4>2. call'[c].op # "share"
        <5>1. call'[c] = IF Visits!Over.k = k THEN [Visits!Over EXCEPT !.old = TRUE] ELSE Visits!Over
          BY <2>1, <2>2, <3>2
        <5> QED BY <5>1 DEF Visits!Over, Visits!Idle
      <4> QED BY <4>1, <4>2 DEF ShareStays
    <3> QED BY <3>1, <3>2
  <2>4. /\ \A j \in Collection : shelf'[j] = IF j = k THEN t ELSE shelf[j]
        /\ \A j \in Collection : told'[j] = IF j = k THEN told[k] \cup {t} ELSE told[j]
        /\ excused \subseteq excused' /\ call[c].old \in BOOLEAN
        /\ call[c].old = TRUE => t \in excused' /\ shelf[k] \in excused'
    BY <1>1, <2>1 DEF VisitShape
  <2>5. LinkTokens'
    BY <1>1, <2>3, <2>4 DEF LinksInv, LinkTokens, ShareStays, Sharing
  <2>6. LinksApart'
    <3>1. \A i, j \in Collection : i # j /\ shelf'[i] = shelf'[j] => shelf'[i] < 2
      BY <1>1, <2>4 DEF LinksInv, LinksApart
    <3>2. ASSUME NEW d \in Call, NEW j \in Collection, Sharing(d)', j # call'[d].k
          PROVE shelf'[j] # call'[d].token
      BY <1>1, <2>3, <2>4, <3>2 DEF LinksInv, LinksApart, Sharing, ShareStays
    <3>3. \A d, e \in Call : Sharing(d)' /\ Sharing(e)' /\ call'[d].k # call'[e].k
            => call'[d].token # call'[e].token
      BY <2>3 DEF LinksInv, LinksApart, Sharing, ShareStays
    <3> QED BY <3>1, <3>2, <3>3 DEF LinksApart
  <2>7. ASSUME NEW d \in Call PROVE ShareIsFresh(d)'
    <3> SUFFICES ASSUME call'[d].op = "share", call'[d].old = FALSE
        PROVE \/ shelf'[call'[d].k] = call'[d].token
              \/ shelf'[call'[d].k] = 1 /\ call'[d].token \notin withdrawn'
      BY DEF ShareIsFresh, Sharing
    <3>1. /\ Sharing(d) /\ call'[d].k = call[d].k /\ call'[d].token = call[d].token
          /\ call[d].old = FALSE /\ (call[d].k = k => shelf[k] = t) /\ call[d].k \in Collection
      BY <2>3 DEF ShareStays, LinksInv, LinkTokens
    <3>2. ShareIsFresh(d)
      BY DEF LinksInv
    <3> QED BY <1>1, <2>4, <3>1, <3>2 DEF ShareIsFresh
  <2>8. ASSUME NEW j \in Collection
        PROVE  /\ shelf'[j] \in withdrawn' => shelf'[j] \in excused'
               /\ told'[j] \subseteq {shelf'[j]} \cup withdrawn' \cup excused'
    <3>1. /\ shelf[j] \in withdrawn => shelf[j] \in excused
          /\ told[j] \subseteq {shelf[j]} \cup withdrawn \cup excused
      BY DEF LinksInv, Visits!LinksAreExplained
    <3>2. CASE j # k
      BY <1>1, <2>4, <3>1, <3>2
    <3>3. CASE j = k /\ call[c].old = TRUE
      BY <1>1, <2>4, <3>1, <3>3
    <3>4. CASE j = k /\ call[c].old = FALSE
      <4>1. shelf[k] = t \/ (shelf[k] = 1 /\ t \notin withdrawn)
        BY <1>1, <3>4 DEF LinksInv, ShareIsFresh
      <4>2. 1 \notin told[k]
        BY <1>1 DEF LinksInv, LinkTokens
      <4> QED BY <1>1, <2>4, <3>1, <3>4, <4>1, <4>2
    <3> QED BY <2>4, <3>2, <3>3, <3>4
  <2> QED BY <2>5, <2>6, <2>7, <2>8 DEF LinksInv, Visits!LinksAreExplained
<1> QED BY <1>3, <1>4

-----------------------------------------------------------------------------
(* The answers.                                                              *)

\* A visitor between two statements is as they were, or what they were told is so.
VisitStays(c) ==
  \/ /\ call'[c].op = call[c].op /\ call'[c].k = call[c].k /\ call'[c].total = call[c].total
     /\ call'[c].shown = call[c].shown /\ (call'[c].old = FALSE => call[c].old = FALSE)
  \/ call'[c].op \notin {"page", "select", "answered"}

LEMMA AnswersStay ==
  ASSUME UNCHANGED <<place, saved>>, NEW c \in Call, AnswerAddsUp(c), VisitStays(c)
  PROVE  AnswerAddsUp(c)'
<1>1. Found' = Found
  BY DEF Found, Visits!Matches
<1> QED BY <1>1 DEF AnswerAddsUp, VisitStays

\* A change of listings or favourites: whoever it concerns goes by what is no longer so.
LEMMA ListingsMove ==
  ASSUME BrowsingInv, UNCHANGED <<shelf, made, told, withdrawn, excused>>, VisitShape', SavedInv',
         \A c \in Call :
           /\ ShareStays(c) /\ VisitStays(c)
           /\ call'[c].op = "select" => place' = place \/ call'[c].old # FALSE
           /\ call'[c].op = "page" =>
                \/ Filed(call'[c].k, saved') = Filed(call'[c].k, saved)
                \/ call'[c].old # FALSE
  PROVE  BrowsingInv'
<1>1. LinksInv'
  BY LinksStay DEF BrowsingInv
<1>2. ASSUME NEW c \in Call PROVE AnswerAddsUp(c)'
  <2>1. AnswerAddsUp(c) /\ VisitStays(c)
    BY DEF BrowsingInv
  <2>2. call'[c].op = "select" /\ call'[c].old = FALSE => Found' = Found
    BY DEF Found, Visits!Matches
  <2> QED BY <2>1, <2>2 DEF AnswerAddsUp, VisitStays
<1> QED BY <1>1, <1>2 DEF BrowsingInv

\* One visitor goes on, and nothing else moves.
LEMMA VisitGoesOn ==
  ASSUME BrowsingInv, NEW c \in Call, NEW rec, DOMAIN rec = DOMAIN Visits!Idle, rec.old \in BOOLEAN,
         rec.op # "share", call' = [call EXCEPT ![c] = rec],
         UNCHANGED <<place, saved, shelf, made, told, withdrawn, excused>>,
         rec.op = "page" => rec.k \in Collection \cup {"none"},
         rec.old = FALSE =>
           /\ rec.op = "select" => rec.total = Visits!Cardinality(Found)
           /\ rec.op = "page" => rec.total = Visits!Cardinality(Filed(rec.k, saved))
           /\ rec.op = "answered" => rec.total = Visits!Cardinality(rec.shown)
  PROVE  BrowsingInv'
<1>1. \A d \in Call : call'[d] = IF d = c THEN rec ELSE call[d]
  BY DEF BrowsingInv, VisitShape
<1>2. VisitShape'
  BY <1>1 DEF BrowsingInv, VisitShape
<1>3. \A d \in Call : ShareStays(d)
  BY <1>1 DEF ShareStays, Sharing
<1>4. LinksInv'
  BY <1>3, LinksStay DEF BrowsingInv
<1>5. SavedInv'
  BY DEF BrowsingInv, SavedInv
<1>6. Found' = Found
  BY DEF Found, Visits!Matches
<1>7. ASSUME NEW d \in Call PROVE AnswerAddsUp(d)'
  BY <1>1, <1>6 DEF BrowsingInv, AnswerAddsUp
<1> QED BY <1>2, <1>4, <1>5, <1>7 DEF BrowsingInv

-----------------------------------------------------------------------------
(* The steps.                                                                *)

\* A step that moves links and leaves listings and favourites alone.
LEMMA LinkStep ==
  ASSUME BrowsingInv, LinksInv', VisitShape', UNCHANGED <<place, saved>>,
         \A k \in Collection : shelf[k] # 0 => shelf'[k] # 0,
         \A c \in Call : VisitStays(c)
  PROVE  BrowsingInv'
<1>1. SavedInv'
  BY DEF BrowsingInv, SavedInv
<1>2. \A c \in Call : AnswerAddsUp(c)'
  BY AnswersStay DEF BrowsingInv
<1> QED BY <1>1, <1>2 DEF BrowsingInv

LEMMA CreateCollectionKeeps ==
  ASSUME BrowsingInv, NEW k \in Collection, Visits!CreateCollection(k) PROVE BrowsingInv'
<1>1. /\ shelf[k] = 0 /\ shelf' = [shelf EXCEPT ![k] = 1]
      /\ UNCHANGED <<place, saved, made, told, withdrawn, excused, call>>
  BY DEF Visits!CreateCollection, Visits!Absent, Visits!Private
<1>2. VisitShape /\ LinksInv
  BY DEF BrowsingInv
<1>3. VisitShape'
  BY <1>1, <1>2 DEF VisitShape
<1>4. ASSUME NEW c \in Call
      PROVE  ShareStays(c) /\ (call'[c].op = "share" /\ call[c].k = k => call'[c].old # FALSE)
  <2>1. call' = call
    BY <1>1
  <2>2. call[c].op = "share" /\ call[c].k = k => call[c].old # FALSE
    <3>1. ShareIsFresh(c) /\ (call[c].op = "share" => call[c].token \in Nat /\ 2 <= call[c].token)
      BY <1>2 DEF LinksInv, LinkTokens, Sharing
    <3>2. SUFFICES ASSUME call[c].op = "share", call[c].k = k, call[c].old = FALSE PROVE FALSE
      OBVIOUS
    <3> QED BY <1>1, <3>1, <3>2 DEF ShareIsFresh, Sharing
  <2> QED BY <2>1, <2>2 DEF ShareStays, Sharing
<1>5. withdrawn' = withdrawn \cup ({shelf[k]} \ {0, 1})
  BY <1>1
<1>6. LinksInv'
  BY <1>1, <1>2, <1>4, <1>5, LinkGoes
<1>7. \A c \in Call : VisitStays(c)
  BY <1>1 DEF VisitStays
<1>8. \A j \in Collection : shelf[j] # 0 => shelf'[j] # 0
  BY <1>1, <1>2 DEF VisitShape
<1> QED BY <1>1, <1>3, <1>6, <1>7, <1>8, LinkStep

\* A caller as it was, but for wishlist k having been overtaken.
VisitGoesBy(c, k) ==
  /\ DOMAIN call'[c] = DOMAIN Visits!Idle /\ call'[c].old \in BOOLEAN
  /\ ShareStays(c) /\ VisitStays(c) /\ call'[c].k = call[c].k
  /\ call[c].k = k => call'[c].old = TRUE

\* The callers of a wishlist that have been overtaken.
LEMMA Overtaken ==
  ASSUME BrowsingInv, NEW k, Visits!Overtake(k)
  PROVE  DOMAIN call' = Call /\ \A c \in Call : VisitGoesBy(c, k)
<1>1. DOMAIN call' = Call
  BY DEF Visits!Overtake
<1>2. ASSUME NEW c \in Call PROVE VisitGoesBy(c, k)
  <2> DEFINE rec == [call[c] EXCEPT !.old = TRUE]
  <2>1. call'[c] = IF call[c].k = k THEN rec ELSE call[c]
    BY DEF Visits!Overtake
  <2>2. DOMAIN call[c] = DOMAIN Visits!Idle /\ call[c].old \in BOOLEAN
    BY DEF BrowsingInv, VisitShape
  <2>3. /\ rec.old = TRUE /\ rec.op = call[c].op /\ rec.k = call[c].k /\ rec.token = call[c].token
        /\ rec.total = call[c].total /\ rec.shown = call[c].shown /\ DOMAIN rec = DOMAIN Visits!Idle
    BY <2>2, VisitRecord
  <2> HIDE DEF rec
  <2>4. CASE call[c].k = k
    <3>1. /\ call'[c].old = TRUE /\ call'[c].op = call[c].op /\ call'[c].k = call[c].k
          /\ call'[c].token = call[c].token /\ call'[c].total = call[c].total
          /\ call'[c].shown = call[c].shown /\ DOMAIN call'[c] = DOMAIN Visits!Idle
      <4>1. call'[c] = rec
        BY <2>1, <2>4
      <4> QED BY <4>1, <2>3, Zenon
    <3>2. call'[c].old \in BOOLEAN /\ ~(call'[c].old = FALSE)
      BY <3>1
    <3> QED BY <3>1, <3>2, Zenon DEF ShareStays, VisitStays, Sharing, VisitGoesBy
  <2>5. CASE call[c].k # k
    BY <2>1, <2>2, <2>5 DEF ShareStays, VisitStays, Sharing, VisitGoesBy
  <2> QED BY <2>4, <2>5
<1> QED BY <1>1, <1>2

LEMMA UnshareKeeps ==
  ASSUME BrowsingInv, NEW k \in Collection, Visits!UnshareCollection(k) PROVE BrowsingInv'
<1>1. /\ shelf[k] \notin {0, 1} /\ shelf' = [shelf EXCEPT ![k] = 1]
      /\ withdrawn' = withdrawn \cup {shelf[k]} /\ Visits!Overtake(k)
      /\ UNCHANGED <<place, saved, made, told, excused>>
  BY DEF Visits!UnshareCollection, Visits!Absent, Visits!Private
<1>2. VisitShape /\ LinksInv
  BY DEF BrowsingInv
<1>3. /\ DOMAIN call' = Call
      /\ \A c \in Call : /\ DOMAIN call'[c] = DOMAIN Visits!Idle /\ call'[c].old \in BOOLEAN
                        /\ ShareStays(c) /\ VisitStays(c) /\ (call[c].k = k => call'[c].old = TRUE)
  <2>1. DOMAIN call' = Call /\ \A c \in Call : VisitGoesBy(c, k)
    BY <1>1, Overtaken
  <2> QED BY <2>1 DEF VisitGoesBy
<1>4. VisitShape'
  BY <1>1, <1>2, <1>3 DEF VisitShape
<1>5. withdrawn' = withdrawn \cup ({shelf[k]} \ {0, 1})
  BY <1>1
<1>6. LinksInv'
  BY <1>1, <1>2, <1>3, <1>5, LinkGoes
<1>7. \A j \in Collection : shelf[j] # 0 => shelf'[j] # 0
  BY <1>1, <1>2 DEF VisitShape
<1> QED BY <1>1, <1>3, <1>4, <1>6, <1>7, LinkStep

LEMMA DeleteCollectionKeeps ==
  ASSUME BrowsingAssumption, BrowsingInv, NEW k \in Collection, Visits!DeleteCollection(k)
  PROVE  BrowsingInv'
<1>1. /\ shelf[k] # 0 /\ shelf' = [shelf EXCEPT ![k] = 0]
      /\ saved' = [l \in Wish |-> IF saved[l] = k THEN "bucket" ELSE saved[l]]
      /\ withdrawn' = withdrawn \cup ({shelf[k]} \ {1}) /\ Visits!Overtake(k)
      /\ UNCHANGED <<place, made, told, excused>>
  BY DEF Visits!DeleteCollection, Visits!Absent, Visits!Private, Visits!Bucket
<1>2. VisitShape /\ LinksInv /\ SavedInv
  BY DEF BrowsingInv
<1>3. /\ DOMAIN call' = Call
      /\ \A c \in Call : /\ DOMAIN call'[c] = DOMAIN Visits!Idle /\ call'[c].old \in BOOLEAN
                        /\ ShareStays(c) /\ VisitStays(c) /\ (call[c].k = k => call'[c].old = TRUE)
                        /\ call'[c].k = call[c].k
  <2>1. DOMAIN call' = Call /\ \A c \in Call : VisitGoesBy(c, k)
    BY <1>1, Overtaken
  <2> QED BY <2>1 DEF VisitGoesBy
<1>4. VisitShape'
  BY <1>1, <1>2, <1>3 DEF VisitShape
<1>5. withdrawn' = withdrawn \cup ({shelf[k]} \ {0, 1})
  BY <1>1
<1>6. LinksInv'
  BY <1>1, <1>2, <1>3, <1>5, LinkGoes
<1>7. \A l \in Wish : saved'[l] = IF saved[l] = k THEN "bucket" ELSE saved[l]
  BY <1>1
<1>8. SavedInv'
  BY <1>1, <1>2, <1>7 DEF SavedInv, VisitShape, BrowsingAssumption
<1>9. \A j \in Collection \cup {"none"} : j # k => Filed(j, saved') = Filed(j, saved)
  BY <1>7 DEF Filed, BrowsingAssumption
<1>10. Found' = Found
  BY <1>1 DEF Found, Visits!Matches
<1>11. ASSUME NEW c \in Call PROVE AnswerAddsUp(c)'
  <2>1. AnswerAddsUp(c) /\ VisitStays(c) /\ (call[c].k = k => call'[c].old = TRUE)
        /\ call'[c].k = call[c].k
    BY <1>3 DEF BrowsingInv
  <2> QED BY <1>9, <1>10, <2>1 DEF AnswerAddsUp, VisitStays
<1> QED BY <1>4, <1>6, <1>8, <1>11 DEF BrowsingInv

LEMMA ShareKeeps ==
  ASSUME BrowsingInv, NEW c \in Call, NEW k \in Collection, Visits!ShareCollection(c, k)
  PROVE  BrowsingInv'
<1> DEFINE rec == [Visits!Idle EXCEPT !.op = "share", !.k = k, !.token = Visits!Share(shelf[k])]
<1>1. call' = [call EXCEPT ![c] = rec] /\ UNCHANGED <<place, saved, shelf, told>>
  BY DEF Visits!ShareCollection, Visits!Goes
<1>2. rec.op = "share" /\ rec.old = FALSE /\ DOMAIN rec = DOMAIN Visits!Idle
  BY DEF Visits!Idle
<1> HIDE DEF rec
<1>3. VisitShape /\ LinksInv
  BY DEF BrowsingInv
<1>4. \A d \in Call : call'[d] = IF d = c THEN rec ELSE call[d]
  BY <1>1, <1>3 DEF VisitShape
<1>5. VisitShape'
  BY <1>1, <1>2, <1>3, <1>4 DEF VisitShape
<1>6. \A d \in Call : VisitStays(d)
  BY <1>2, <1>4 DEF VisitStays
<1>7. LinksInv'
  BY <1>3, ShareKeepsLinks
<1> QED BY <1>1, <1>5, <1>6, <1>7, LinkStep

LEMMA SetTokenKeeps ==
  ASSUME BrowsingInv, NEW c \in Call, Visits!SetCollectionShareToken(c)
  PROVE  BrowsingInv'
<1> DEFINE k == call[c].k
           t == call[c].token
           next == [call EXCEPT ![c] = Visits!Over]
<1>1. /\ k \in Collection /\ t \in Nat /\ 2 <= t /\ VisitShape /\ LinksInv
      /\ UNCHANGED <<place, saved>>
  BY DEF Visits!SetCollectionShareToken, Visits!At, Sharing, BrowsingInv, LinksInv, LinkTokens
<1>2. \A d \in Call : next[d] = IF d = c THEN Visits!Over ELSE call[d]
  BY <1>1 DEF VisitShape
<1>3. /\ Visits!Over.op = "over" /\ Visits!Over.old = FALSE /\ DOMAIN Visits!Over = DOMAIN Visits!Idle
  BY DEF Visits!Over, Visits!Idle
<1>4. /\ DOMAIN next = Call /\ \A d \in Call : next[d].old \in BOOLEAN /\ DOMAIN next[d] = DOMAIN Visits!Idle
  BY <1>1, <1>2, <1>3 DEF VisitShape
<1>5. /\ shelf' = shelf \/ shelf' = [shelf EXCEPT ![k] = t]
      /\ told' = told \/ told' = [told EXCEPT ![k] = @ \cup {t}]
      /\ \/ call' = next
         \/ call' = [d \in Call |-> IF next[d].k = k THEN [next[d] EXCEPT !.old = TRUE] ELSE next[d]]
  BY DEF Visits!SetCollectionShareToken, Visits!Goes
<1> HIDE DEF next
<1>6. ASSUME NEW d \in Call
      PROVE  DOMAIN call'[d] = DOMAIN Visits!Idle /\ call'[d].old \in BOOLEAN /\ VisitStays(d)
  <2> DEFINE rec == [next[d] EXCEPT !.old = TRUE]
  <2>1. /\ rec.old = TRUE /\ rec.op = next[d].op /\ rec.k = next[d].k /\ rec.token = next[d].token
        /\ rec.total = next[d].total /\ rec.shown = next[d].shown /\ DOMAIN rec = DOMAIN Visits!Idle
    BY <1>4, VisitRecord
  <2>2. call'[d] = rec \/ call'[d] = next[d]
    BY <1>5
  <2> HIDE DEF rec
  <2>3. CASE d = c
    BY <1>2, <1>3, <1>4, <2>1, <2>2, <2>3 DEF VisitStays
  <2>4. CASE d # c
    BY <1>2, <1>4, <2>1, <2>2, <2>4 DEF VisitStays
  <2> QED BY <2>3, <2>4
<1>7. DOMAIN call' = Call
  BY <1>4, <1>5
<1>8. VisitShape'
  BY <1>1, <1>5, <1>6, <1>7 DEF VisitShape
<1>9. \A j \in Collection : shelf[j] # 0 => shelf'[j] # 0
  BY <1>1, <1>5 DEF VisitShape
<1>10. LinksInv'
  BY <1>1, SetTokenKeepsLinks
<1> QED BY <1>1, <1>6, <1>8, <1>9, <1>10, LinkStep

\* Add and Move: a listing and a wishlist that are there, or nothing.
LEMMA FilingKeeps ==
  ASSUME BrowsingInv, NEW c \in Call,
         \/ saved' = saved
         \/ Visits!Referenced(c) /\ saved' = [saved EXCEPT ![call[c].l] = call[c].k],
         call' = [d \in Call |-> IF d = c THEN Visits!Over
                                 ELSE [call[d] EXCEPT !.old = @ \/ Visits!At(d, "page")]],
         UNCHANGED <<place, shelf, made, told, withdrawn, excused>>
  PROVE  BrowsingInv'
<1>1. VisitShape /\ SavedInv
  BY DEF BrowsingInv
<1>2. ASSUME NEW d \in Call
      PROVE  /\ DOMAIN call'[d] = DOMAIN Visits!Idle /\ call'[d].old \in BOOLEAN
             /\ ShareStays(d) /\ VisitStays(d)
             /\ call'[d].op = "page" => call'[d].old = TRUE
  <2>1. CASE d = c
    <3>1. call'[d] = Visits!Over
      BY <2>1
    <3> QED BY <3>1 DEF Visits!Over, Visits!Idle, ShareStays, VisitStays
  <2>2. CASE d # c
    <3> DEFINE v == call[d].old \/ Visits!At(d, "page")
               rec == [call[d] EXCEPT !.old = v]
    <3>1. DOMAIN call[d] = DOMAIN Visits!Idle /\ call[d].old \in BOOLEAN
      BY <1>1 DEF VisitShape
    <3>2. call'[d] = rec
      BY <2>2
    <3>3. v \in BOOLEAN /\ (v = FALSE => call[d].old = FALSE) /\ (call[d].op = "page" => v = TRUE)
      BY <3>1 DEF Visits!At
    <3>4. /\ rec.old = v /\ rec.op = call[d].op /\ rec.k = call[d].k /\ rec.token = call[d].token
          /\ rec.total = call[d].total /\ rec.shown = call[d].shown /\ DOMAIN rec = DOMAIN Visits!Idle
      BY <3>1, <3>3, VisitRecord
    <3> HIDE DEF v, rec
    <3> QED BY <3>2, <3>3, <3>4 DEF ShareStays, VisitStays, Sharing
  <2> QED BY <2>1, <2>2
<1>3. DOMAIN saved' = Wish /\ DOMAIN call' = Call
  BY <1>1 DEF VisitShape
<1>4. VisitShape'
  BY <1>1, <1>2, <1>3 DEF VisitShape
<1>5. SavedInv'
  <2>1. CASE saved' = saved
    BY <1>1, <2>1 DEF SavedInv
  <2>2. CASE Visits!Referenced(c) /\ saved' = [saved EXCEPT ![call[c].l] = call[c].k]
    BY <1>1, <2>2 DEF SavedInv, VisitShape, Visits!Referenced, Visits!Absent
  <2> QED BY <2>1, <2>2
<1> QED BY <1>2, <1>4, <1>5, ListingsMove

\* A caller as it was, but for a count that is out of date.
VisitOutdated(c) ==
  /\ DOMAIN call'[c] = DOMAIN Visits!Idle /\ call'[c].old \in BOOLEAN
  /\ ShareStays(c) /\ VisitStays(c)
  /\ call'[c].op \in {"select", "page"} => call'[c].old = TRUE

\* Everybody between a count and its page is out of date.
LEMMA Outdated ==
  ASSUME BrowsingInv, Visits!Outdate
  PROVE  DOMAIN call' = Call /\ \A c \in Call : VisitOutdated(c)
<1>1. DOMAIN call' = Call
  BY DEF Visits!Outdate
<1>2. ASSUME NEW c \in Call PROVE VisitOutdated(c)
  <2> DEFINE v == call[c].old \/ Visits!At(c, "select") \/ Visits!At(c, "page")
             rec == [call[c] EXCEPT !.old = v]
  <2>1. DOMAIN call[c] = DOMAIN Visits!Idle /\ call[c].old \in BOOLEAN
    BY DEF BrowsingInv, VisitShape
  <2>2. call'[c] = rec
    BY DEF Visits!Outdate
  <2>3. v \in BOOLEAN /\ (v = FALSE => call[c].old = FALSE)
        /\ (call[c].op \in {"select", "page"} => v = TRUE)
    BY <2>1 DEF Visits!At
  <2>4. /\ rec.old = v /\ rec.op = call[c].op /\ rec.k = call[c].k /\ rec.token = call[c].token
        /\ rec.total = call[c].total /\ rec.shown = call[c].shown /\ DOMAIN rec = DOMAIN Visits!Idle
    BY <2>1, <2>3, VisitRecord
  <2> HIDE DEF v, rec
  <2> QED BY <2>2, <2>3, <2>4 DEF ShareStays, VisitStays, Sharing, VisitOutdated
<1> QED BY <1>1, <1>2

\* A favourite removed, a listing changed, or a listing deleted with its favourites.
LEMMA ListingKeeps ==
  ASSUME BrowsingInv, NEW l \in Wish, Visits!Outdate,
         UNCHANGED <<shelf, made, told, withdrawn, excused>>,
         \/ saved' = saved
         \/ saved' = [saved EXCEPT ![l] = "no"],
         \/ place' = place
         \/ \E p : place' = [place EXCEPT ![l] = p] /\ DOMAIN p = DOMAIN Visits!Gone
                   /\ (p.status = "gone" => saved'[l] = "no"),
         "no" \notin Collection
  PROVE  BrowsingInv'
<1>1. VisitShape /\ SavedInv
  BY DEF BrowsingInv
<1>2. DOMAIN call' = Call /\ \A c \in Call : VisitOutdated(c)
  BY Outdated
<1>3. /\ DOMAIN saved' = Wish /\ DOMAIN place' = Wish
      /\ \A j \in Wish : DOMAIN place'[j] = DOMAIN Visits!Gone
  BY <1>1 DEF VisitShape
<1>4. VisitShape'
  <2>1. \A c \in Call : DOMAIN call'[c] = DOMAIN Visits!Idle /\ call'[c].old \in BOOLEAN
    BY <1>2 DEF VisitOutdated
  <2> QED BY <1>1, <1>2, <1>3, <2>1 DEF VisitShape
<1>5. SavedInv'
  BY <1>1 DEF SavedInv, VisitShape
<1>6. \A c \in Call :
        /\ ShareStays(c) /\ VisitStays(c)
        /\ call'[c].op \in {"select", "page"} => call'[c].old # FALSE
  BY <1>2 DEF VisitOutdated
<1> QED BY <1>4, <1>5, <1>6, ListingsMove

\* The steps of one visitor.
VisitFrame == UNCHANGED <<place, saved, shelf, made, told, withdrawn, excused>>

LEMMA GetSharedKeeps ==
  ASSUME BrowsingAssumption, BrowsingInv, NEW c \in Call, NEW k \in Collection,
         Visits!GetSharedCollection(c, k)
  PROVE  BrowsingInv'
<1> DEFINE n == Visits!Cardinality({l \in Wish : saved[l] = k})
           rec == [Visits!Idle EXCEPT !.op = "page", !.k = k, !.token = shelf[k], !.total = n]
<1>1. call' = [call EXCEPT ![c] = rec] /\ VisitFrame
  BY DEF Visits!GetSharedCollection, Visits!Goes, VisitFrame
<1>2. rec.op = "page" /\ rec.k = k /\ rec.total = n /\ rec.old = FALSE /\ DOMAIN rec = DOMAIN Visits!Idle
  BY DEF Visits!Idle
<1>3. {l \in Wish : saved[l] = k} = Filed(k, saved)
  BY DEF Filed, BrowsingAssumption
<1>4. n = Visits!Cardinality(Filed(k, saved))
  BY <1>3
<1> HIDE DEF n, rec
<1> QED BY <1>1, <1>2, <1>4, VisitGoesOn DEF VisitFrame

LEMMA EnsureOwnedKeeps ==
  ASSUME BrowsingInv, NEW c \in Call, NEW l \in Wish, NEW k \in Collection,
         Visits!EnsureOwnedCollection(c, l, k)
  PROVE  BrowsingInv'
<1>1. PICK op \in {"add", "move"} : call' = [call EXCEPT ![c] = [Visits!Idle EXCEPT !.op = op, !.k = k, !.l = l]]
  BY DEF Visits!EnsureOwnedCollection, Visits!Goes
<1> DEFINE rec == [Visits!Idle EXCEPT !.op = op, !.k = k, !.l = l]
<1>2. rec.op \in {"add", "move"} /\ rec.old = FALSE /\ DOMAIN rec = DOMAIN Visits!Idle
  BY DEF Visits!Idle
<1>3. call' = [call EXCEPT ![c] = rec] /\ VisitFrame
  BY <1>1 DEF Visits!EnsureOwnedCollection, VisitFrame
<1> HIDE DEF rec
<1> QED BY <1>2, <1>3, VisitGoesOn DEF VisitFrame

LEMMA ListKeeps ==
  ASSUME BrowsingInv, NEW c \in Call, Visits!List(c) PROVE BrowsingInv'
<1> DEFINE n == Visits!Cardinality({l \in Wish : saved[l] # "no"})
           rec == [Visits!Idle EXCEPT !.op = "page", !.total = n]
<1>1. call' = [call EXCEPT ![c] = rec] /\ VisitFrame
  BY DEF Visits!List, Visits!Goes, VisitFrame
<1>2. rec.op = "page" /\ rec.k = "none" /\ rec.total = n /\ rec.old = FALSE /\ DOMAIN rec = DOMAIN Visits!Idle
  BY DEF Visits!Idle
<1>3. n = Visits!Cardinality(Filed("none", saved))
  BY DEF Filed
<1> HIDE DEF n, rec
<1> QED BY <1>1, <1>2, <1>3, VisitGoesOn DEF VisitFrame

LEMMA SearchKeeps ==
  ASSUME BrowsingInv, NEW c \in Call, Visits!Search(c) PROVE BrowsingInv'
<1> DEFINE rec == [Visits!Idle EXCEPT !.op = "select", !.total = Visits!Cardinality(Found)]
<1>1. call' = [call EXCEPT ![c] = rec] /\ VisitFrame
  BY DEF Visits!Search, Visits!Goes, VisitFrame, Found
<1>2. /\ rec.op = "select" /\ rec.total = Visits!Cardinality(Found) /\ rec.old = FALSE
      /\ DOMAIN rec = DOMAIN Visits!Idle
  BY DEF Visits!Idle
<1> HIDE DEF rec
<1> QED BY <1>1, <1>2, VisitGoesOn DEF VisitFrame

\* What an answer shows is what its total counted, unless it is out of date.
LEMMA AnswerKeeps ==
  ASSUME BrowsingInv, NEW c \in Call, NEW hits, VisitFrame,
         call' = [call EXCEPT ![c] = [call[c] EXCEPT !.op = "answered", !.shown = hits]],
         call[c].old = FALSE => call[c].total = Visits!Cardinality(hits)
  PROVE  BrowsingInv'
<1> DEFINE rec == [call[c] EXCEPT !.op = "answered", !.shown = hits]
<1>1. DOMAIN call[c] = DOMAIN Visits!Idle /\ call[c].old \in BOOLEAN
  BY DEF BrowsingInv, VisitShape
<1>2. /\ rec.op = "answered" /\ rec.shown = hits /\ rec.total = call[c].total /\ rec.old = call[c].old
      /\ DOMAIN rec = DOMAIN Visits!Idle
  BY <1>1 DEF Visits!Idle
<1>3. call' = [call EXCEPT ![c] = rec]
  OBVIOUS
<1> HIDE DEF rec
<1>4. /\ rec.op # "share" /\ rec.op # "page" /\ rec.op # "select" /\ rec.old \in BOOLEAN
  BY <1>1, <1>2
<1>5. rec.old = FALSE => rec.total = Visits!Cardinality(rec.shown)
  BY <1>2
<1>6. UNCHANGED <<place, saved, shelf, made, told, withdrawn, excused>>
  BY DEF VisitFrame
<1> QED BY <1>2, <1>3, <1>4, <1>5, <1>6, VisitGoesOn

LEMMA ListIDsKeeps ==
  ASSUME BrowsingAssumption, BrowsingInv, NEW c \in Call, Visits!ListPropertyIDs(c) PROVE BrowsingInv'
<1> DEFINE ids == Filed(call[c].k, saved)
           hits == {l \in ids : place[l].status # "gone"}
<1>1. /\ call[c].op = "page" /\ VisitFrame
      /\ call' = [call EXCEPT ![c] = [call[c] EXCEPT !.op = "answered", !.shown = hits]]
  BY DEF Visits!ListPropertyIDs, Visits!Goes, Visits!At, VisitFrame, Filed
<1>2. AnswerAddsUp(c) /\ SavedInv
  BY DEF BrowsingInv
<1>3. \A l \in ids : place[l].status # "gone"
  BY <1>1, <1>2 DEF AnswerAddsUp, SavedInv, Filed, BrowsingAssumption
<1>4. hits = ids
  BY <1>3
<1>5. call[c].old = FALSE => call[c].total = Visits!Cardinality(hits)
  BY <1>1, <1>2, <1>4 DEF AnswerAddsUp
<1> HIDE DEF hits
<1> QED BY <1>1, <1>5, AnswerKeeps

LEMMA SelectKeeps ==
  ASSUME BrowsingInv, NEW c \in Call, Visits!Select(c) PROVE BrowsingInv'
<1>1. /\ call[c].op = "select" /\ VisitFrame
      /\ call' = [call EXCEPT ![c] = [call[c] EXCEPT !.op = "answered", !.shown = Found]]
  BY DEF Visits!Select, Visits!Goes, Visits!At, VisitFrame, Found
<1>2. call[c].old = FALSE => call[c].total = Visits!Cardinality(Found)
  BY <1>1 DEF BrowsingInv, AnswerAddsUp
<1> QED BY <1>1, <1>2, AnswerKeeps

LEMMA BrowsingStep ==
  ASSUME BrowsingAssumption, BrowsingInv, [Visits!Next]_(Visits!browsingVars) PROVE BrowsingInv'
<1>1. ASSUME NEW k \in Collection, Visits!CreateCollection(k) PROVE BrowsingInv'
  BY <1>1, CreateCollectionKeeps
<1>2. ASSUME NEW k \in Collection, Visits!DeleteCollection(k) PROVE BrowsingInv'
  BY <1>2, DeleteCollectionKeeps
<1>3. ASSUME NEW k \in Collection, Visits!UnshareCollection(k) PROVE BrowsingInv'
  BY <1>3, UnshareKeeps
<1>4. ASSUME NEW l \in Wish, Visits!Remove(l) PROVE BrowsingInv'
  <2>1. /\ saved' = [saved EXCEPT ![l] = "no"] /\ place' = place /\ Visits!Outdate
        /\ UNCHANGED <<shelf, made, told, withdrawn, excused>>
    BY <1>4 DEF Visits!Remove
  <2>2. "no" \notin Collection
    BY DEF BrowsingAssumption
  <2> QED BY <2>1, <2>2, ListingKeeps
<1>5. ASSUME NEW l \in Wish, Visits!DeleteListing(l) PROVE BrowsingInv'
  <2>1. /\ saved' = [saved EXCEPT ![l] = "no"] /\ place' = [place EXCEPT ![l] = Visits!Gone] /\ Visits!Outdate
        /\ UNCHANGED <<shelf, made, told, withdrawn, excused>>
    BY <1>5 DEF Visits!DeleteListing
  <2>2. "no" \notin Collection /\ saved'[l] = "no"
    BY <2>1 DEF BrowsingAssumption, BrowsingInv, VisitShape
  <2> QED BY <2>1, <2>2, ListingKeeps
<1>6. ASSUME NEW l \in Wish, NEW s \in {"published", "suspended"}, NEW t \in BOOLEAN,
             Visits!ChangeListing(l, s, t)
      PROVE BrowsingInv'
  <2> DEFINE p == [status |-> s, taken |-> t]
  <2>1. /\ saved' = saved /\ place' = [place EXCEPT ![l] = p] /\ Visits!Outdate
        /\ UNCHANGED <<shelf, made, told, withdrawn, excused>>
    BY <1>6 DEF Visits!ChangeListing
  <2>2. "no" \notin Collection /\ DOMAIN p = DOMAIN Visits!Gone /\ p.status # "gone"
    BY DEF BrowsingAssumption, Visits!Gone
  <2> HIDE DEF p
  <2> QED BY <2>1, <2>2, ListingKeeps
<1>7. ASSUME NEW c \in Call, Visits!SetCollectionShareToken(c) PROVE BrowsingInv'
  BY <1>7, SetTokenKeeps
<1>8. ASSUME NEW c \in Call, Visits!Add(c) PROVE BrowsingInv'
  BY <1>8, FilingKeeps DEF Visits!Add
<1>9. ASSUME NEW c \in Call, Visits!Move(c) PROVE BrowsingInv'
  BY <1>9, FilingKeeps DEF Visits!Move
<1>10. ASSUME NEW c \in Call, Visits!List(c) PROVE BrowsingInv'
  BY <1>10, ListKeeps
<1>11. ASSUME NEW c \in Call, Visits!ListPropertyIDs(c) PROVE BrowsingInv'
  BY <1>11, ListIDsKeeps
<1>12. ASSUME NEW c \in Call, Visits!Search(c) PROVE BrowsingInv'
  BY <1>12, SearchKeeps
<1>13. ASSUME NEW c \in Call, Visits!Select(c) PROVE BrowsingInv'
  BY <1>13, SelectKeeps
<1>14. ASSUME NEW c \in Call, NEW k \in Collection, Visits!ShareCollection(c, k) PROVE BrowsingInv'
  BY <1>14, ShareKeeps
<1>15. ASSUME NEW c \in Call, NEW k \in Collection, Visits!GetSharedCollection(c, k) PROVE BrowsingInv'
  BY <1>15, GetSharedKeeps
<1>16. ASSUME NEW c \in Call, NEW k \in Collection, NEW l \in Wish, Visits!EnsureOwnedCollection(c, l, k)
       PROVE BrowsingInv'
  BY <1>16, EnsureOwnedKeeps
<1>17. CASE UNCHANGED Visits!browsingVars
  <2>1. UNCHANGED <<place, saved, shelf, made, told, withdrawn, excused, call>>
    BY <1>17 DEF Visits!browsingVars
  <2>2. VisitShape' /\ SavedInv'
    BY <2>1 DEF BrowsingInv, VisitShape, SavedInv
  <2> QED BY <2>1, <2>2, ListingsMove DEF ShareStays, VisitStays, Sharing
<1> QED BY <1>1, <1>2, <1>3, <1>4, <1>5, <1>6, <1>7, <1>8, <1>9, <1>10, <1>11, <1>12, <1>13, <1>14,
           <1>15, <1>16, <1>17 DEF Visits!Next

LEMMA BrowsingMeans == BrowsingInv => Visits!BrowsingIsExplained
<1> SUFFICES ASSUME BrowsingInv PROVE Visits!BrowsingIsExplained
  OBVIOUS
<1>1. \A c \in Call : Visits!At(c, "answered") /\ ~call[c].old =>
        call[c].total = Visits!Cardinality(call[c].shown)
  BY DEF BrowsingInv, VisitShape, AnswerAddsUp, Visits!At
<1>2. \A l \in Wish : saved[l] \in Collection => shelf[saved[l]] # Visits!Absent
  BY DEF BrowsingInv, SavedInv, Visits!Absent
<1> QED BY <1>1, <1>2 DEF Visits!BrowsingIsExplained, Visits!AnswersAddUp, BrowsingInv, LinksInv

-----------------------------------------------------------------------------
(* The money of one stay, from its quote to the host's credit: Settlement. *)

\* Amounts, caps, prices and deposits are validated (rule.go:107-124, pricerule.go:40,
\* property.go:409), and a tax_rules table is finite.
SettlementAssumption ==
  /\ Nights \subseteq Nat /\ Guests \subseteq Nat /\ Deposits \subseteq Nat
  /\ \A e \in Season : e.from \in Nat /\ e.price \in Nat
  /\ IsFiniteSet(TaxRule)
  /\ \A rule \in TaxRule : /\ rule.kind \in {"percent", "perNight", "perStay"}
                           /\ rule.amount \in Nat /\ rule.cap \in Nat

\* A function by which the sum recurses gives the sum.
LEMMA RecursionSums ==
  ASSUME NEW S, IsFiniteSet(S), NEW f, NEW g, Recurses(f, S, g) PROVE g[S] = SumOver(f, S)
<1>1. Recurses(f, S, CHOOSE h : Recurses(f, S, h)) /\ SumOver(f, S) = (CHOOSE h : Recurses(f, S, h))[S]
  BY RecursionExists, FoldValue
<1> QED BY <1>1, RecursionAgrees

\* The tax is the sum of its lines' amounts.
LEMMA SumIs ==
  ASSUME NEW S, IsFiniteSet(S), NEW f, \A x \in S : f[x] = x.amount
  PROVE Prices!Sum(S) = SumOver(f, S)
<1> DEFINE P(h) == h = [s \in SUBSET S |-> IF s = {} THEN 0 ELSE First(s).amount + h[s \ {First(s)}]]
<1>1. Prices!Sum(S) = (CHOOSE h : P(h))[S]
  BY DEF Prices!Sum, Prices!Amount, Prices!MapThenSumSet, Prices!MapThenFoldSet, First
<1>2. ASSUME NEW h PROVE P(h) <=> Recurses(f, S, h)
  <2>1. \A s \in SUBSET S : s # {} => First(s).amount = f[First(s)]
    BY FirstIsIn
  <2>2. [s \in SUBSET S |-> IF s = {} THEN 0 ELSE First(s).amount + h[s \ {First(s)}]]
          = [s \in SUBSET S |-> IF s = {} THEN 0 ELSE f[First(s)] + h[s \ {First(s)}]]
    BY <2>1
  <2> QED BY <2>2 DEF Recurses
<1> HIDE DEF P
<1>3. \E h : P(h)
  BY <1>2, RecursionExists
<1>4. P(CHOOSE h : P(h))
  BY <1>3
<1>5. Recurses(f, S, CHOOSE h : P(h))
  BY <1>2, <1>4
<1> QED BY <1>1, <1>5, RecursionSums

\* The subtotal is the sum of the prices of its nights, before a step and after it.
LEMMA SubtotalIs ==
  ASSUME NEW len \in Nat, NEW f, \A n \in 1 .. len : f[n] = Prices!NightPrice(n)
  PROVE Prices!Subtotal(len) = SumOver(f, 1 .. len)
<1> DEFINE S == 1 .. len
           P(h) == h = [s \in SUBSET S |-> IF s = {} THEN 0
                                           ELSE Prices!NightPrice(First(s)) + h[s \ {First(s)}]]
<1>1. Prices!Subtotal(len) = (CHOOSE h : P(h))[S]
  BY DEF Prices!Subtotal, Prices!MapThenSumSet, Prices!MapThenFoldSet, First
<1>2. IsFiniteSet(S) /\ \A x \in S : f[x] = Prices!NightPrice(x)
  BY FS_Interval
<1> HIDE DEF S
<1>3. ASSUME NEW h PROVE P(h) <=> Recurses(f, S, h)
  <2>1. \A s \in SUBSET S : s # {} => Prices!NightPrice(First(s)) = f[First(s)]
    BY <1>2, FirstIsIn
  <2>2. [s \in SUBSET S |-> IF s = {} THEN 0 ELSE Prices!NightPrice(First(s)) + h[s \ {First(s)}]]
          = [s \in SUBSET S |-> IF s = {} THEN 0 ELSE f[First(s)] + h[s \ {First(s)}]]
    BY <2>1
  <2> QED BY <2>2 DEF Recurses
<1> HIDE DEF P
<1>4. P(CHOOSE h : P(h))
  BY <1>2, <1>3, RecursionExists
<1>5. Recurses(f, S, CHOOSE h : P(h))
  BY <1>3, <1>4
<1> QED BY <1>1, <1>2, <1>5, RecursionSums DEF S

LEMMA SubtotalWillBe ==
  ASSUME NEW len \in Nat, NEW f, \A n \in 1 .. len : f[n] = Prices!NightPrice(n)'
  PROVE Prices!Subtotal(len)' = SumOver(f, 1 .. len)
<1> DEFINE S == 1 .. len
           P(h) == h = [s \in SUBSET S |-> IF s = {} THEN 0
                                           ELSE Prices!NightPrice(First(s))' + h[s \ {First(s)}]]
<1>1. Prices!Subtotal(len)' = (CHOOSE h : P(h))[S]
  BY DEF Prices!Subtotal, Prices!MapThenSumSet, Prices!MapThenFoldSet, First
<1>2. IsFiniteSet(S) /\ \A x \in S : f[x] = Prices!NightPrice(x)'
  BY FS_Interval
<1> HIDE DEF S
<1>3. ASSUME NEW h PROVE P(h) <=> Recurses(f, S, h)
  <2>1. \A s \in SUBSET S : s # {} => Prices!NightPrice(First(s))' = f[First(s)]
    BY <1>2, FirstIsIn
  <2>2. [s \in SUBSET S |-> IF s = {} THEN 0 ELSE Prices!NightPrice(First(s))' + h[s \ {First(s)}]]
          = [s \in SUBSET S |-> IF s = {} THEN 0 ELSE f[First(s)] + h[s \ {First(s)}]]
    BY <2>1
  <2> QED BY <2>2 DEF Recurses
<1> HIDE DEF P
<1>4. P(CHOOSE h : P(h))
  BY <1>2, <1>3, RecursionExists
<1>5. Recurses(f, S, CHOOSE h : P(h))
  BY <1>3, <1>4
<1> QED BY <1>1, <1>2, <1>5, RecursionSums DEF S

-----------------------------------------------------------------------------
\* The price of a night is the first seasonal one, or one of the listing.
LEMMA NightPriceType == ASSUME SettlementAssumption, NEW n PROVE Prices!NightPrice(n) \in Nat
<1> DEFINE R == {e \in Season : Prices!AppliesOn(e, n)}
           Earliest(e) == \A f \in R : e.from <= f.from
<1>1. CASE R = {}
  BY <1>1 DEF Prices!NightPrice, Prices!WeekendPrice, Prices!BasePrice
<1>2. CASE R # {}
  <2>1. \E e \in R : Earliest(e)
    <3> DEFINE T == {e.from : e \in R}
    <3>1. T \subseteq Nat /\ T # {}
      BY <1>2 DEF SettlementAssumption
    <3> HIDE DEF T
    <3>2. \E x \in T : \A y \in T : ~ (<<y, x>> \in OpToRel(<, Nat))
      BY <3>1, NatLessThanWellFounded, WFMin, Zenon
    <3>3. \E x \in T : \A y \in T : ~ (y < x)
      BY <3>1, <3>2 DEF OpToRel
    <3>4. PICK e \in R : \A f \in R : ~ (f.from < e.from)
      BY <3>3 DEF T
    <3>5. \A f \in R : f.from \in Nat
      BY DEF SettlementAssumption
    <3> QED BY <3>4, <3>5
  <2>2. Prices!NightPrice(n) = (CHOOSE e \in R : Earliest(e)).price
    BY <1>2 DEF Prices!NightPrice
  <2>3. (CHOOSE e \in R : Earliest(e)) \in R
    BY <2>1
  <2> HIDE DEF Earliest
  <2> QED BY <2>2, <2>3 DEF SettlementAssumption
<1> QED BY <1>1, <1>2

LEMMA SubtotalType == ASSUME SettlementAssumption, NEW len \in Nat PROVE Prices!Subtotal(len) \in Nat
<1> DEFINE f == [n \in 1 .. len |-> Prices!NightPrice(n)]
<1>1. \A n \in 1 .. len : f[n] = Prices!NightPrice(n) /\ f[n] \in Nat
  BY NightPriceType
<1>2. IsFiniteSet(1 .. len)
  BY FS_Interval
<1> HIDE DEF f
<1>3. Prices!Subtotal(len) = SumOver(f, 1 .. len)
  BY <1>1, SubtotalIs
<1> QED BY <1>1, <1>2, <1>3, SumType

\* Shares of amounts that are not negative are not negative.
LEMMA Products == ASSUME NEW a \in Nat, NEW b \in Nat PROVE a * b \in Nat /\ (a * b) \div 100 \in Nat
<1>1. a * b \in Nat
  OBVIOUS
<1> QED BY <1>1

LEMMA ExtraGuestsType ==
  ASSUME SettlementAssumption, NEW ask \in Prices!Asks PROVE Prices!ExtraGuests(ask) \in Nat /\ ask.len \in Nat
<1>1. ask.len \in Nat /\ ask.guests \in Nat
  BY DEF SettlementAssumption, Prices!Asks
<1>2. CASE ask.guests > 1
  <2>1. (ask.guests - 1) * 2 \in Nat
    BY <1>1, <1>2
  <2>2. ((ask.guests - 1) * 2) * ask.len \in Nat
    BY <1>1, <2>1, Products
  <2> QED BY <1>1, <1>2, <2>2 DEF Prices!ExtraGuests, Prices!IncludedGuests, Prices!ExtraGuestFee
<1>3. CASE ~(ask.guests > 1)
  BY <1>1, <1>3 DEF Prices!ExtraGuests, Prices!IncludedGuests
<1> QED BY <1>2, <1>3

\* The tax of a stay is a natural number: no line is negative, and a base that is has none.
LEMMA TaxType ==
  ASSUME SettlementAssumption, taxes \subseteq TaxRule, NEW ask \in Prices!Asks, NEW base \in Int
  PROVE Prices!Sum(Prices!TaxLines(ask, base)) \in Nat
<1> DEFINE lines == Prices!TaxLines(ask, base)
           amount == [x \in lines |-> x.amount]
<1>1. ask.len \in Nat /\ ask.guests \in Nat
  BY DEF SettlementAssumption, Prices!Asks
<1>2. ASSUME base >= 0, NEW rule \in TaxRule PROVE Prices!LineAmount(rule, ask, base) \in Nat
  <2>1. base \in Nat /\ rule.amount \in Nat /\ rule.cap \in Nat
    BY <1>2 DEF SettlementAssumption
  <2>2. (base * rule.amount) \div 100 \in Nat
    BY <2>1, Products
  <2>3. PICK nights \in Nat : nights = IF rule.cap > 0 /\ ask.len > rule.cap THEN rule.cap ELSE ask.len
    BY <1>1, <2>1
  <2>4. rule.amount * ask.guests \in Nat
    BY <1>1, <2>1, Products
  <2>5. rule.amount * ask.guests * nights \in Nat
    BY <2>4, Products
  <2>6. rule.kind \in {"percent", "perNight", "perStay"}
    BY DEF SettlementAssumption
  <2> QED BY <2>1, <2>2, <2>3, <2>5, <2>6 DEF Prices!LineAmount
<1>3. IsFiniteSet(lines) /\ \A x \in lines : x.amount \in Nat
  <2>1. CASE base < 0
    <3>1. lines = {}
      BY <2>1 DEF Prices!TaxLines
    <3> QED BY <3>1, FS_EmptySet
  <2>2. CASE base >= 0
    <3> DEFINE R == Prices!RulesFor
               f == [rule \in R |-> [rule |-> rule, amount |-> Prices!LineAmount(rule, ask, base)]]
    <3>1. IsFiniteSet(R) /\ R \subseteq TaxRule
      BY FS_Subset DEF SettlementAssumption, Prices!RulesFor
    <3>2. lines = {f[rule] : rule \in R}
      BY <2>2 DEF Prices!TaxLines, Prices!Calculate
    <3>3. f \in Surjection(R, lines)
      BY <3>2 DEF Surjection
    <3>4. \A x \in lines : x.amount \in Nat
      BY <1>2, <2>2, <3>1, <3>2
    <3> HIDE DEF R, f, lines
    <3> QED BY <3>1, <3>3, <3>4, FS_Surjection
  <2> QED BY <2>1, <2>2
<1>4. \A x \in lines : amount[x] = x.amount /\ amount[x] \in Nat
  BY <1>3
<1> HIDE DEF lines, amount
<1>5. Prices!Sum(lines) = SumOver(amount, lines)
  BY <1>3, <1>4, SumIs
<1>6. Prices!Sum(lines) \in Nat
  BY <1>3, <1>4, <1>5, SumType
<1> QED BY <1>6 DEF lines

\* A price has the tax, the deposit and the cleaning fee in it, whatever the discounts.
Sound(p) ==
  /\ p.fee \in Int /\ p.total \in Int /\ p.discount <= p.subtotal
  /\ Prices!Sum(p.lines) + p.deposit + Prices!CleaningFee <= p.total

LEMMA PriceIsSound ==
  ASSUME SettlementAssumption, taxes \subseteq TaxRule, listing.deposit \in Deposits, NEW ask \in Prices!Asks
  PROVE Sound(Prices!CreatePrice(ask))
<1>1. PICK s, c, extra, lines, tax :
        /\ s = Prices!Subtotal(ask.len) /\ c = Prices!CouponCents(ask.coupon, s)
        /\ extra = Prices!ExtraGuests(ask)
        /\ lines = Prices!TaxLines(ask, Prices!TaxBase(ask, s, c)) /\ tax = Prices!Sum(lines)
  OBVIOUS
<1>2. s \in Nat /\ extra \in Nat /\ listing.deposit \in Nat
  BY <1>1, SubtotalType, ExtraGuestsType DEF SettlementAssumption
<1>3. c \in Int
  BY <1>1, <1>2 DEF Prices!CouponCents, Prices!Rounded, Prices!CouponAmount
<1>4. tax \in Nat
  <2>1. Prices!TaxBase(ask, s, c) \in Int
    BY <1>1, <1>2, <1>3 DEF Prices!TaxBase, Prices!CleaningFee
  <2> QED BY <1>1, <2>1, TaxType
<1>5. PICK discount : discount = Prices!Discount(ask, s, c)
  OBVIOUS
<1>6. discount \in Int /\ discount <= s
  BY <1>2, <1>3, <1>5 DEF Prices!Discount, Prices!Rounded, Prices!WeeklyPct
<1>7. PICK base : base = s - discount + Prices!CleaningFee + extra
  OBVIOUS
<1>8. base \in Nat /\ base >= Prices!CleaningFee
  BY <1>2, <1>6, <1>7 DEF Prices!CleaningFee
<1>9. Prices!Rounded(base, Prices!FeePct) \in Nat /\ Prices!Rounded(base, Prices!TaxPct) \in Nat
  BY <1>8 DEF Prices!Rounded, Prices!FeePct, Prices!TaxPct
<1>10. Prices!CreatePrice(ask) =
         [subtotal |-> s, discount |-> discount, fee |-> Prices!Rounded(base, Prices!FeePct),
          lines |-> lines, deposit |-> listing.deposit,
          total |-> base + Prices!Rounded(base, Prices!FeePct) + Prices!Rounded(base, Prices!TaxPct)
                    + tax + listing.deposit]
  BY <1>1, <1>5, <1>7 DEF Prices!CreatePrice, Prices!Priced
<1> QED BY <1>1, <1>2, <1>4, <1>6, <1>8, <1>9, <1>10 DEF Sound, Prices!CleaningFee

\* The price of a stay depends on the listing, the rules and the seasons in the table.
LEMMA PriceStays ==
  ASSUME SettlementAssumption, NEW ask \in Prices!Asks, UNCHANGED <<listing, taxes>>,
         \A e \in Season : (season'[e] = "in") <=> (season[e] = "in")
  PROVE Prices!CreatePrice(ask)' = Prices!CreatePrice(ask)
<1>1. ASSUME NEW n PROVE Prices!NightPrice(n)' = Prices!NightPrice(n)
  <2> DEFINE R == {e \in Season : Prices!AppliesOn(e, n)}
             Q == {e \in Season : Prices!AppliesOn(e, n)'}
  <2>1. Q = R
    BY DEF Prices!AppliesOn
  <2>2. Prices!NightPrice(n) = IF R # {} THEN (CHOOSE e \in R : \A f \in R : e.from <= f.from).price
                               ELSE IF n = 1 THEN Prices!WeekendPrice ELSE Prices!BasePrice
    BY DEF Prices!NightPrice
  <2>3. Prices!NightPrice(n)' = IF Q # {} THEN (CHOOSE e \in Q : \A f \in Q : e.from <= f.from).price
                                ELSE IF n = 1 THEN Prices!WeekendPrice ELSE Prices!BasePrice
    BY DEF Prices!NightPrice
  <2> HIDE DEF R, Q
  <2> QED BY <2>1, <2>2, <2>3
<1>2. Prices!Subtotal(ask.len)' = Prices!Subtotal(ask.len)
  <2> DEFINE f == [n \in 1 .. ask.len |-> Prices!NightPrice(n)]
  <2>1. \A n \in 1 .. ask.len : f[n] = Prices!NightPrice(n) /\ f[n] = Prices!NightPrice(n)'
    BY <1>1
  <2>2. ask.len \in Nat
    BY ExtraGuestsType
  <2> HIDE DEF f
  <2>3. Prices!Subtotal(ask.len) = SumOver(f, 1 .. ask.len)
    BY <2>1, <2>2, SubtotalIs
  <2>4. Prices!Subtotal(ask.len)' = SumOver(f, 1 .. ask.len)
    BY <2>1, <2>2, SubtotalWillBe
  <2> QED BY <2>3, <2>4
<1>3. \A base : Prices!TaxLines(ask, base)' = Prices!TaxLines(ask, base)
  BY DEF Prices!TaxLines, Prices!Calculate, Prices!RulesFor, Prices!Matches
<1> QED BY <1>2, <1>3 DEF Prices!CreatePrice, Prices!Priced

-----------------------------------------------------------------------------
\* A quote that is fresh is what Create would ask; the charge of a stay that was never
\* modified is its row's total, and the row is sound.
StayStatuses == {"pending", "confirmed", "completed"}

PriceType ==
  /\ listing.deposit \in Deposits /\ taxes \subseteq TaxRule
  /\ quote.fresh => quote.ask \in Prices!Asks
  /\ row # Prices!NoRow =>
       /\ DOMAIN row = {"status", "subtotal", "discount", "fee", "total"}
       /\ row.status \in StayStatuses /\ row.fee \in Int /\ row.total \in Int

QuoteHolds == row = Prices!NoRow /\ quote.fresh => quote.total = Prices!CreatePrice(quote.ask).total

ChargeAddsUp ==
  row # Prices!NoRow /\ ~deal.modified =>
    /\ charged = row.total
    /\ row.status # "pending" => credit = row.total - row.fee
    /\ quote.fresh /\ quote.ask = deal.ask => charged = quote.total
    /\ row.discount <= row.subtotal
    /\ deal.tax + deal.deposit + Prices!CleaningFee <= charged

PriceInv == PriceType /\ QuoteHolds /\ ChargeAddsUp

LEMMA PriceInit == ASSUME Prices!Init PROVE PriceInv
<1>1. /\ listing.deposit \in Deposits /\ taxes \subseteq TaxRule
      /\ row = Prices!NoRow /\ quote.fresh = FALSE
  BY DEF Prices!Init, Prices!NoQuote
<1> QED BY <1>1 DEF PriceInv, PriceType, QuoteHolds, ChargeAddsUp

\* The catalogue changes: a quote from before is not fresh, or there is a stay.
LEMMA PriceCatalogue ==
  ASSUME PriceInv,
         \/ Prices!EditListing
         \/ \E t \in TaxRule : Prices!CreateTaxRule(t) \/ Prices!DeleteTaxRule(t)
         \/ \E e \in Season : Prices!InsertSeason(e) \/ Prices!DeleteSeason(e)
  PROVE PriceInv'
<1>1. /\ UNCHANGED <<row, charged, deal, credit>>
      /\ quote' = Prices!NoQuote \/ (row # Prices!NoRow /\ quote' = quote)
  BY DEF Prices!EditListing, Prices!CreateTaxRule, Prices!DeleteTaxRule, Prices!InsertSeason,
         Prices!DeleteSeason, Prices!Catalogue, Prices!Stale
<1>2. listing'.deposit \in Deposits
  BY DEF PriceInv, PriceType, Prices!EditListing, Prices!CreateTaxRule, Prices!DeleteTaxRule,
         Prices!InsertSeason, Prices!DeleteSeason
<1>3. taxes' \subseteq TaxRule
  BY DEF PriceInv, PriceType, Prices!EditListing, Prices!CreateTaxRule, Prices!DeleteTaxRule,
         Prices!InsertSeason, Prices!DeleteSeason, Prices!Save
<1>4. CASE quote' = Prices!NoQuote
  <2>1. quote'.fresh = FALSE
    BY <1>4 DEF Prices!NoQuote
  <2> QED BY <1>1, <1>2, <1>3, <2>1 DEF PriceInv, PriceType, QuoteHolds, ChargeAddsUp
<1>5. CASE row # Prices!NoRow /\ quote' = quote
  BY <1>1, <1>2, <1>3, <1>5 DEF PriceInv, PriceType, QuoteHolds, ChargeAddsUp
<1> QED BY <1>1, <1>4, <1>5

\* A seasonal price that is only checked does not count yet.
LEMMA PriceChecks ==
  ASSUME SettlementAssumption, PriceInv, NEW e \in Season, Prices!CheckSeason(e) PROVE PriceInv'
<1>1. /\ season[e] = "none" /\ season' = [season EXCEPT ![e] = "checked"]
      /\ UNCHANGED <<listing, taxes, quote, row, charged, deal, credit>>
  BY DEF Prices!CheckSeason
<1>2. \A x \in Season : (season'[x] = "in") <=> (season[x] = "in")
  BY <1>1
<1>3. ASSUME quote.fresh PROVE Prices!CreatePrice(quote.ask)' = Prices!CreatePrice(quote.ask)
  <2> PICK ask : ask = quote.ask
    OBVIOUS
  <2>1. ask \in Prices!Asks
    BY <1>3 DEF PriceInv, PriceType
  <2>2. Prices!CreatePrice(ask)' = Prices!CreatePrice(ask)
    BY <1>1, <1>2, <2>1, PriceStays
  <2> QED BY <1>1, <2>2
<1>4. QuoteHolds'
  BY <1>1, <1>3 DEF PriceInv, QuoteHolds
<1> QED BY <1>1, <1>4 DEF PriceInv, PriceType, ChargeAddsUp

LEMMA PriceQuotes ==
  ASSUME SettlementAssumption, PriceInv, NEW ask \in Prices!Asks, Prices!Quote(ask) PROVE PriceInv'
<1>1. /\ row = Prices!NoRow
      /\ quote' = [ask |-> ask, total |-> Prices!QuotePrice(ask).total, fresh |-> TRUE]
      /\ UNCHANGED <<listing, taxes, season, row, charged, deal, credit>>
  BY DEF Prices!Quote
<1>2. Prices!QuotePrice(ask) = Prices!CreatePrice(ask)
  BY DEF Prices!QuotePrice, Prices!CreatePrice
<1>3. Prices!CreatePrice(ask)' = Prices!CreatePrice(ask)
  BY <1>1, PriceStays
<1>4. quote'.fresh /\ quote'.ask = ask /\ quote'.total = Prices!CreatePrice(ask).total
  BY <1>1, <1>2
<1>5. QuoteHolds'
  BY <1>3, <1>4 DEF QuoteHolds
<1> QED BY <1>1, <1>4, <1>5 DEF PriceInv, PriceType, ChargeAddsUp

LEMMA PriceCreates ==
  ASSUME SettlementAssumption, PriceInv, NEW ask \in Prices!Asks, Prices!Create(ask) PROVE PriceInv'
<1> PICK p : p = Prices!CreatePrice(ask)
  OBVIOUS
<1>1. /\ row = Prices!NoRow
      /\ row' = [status |-> "pending", subtotal |-> p.subtotal, discount |-> p.discount,
                 fee |-> p.fee, total |-> p.total]
      /\ charged' = p.total
      /\ deal' = [ask |-> ask, tax |-> Prices!Sum(p.lines), deposit |-> p.deposit, modified |-> FALSE]
      /\ UNCHANGED <<listing, taxes, season, quote, credit>>
  BY DEF Prices!Create, Prices!Stored, Prices!Charge
<1>2. Sound(p)
  BY PriceIsSound DEF PriceInv, PriceType
<1>3. /\ DOMAIN row' = {"status", "subtotal", "discount", "fee", "total"}
      /\ row'.status = "pending" /\ row'.fee = p.fee /\ row'.total = p.total
      /\ row'.discount = p.discount /\ row'.subtotal = p.subtotal
      /\ deal'.ask = ask /\ deal'.tax = Prices!Sum(p.lines) /\ deal'.deposit = p.deposit
  BY <1>1
<1>4. row' # Prices!NoRow
  BY <1>3 DEF Prices!NoRow
<1>5. quote.fresh /\ quote.ask = ask => p.total = quote.total
  BY <1>1 DEF PriceInv, QuoteHolds
<1>6. PriceType'
  BY <1>1, <1>2, <1>3 DEF PriceInv, PriceType, Sound, StayStatuses
<1>7. QuoteHolds'
  BY <1>4 DEF QuoteHolds
<1>8. ChargeAddsUp'
  BY <1>1, <1>2, <1>3, <1>5 DEF ChargeAddsUp, Sound
<1> QED BY <1>6, <1>7, <1>8 DEF PriceInv

\* The stay goes on: modified, confirmed or completed.
LEMMA PriceGoesOn ==
  ASSUME PriceInv, Prices!Confirm \/ Prices!Complete \/ \E ask \in Prices!Asks : Prices!Modify(ask)
  PROVE PriceInv'
<1>1. CASE \E ask \in Prices!Asks : Prices!Modify(ask)
  <2>1. UNCHANGED <<listing, taxes, season, quote, row, credit>> /\ row.status = "pending"
    BY <1>1 DEF Prices!Modify
  <2>2. deal'.modified
    BY <1>1 DEF Prices!Modify, Prices!Charge
  <2>3. row # Prices!NoRow
    BY <2>1 DEF Prices!NoRow
  <2> QED BY <2>1, <2>2, <2>3 DEF PriceInv, PriceType, QuoteHolds, ChargeAddsUp
<1>2. CASE Prices!Confirm \/ Prices!Complete
  <2> PICK status \in {"confirmed", "completed"} : row' = [row EXCEPT !.status = status]
    BY <1>2 DEF Prices!Confirm, Prices!Complete
  <2>1. /\ UNCHANGED <<listing, taxes, season, quote, charged, deal>>
        /\ \/ row.status = "pending" /\ credit' = row.total - row.fee
           \/ row.status = "confirmed" /\ credit' = credit
    BY <1>2 DEF Prices!Confirm, Prices!Complete, Prices!HostNet, Prices!Scanned
  <2>2. row # Prices!NoRow
    BY <2>1 DEF Prices!NoRow
  <2>3. /\ DOMAIN row' = {"status", "subtotal", "discount", "fee", "total"}
        /\ row'.status = status /\ row'.fee = row.fee /\ row'.total = row.total
        /\ row'.discount = row.discount /\ row'.subtotal = row.subtotal
    BY <2>2 DEF PriceInv, PriceType
  <2>4. row' # Prices!NoRow
    BY <2>3 DEF Prices!NoRow
  <2>5. PriceType' /\ QuoteHolds'
    BY <2>1, <2>2, <2>3, <2>4 DEF PriceInv, PriceType, QuoteHolds, StayStatuses
  <2>6. ChargeAddsUp'
    BY <2>1, <2>2, <2>3, <2>4 DEF PriceInv, ChargeAddsUp
  <2> QED BY <2>5, <2>6 DEF PriceInv
<1> QED BY <1>1, <1>2

LEMMA PriceStep ==
  ASSUME SettlementAssumption, PriceInv, [Prices!Next]_(Prices!settlementVars) PROVE PriceInv'
<1>1. CASE UNCHANGED Prices!settlementVars
  <2>1. UNCHANGED <<listing, taxes, season, quote, row, charged, deal, credit>>
    BY <1>1 DEF Prices!settlementVars
  <2>2. quote.fresh => Prices!CreatePrice(quote.ask)' = Prices!CreatePrice(quote.ask)
    <3> PICK ask : ask = quote.ask
      OBVIOUS
    <3>1. quote.fresh => Prices!CreatePrice(ask)' = Prices!CreatePrice(ask)
      BY <2>1, PriceStays DEF PriceInv, PriceType
    <3> QED BY <2>1, <3>1
  <2> QED BY <2>1, <2>2 DEF PriceInv, PriceType, QuoteHolds, ChargeAddsUp
<1>2. CASE Prices!Next
  BY <1>2, PriceCatalogue, PriceChecks, PriceQuotes, PriceCreates, PriceGoesOn DEF Prices!Next
<1> QED BY <1>1, <1>2

\* The invariant adds up the money of a stay.
LEMMA PriceMeans == ASSUME PriceInv PROVE Prices!UnmodifiedAddsUp
<1>1. row # Prices!NoRow => row.fee \in Int /\ row.total \in Int
  BY DEF PriceInv, PriceType
<1> QED BY <1>1 DEF PriceInv, ChargeAddsUp, Prices!UnmodifiedAddsUp, Prices!Settled

-----------------------------------------------------------------------------
(* The repositories in memory and in Postgres: Stores.                     *)

\* No user goes by the name that a missing row has for its owner.
StoresAssumption == "none" \notin Owner

\* Rows of the table can go, other than with their parent.
Removable(p) == "delete" \in p.ops \/ p.erase = "delete" \/ p.dup \in {"merge", "replace"}
Exclusive(p) == p.dup \in {"refuse", "active"}

\* Where a repository in memory does as the one in Postgres, and which gap stands for the
\* difference where it does not.
Alike(p, q, gaps) ==
  /\ p.parent = "none" /\ p.indexed = FALSE /\ q.indexed = TRUE
  /\ p.gone = q.gone /\ p.erase = q.erase
  /\ p.dup = q.dup \/ (p.dup = "allow" /\ Exclusive(q) /\ "double" \in gaps)
  /\ Removable(p) => p.missing = q.missing \/ "missing" \in gaps
  /\ Removable(p) /\ p.missing = "insert" => p.dup = "allow" /\ q.dup = "allow" /\ q.parent = "none"
  /\ p.writes = Twin!Columns
  /\ "rest" \in q.writes \/ "rest" \in gaps
  /\ "status" \in q.writes
  /\ {"key", "owner"} \subseteq q.writes \/ (~ "rename" \in p.ops /\ p.erase = "none" /\ q.dup # "merge")
  /\ "rename" \in p.ops => "taken" \in gaps /\ p.dup = "refuse"
  /\ p.dup = "active" => "revived" \in gaps /\ ~ "rename" \in p.ops

LEMMA GapsAre ==
  /\ table \in {"payments", "earnings", "bookings"} => "double" \in Twin!Gaps
  /\ table \in {"bookings", "users", "properties"} => "rest" \in Twin!Gaps
  /\ table = "users" => "taken" \in Twin!Gaps
  /\ table = "properties" => "missing" \in Twin!Gaps
  /\ table = "disputes" => "revived" \in Twin!Gaps
BY DEF Twin!Gaps

LEMMA RepositoriesAlike ==
  ASSUME table \in Twin!Tables PROVE Alike(Twin!InStore, Twin!InTable, Twin!Gaps)
<1> PICK gaps : gaps = Twin!Gaps
  OBVIOUS
<1> PICK p, q : p = Twin!InStore /\ q = Twin!InTable
  OBVIOUS
<1>0. /\ table \in {"payments", "earnings", "bookings"} => "double" \in gaps
      /\ table \in {"bookings", "users", "properties"} => "rest" \in gaps
      /\ table = "users" => "taken" \in gaps
      /\ table = "properties" => "missing" \in gaps
      /\ table = "disputes" => "revived" \in gaps
  BY GapsAre
<1>1. CASE table = "users"
  <2>1. p = Twin!MemoryUsers /\ q = Twin!DurableUsers
    BY <1>1 DEF Twin!InStore, Twin!InTable, Twin!Repositories
  <2> QED BY <1>0, <1>1, <2>1 DEF Alike, Removable, Exclusive, Twin!Columns, Twin!InMemory, Twin!InPostgres,
             Twin!MemoryUsers, Twin!DurableUsers
<1>2. CASE table = "properties"
  <2>1. p = Twin!MemoryProperties /\ q = Twin!DurableProperties
    BY <1>2 DEF Twin!InStore, Twin!InTable, Twin!Repositories
  <2> QED BY <1>0, <1>2, <2>1 DEF Alike, Removable, Exclusive, Twin!Columns, Twin!InMemory, Twin!InPostgres,
             Twin!MemoryProperties, Twin!DurableProperties
<1>3. CASE table = "bookings"
  <2>1. p = Twin!MemoryBookings /\ q = Twin!DurableBookings
    BY <1>3 DEF Twin!InStore, Twin!InTable, Twin!Repositories
  <2> QED BY <1>0, <1>3, <2>1 DEF Alike, Removable, Exclusive, Twin!Columns, Twin!InMemory, Twin!InPostgres,
             Twin!MemoryBookings, Twin!DurableBookings
<1>4. CASE table = "reviews"
  <2>1. p = Twin!MemoryReviews /\ q = Twin!DurableReviews
    BY <1>4 DEF Twin!InStore, Twin!InTable, Twin!Repositories
  <2> QED BY <1>0, <1>4, <2>1 DEF Alike, Removable, Exclusive, Twin!Columns, Twin!InMemory, Twin!InPostgres,
             Twin!MemoryReviews, Twin!DurableReviews
<1>5. CASE table = "conversations"
  <2>1. p = Twin!MemoryConversations /\ q = Twin!DurableConversations
    BY <1>5 DEF Twin!InStore, Twin!InTable, Twin!Repositories
  <2> QED BY <1>0, <1>5, <2>1 DEF Alike, Removable, Exclusive, Twin!Columns, Twin!InMemory, Twin!InPostgres,
             Twin!MemoryConversations, Twin!DurableConversations
<1>6. CASE table = "favorites"
  <2>1. p = Twin!MemoryFavorites /\ q = Twin!DurableFavorites
    BY <1>6 DEF Twin!InStore, Twin!InTable, Twin!Repositories
  <2> QED BY <1>0, <1>6, <2>1 DEF Alike, Removable, Exclusive, Twin!Columns, Twin!InMemory, Twin!InPostgres,
             Twin!MemoryFavorites, Twin!DurableFavorites
<1>7. CASE table = "collections"
  <2>1. p = Twin!MemoryCollections /\ q = Twin!DurableCollections
    BY <1>7 DEF Twin!InStore, Twin!InTable, Twin!Repositories
  <2> QED BY <1>0, <1>7, <2>1 DEF Alike, Removable, Exclusive, Twin!Columns, Twin!InMemory, Twin!InPostgres,
             Twin!MemoryCollections, Twin!DurableCollections
<1>8. CASE table = "notifications"
  <2>1. p = Twin!MemoryNotifications /\ q = Twin!DurableNotifications
    BY <1>8 DEF Twin!InStore, Twin!InTable, Twin!Repositories
  <2> QED BY <1>0, <1>8, <2>1 DEF Alike, Removable, Exclusive, Twin!Columns, Twin!InMemory, Twin!InPostgres,
             Twin!MemoryNotifications, Twin!DurableNotifications
<1>9. CASE table = "payments"
  <2>1. p = Twin!MemoryPayments /\ q = Twin!DurablePayments
    BY <1>9 DEF Twin!InStore, Twin!InTable, Twin!Repositories
  <2> QED BY <1>0, <1>9, <2>1 DEF Alike, Removable, Exclusive, Twin!Columns, Twin!InMemory, Twin!InPostgres,
             Twin!MemoryPayments, Twin!DurablePayments
<1>10. CASE table = "earnings"
  <2>1. p = Twin!MemoryEarnings /\ q = Twin!DurableEarnings
    BY <1>10 DEF Twin!InStore, Twin!InTable, Twin!Repositories
  <2> QED BY <1>0, <1>10, <2>1 DEF Alike, Removable, Exclusive, Twin!Columns, Twin!InMemory, Twin!InPostgres,
             Twin!MemoryEarnings, Twin!DurableEarnings
<1>11. CASE table = "disbursements"
  <2>1. p = Twin!MemoryDisbursements /\ q = Twin!DurableDisbursements
    BY <1>11 DEF Twin!InStore, Twin!InTable, Twin!Repositories
  <2> QED BY <1>0, <1>11, <2>1 DEF Alike, Removable, Exclusive, Twin!Columns, Twin!InMemory, Twin!InPostgres,
             Twin!MemoryDisbursements, Twin!DurableDisbursements
<1>12. CASE table = "blocks"
  <2>1. p = Twin!MemoryBlocks /\ q = Twin!DurableBlocks
    BY <1>12 DEF Twin!InStore, Twin!InTable, Twin!Repositories
  <2> QED BY <1>0, <1>12, <2>1 DEF Alike, Removable, Exclusive, Twin!Columns, Twin!InMemory, Twin!InPostgres,
             Twin!MemoryBlocks, Twin!DurableBlocks
<1>13. CASE table = "verifications"
  <2>1. p = Twin!MemoryVerifications /\ q = Twin!DurableVerifications
    BY <1>13 DEF Twin!InStore, Twin!InTable, Twin!Repositories
  <2> QED BY <1>0, <1>13, <2>1 DEF Alike, Removable, Exclusive, Twin!Columns, Twin!InMemory, Twin!InPostgres,
             Twin!MemoryVerifications, Twin!DurableVerifications
<1>14. CASE table = "reports"
  <2>1. p = Twin!MemoryReports /\ q = Twin!DurableReports
    BY <1>14 DEF Twin!InStore, Twin!InTable, Twin!Repositories
  <2> QED BY <1>0, <1>14, <2>1 DEF Alike, Removable, Exclusive, Twin!Columns, Twin!InMemory, Twin!InPostgres,
             Twin!MemoryReports, Twin!DurableReports
<1>15. CASE table = "userBlocks"
  <2>1. p = Twin!MemoryUserBlocks /\ q = Twin!DurableUserBlocks
    BY <1>15 DEF Twin!InStore, Twin!InTable, Twin!Repositories
  <2> QED BY <1>0, <1>15, <2>1 DEF Alike, Removable, Exclusive, Twin!Columns, Twin!InMemory, Twin!InPostgres,
             Twin!MemoryUserBlocks, Twin!DurableUserBlocks
<1>16. CASE table = "offers"
  <2>1. p = Twin!MemoryOffers /\ q = Twin!DurableOffers
    BY <1>16 DEF Twin!InStore, Twin!InTable, Twin!Repositories
  <2> QED BY <1>0, <1>16, <2>1 DEF Alike, Removable, Exclusive, Twin!Columns, Twin!InMemory, Twin!InPostgres,
             Twin!MemoryOffers, Twin!DurableOffers
<1>17. CASE table = "searches"
  <2>1. p = Twin!MemorySearches /\ q = Twin!DurableSearches
    BY <1>17 DEF Twin!InStore, Twin!InTable, Twin!Repositories
  <2> QED BY <1>0, <1>17, <2>1 DEF Alike, Removable, Exclusive, Twin!Columns, Twin!InMemory, Twin!InPostgres,
             Twin!MemorySearches, Twin!DurableSearches
<1>18. CASE table = "priceRules"
  <2>1. p = Twin!MemoryPriceRules /\ q = Twin!DurablePriceRules
    BY <1>18 DEF Twin!InStore, Twin!InTable, Twin!Repositories
  <2> QED BY <1>0, <1>18, <2>1 DEF Alike, Removable, Exclusive, Twin!Columns, Twin!InMemory, Twin!InPostgres,
             Twin!MemoryPriceRules, Twin!DurablePriceRules
<1>19. CASE table = "coupons"
  <2>1. p = Twin!MemoryCoupons /\ q = Twin!DurableCoupons
    BY <1>19 DEF Twin!InStore, Twin!InTable, Twin!Repositories
  <2> QED BY <1>0, <1>19, <2>1 DEF Alike, Removable, Exclusive, Twin!Columns, Twin!InMemory, Twin!InPostgres,
             Twin!MemoryCoupons, Twin!DurableCoupons
<1>20. CASE table = "pushTokens"
  <2>1. p = Twin!MemoryPushTokens /\ q = Twin!DurablePushTokens
    BY <1>20 DEF Twin!InStore, Twin!InTable, Twin!Repositories
  <2> QED BY <1>0, <1>20, <2>1 DEF Alike, Removable, Exclusive, Twin!Columns, Twin!InMemory, Twin!InPostgres,
             Twin!MemoryPushTokens, Twin!DurablePushTokens
<1>21. CASE table = "disputes"
  <2>1. p = Twin!MemoryDisputes /\ q = Twin!DurableDisputes
    BY <1>21 DEF Twin!InStore, Twin!InTable, Twin!Repositories
  <2> QED BY <1>0, <1>21, <2>1 DEF Alike, Removable, Exclusive, Twin!Columns, Twin!InMemory, Twin!InPostgres,
             Twin!MemoryDisputes, Twin!DurableDisputes
<1>22. CASE table = "deposits"
  <2>1. p = Twin!MemoryDeposits /\ q = Twin!DurableDeposits
    BY <1>22 DEF Twin!InStore, Twin!InTable, Twin!Repositories
  <2> QED BY <1>0, <1>22, <2>1 DEF Alike, Removable, Exclusive, Twin!Columns, Twin!InMemory, Twin!InPostgres,
             Twin!MemoryDeposits, Twin!DurableDeposits
<1>23. CASE table = "cohosts"
  <2>1. p = Twin!MemoryCohosts /\ q = Twin!DurableCohosts
    BY <1>23 DEF Twin!InStore, Twin!InTable, Twin!Repositories
  <2> QED BY <1>0, <1>23, <2>1 DEF Alike, Removable, Exclusive, Twin!Columns, Twin!InMemory, Twin!InPostgres,
             Twin!MemoryCohosts, Twin!DurableCohosts
<1>24. CASE table = "splits"
  <2>1. p = Twin!MemorySplits /\ q = Twin!DurableSplits
    BY <1>24 DEF Twin!InStore, Twin!InTable, Twin!Repositories
  <2> QED BY <1>0, <1>24, <2>1 DEF Alike, Removable, Exclusive, Twin!Columns, Twin!InMemory, Twin!InPostgres,
             Twin!MemorySplits, Twin!DurableSplits
<1>25. CASE table = "templates"
  <2>1. p = Twin!MemoryTemplates /\ q = Twin!DurableTemplates
    BY <1>25 DEF Twin!InStore, Twin!InTable, Twin!Repositories
  <2> QED BY <1>0, <1>25, <2>1 DEF Alike, Removable, Exclusive, Twin!Columns, Twin!InMemory, Twin!InPostgres,
             Twin!MemoryTemplates, Twin!DurableTemplates
<1>26. CASE table = "audit"
  <2>1. p = Twin!MemoryAudit /\ q = Twin!DurableAudit
    BY <1>26 DEF Twin!InStore, Twin!InTable, Twin!Repositories
  <2> QED BY <1>0, <1>26, <2>1 DEF Alike, Removable, Exclusive, Twin!Columns, Twin!InMemory, Twin!InPostgres,
             Twin!MemoryAudit, Twin!DurableAudit
<1>27. CASE table = "houseRules"
  <2>1. p = Twin!MemoryHouseRules /\ q = Twin!DurableHouseRules
    BY <1>27 DEF Twin!InStore, Twin!InTable, Twin!Repositories
  <2> QED BY <1>0, <1>27, <2>1 DEF Alike, Removable, Exclusive, Twin!Columns, Twin!InMemory, Twin!InPostgres,
             Twin!MemoryHouseRules, Twin!DurableHouseRules
<1>28. CASE table = "acceptances"
  <2>1. p = Twin!MemoryAcceptances /\ q = Twin!DurableAcceptances
    BY <1>28 DEF Twin!InStore, Twin!InTable, Twin!Repositories
  <2> QED BY <1>0, <1>28, <2>1 DEF Alike, Removable, Exclusive, Twin!Columns, Twin!InMemory, Twin!InPostgres,
             Twin!MemoryAcceptances, Twin!DurableAcceptances
<1>29. CASE table = "taxRules"
  <2>1. p = Twin!MemoryTaxRules /\ q = Twin!DurableTaxRules
    BY <1>29 DEF Twin!InStore, Twin!InTable, Twin!Repositories
  <2> QED BY <1>0, <1>29, <2>1 DEF Alike, Removable, Exclusive, Twin!Columns, Twin!InMemory, Twin!InPostgres,
             Twin!MemoryTaxRules, Twin!DurableTaxRules
<1>30. CASE table = "assessments"
  <2>1. p = Twin!MemoryAssessments /\ q = Twin!DurableAssessments
    BY <1>30 DEF Twin!InStore, Twin!InTable, Twin!Repositories
  <2> QED BY <1>0, <1>30, <2>1 DEF Alike, Removable, Exclusive, Twin!Columns, Twin!InMemory, Twin!InPostgres,
             Twin!MemoryAssessments, Twin!DurableAssessments
<1>31. CASE table = "experiences"
  <2>1. p = Twin!MemoryExperiences /\ q = Twin!DurableExperiences
    BY <1>31 DEF Twin!InStore, Twin!InTable, Twin!Repositories
  <2> QED BY <1>0, <1>31, <2>1 DEF Alike, Removable, Exclusive, Twin!Columns, Twin!InMemory, Twin!InPostgres,
             Twin!MemoryExperiences, Twin!DurableExperiences
<1>32. CASE table = "experienceBookings"
  <2>1. p = Twin!MemoryExperienceBookings /\ q = Twin!DurableExperienceBookings
    BY <1>32 DEF Twin!InStore, Twin!InTable, Twin!Repositories
  <2> QED BY <1>0, <1>32, <2>1 DEF Alike, Removable, Exclusive, Twin!Columns, Twin!InMemory, Twin!InPostgres,
             Twin!MemoryExperienceBookings, Twin!DurableExperienceBookings
<1> QED BY <1>1, <1>2, <1>3, <1>4, <1>5, <1>6, <1>7, <1>8, <1>9, <1>10, <1>11, <1>12, <1>13,
       <1>14, <1>15, <1>16, <1>17, <1>18, <1>19, <1>20, <1>21, <1>22, <1>23, <1>24, <1>25, <1>26,
       <1>27, <1>28, <1>29, <1>30, <1>31, <1>32 DEF Twin!Tables

-----------------------------------------------------------------------------
Records(s) == s = [r \in Ident |-> s[r]] /\ \A r \in Ident : DOMAIN s[r] = Twin!Columns

\* No two rows have one key where an index forbids it; an ended row does not count for
\* the one of disputes.
Distinct(s, p, q) ==
  Exclusive(q) =>
    \A x, y \in Twin!Rows(s) : x # y /\ s[x].key = s[y].key =>
      p.dup = "active" /\ (s[x].status = "ended" \/ s[y].status = "ended")

\* What a loaded copy says of the row as it is now.
CopyKnown(c, s, given, p) ==
  c # Twin!NoCopy =>
    /\ c.r \in Ident /\ c.r \in given /\ DOMAIN c.memory = Twin!Columns
    /\ s[c.r] # Twin!Absent =>
         /\ c.memory.key = s[c.r].key
         /\ p.erase = "none" /\ p.dup # "merge" => c.memory.owner = s[c.r].owner
    /\ ~Removable(p) => s[c.r] # Twin!Absent

StoreCore ==
  /\ table \in Twin!Tables /\ durable = memory /\ answer.durable = answer.memory
  /\ Records(memory) /\ Twin!Rows(memory) \subseteq used
  /\ ~parent => Twin!InTable.parent # "none" /\ Twin!Rows(memory) = {}
  /\ CopyKnown(copy, memory, used, Twin!InStore)
  /\ Distinct(memory, Twin!InStore, Twin!InTable)
  /\ DOMAIN total = {"memory", "durable", "open", "old"}
  /\ total.open /\ ~total.old => total.durable = Twin!Cardinality(Twin!Rows(memory))

StoreInv == seen = {} => StoreCore

LEMMA StoreInit == ASSUME Twin!Init PROVE StoreInv
<1>1. /\ table \in Twin!Tables
      /\ memory = [r \in Ident |-> Twin!Absent] /\ durable = [r \in Ident |-> Twin!Absent]
      /\ parent = TRUE /\ used = {} /\ copy = Twin!NoCopy /\ total = Twin!NoCount
      /\ answer.memory = "none" /\ answer.durable = "none"
  BY DEF Twin!Init, Twin!Same
<1>2. Records(memory) /\ Twin!Rows(memory) = {}
  BY <1>1 DEF Records, Twin!Rows, Twin!Absent, Twin!Columns
<1>3. DOMAIN total = {"memory", "durable", "open", "old"} /\ total.open = FALSE
  BY <1>1 DEF Twin!NoCount
<1> QED BY <1>1, <1>2, <1>3 DEF StoreInv, StoreCore, CopyKnown, Distinct

\* One row after another.
Follows(old, new, p) ==
  /\ new # Twin!Absent =>
       /\ old # Twin!Absent /\ new.key = old.key
       /\ p.erase = "none" /\ p.dup # "merge" => new.owner = old.owner
  /\ new = Twin!Absent => old = Twin!Absent \/ Removable(p)

LEMMA CopyFollows ==
  ASSUME NEW c, NEW s, NEW t, NEW given, NEW more, NEW p, CopyKnown(c, s, given, p), given \subseteq more,
         c # Twin!NoCopy => Follows(s[c.r], t[c.r], p)
  PROVE CopyKnown(c, t, more, p)
BY DEF CopyKnown, Follows

LEMMA DistinctStays ==
  ASSUME NEW s, NEW t, NEW p, NEW q, Distinct(s, p, q),
         \A x \in Ident : t[x] # Twin!Absent =>
           s[x] # Twin!Absent /\ t[x].key = s[x].key /\ t[x].status = s[x].status
  PROVE Distinct(t, p, q)
BY DEF Distinct, Twin!Rows

LEMMA TableStays ==
  ASSUME UNCHANGED table
  PROVE Twin!InStore' = Twin!InStore /\ Twin!InTable' = Twin!InTable /\ Twin!Gaps' = Twin!Gaps
<1>1. Twin!InStore' = Twin!InStore /\ Twin!InTable' = Twin!InTable
  BY DEF Twin!InStore, Twin!InTable, Twin!Repositories
<1> QED BY <1>1 DEF Twin!Gaps

\* The rows change, in both stores alike.
LEMMA StoreKeeps ==
  ASSUME StoreCore, UNCHANGED table, durable' = memory', answer'.durable = answer'.memory,
         Records(memory'), Twin!Rows(memory') \subseteq used',
         ~parent' => Twin!InTable.parent # "none" /\ Twin!Rows(memory') = {},
         CopyKnown(copy', memory', used', Twin!InStore), Distinct(memory', Twin!InStore, Twin!InTable),
         Twin!Outdated
  PROVE StoreInv'
<1>1. Twin!InStore' = Twin!InStore /\ Twin!InTable' = Twin!InTable
  BY TableStays
<1>2. DOMAIN total' = DOMAIN total /\ total'.open = total.open /\ total'.old = total.open
  BY DEF Twin!Outdated, StoreCore
<1>3. /\ (Twin!Rows(memory) \subseteq used)' <=> Twin!Rows(memory') \subseteq used'
      /\ (Twin!Rows(memory) = {})' <=> Twin!Rows(memory') = {}
  OBVIOUS
<1>4. Records(memory)' /\ CopyKnown(copy, memory, used, Twin!InStore)'
  BY <1>1 DEF Records, CopyKnown
<1>5. Distinct(memory, Twin!InStore, Twin!InTable)'
  BY <1>1 DEF Distinct
<1> QED BY <1>1, <1>2, <1>3, <1>4, <1>5 DEF StoreInv, StoreCore

-----------------------------------------------------------------------------
\* An insert does the same to both, unless the index of one finds a twin.
LEMMA StoreInserts ==
  ASSUME StoreCore, NEW r \in Ident, NEW rec, DOMAIN rec = Twin!Columns,
         parent \/ Twin!InTable.parent = "none",
         Twin!InStore.dup # Twin!InTable.dup =>
           \A x \in Twin!Rows(memory) \ {r} : memory[x].key # rec.key
  PROVE LET a == Twin!Insert(memory, Twin!InStore, r, rec)
        IN  /\ Twin!Insert(durable, Twin!InTable, r, rec) = a
            /\ Records(a.rows) /\ Distinct(a.rows, Twin!InStore, Twin!InTable)
            /\ \A x \in Ident \ {r} : Follows(memory[x], a.rows[x], Twin!InStore)
<1> PICK p, q, s : p = Twin!InStore /\ q = Twin!InTable /\ s = memory
  OBVIOUS
<1>1. Alike(p, q, Twin!Gaps)
  BY RepositoriesAlike DEF StoreCore
<1>2. /\ Records(s) /\ Distinct(s, p, q) /\ durable = s
      /\ p.dup # q.dup => \A x \in Twin!Rows(s) \ {r} : s[x].key # rec.key
      /\ ~(p.parent # "none" /\ ~parent) /\ ~(q.parent # "none" /\ ~parent)
  BY <1>1 DEF StoreCore, Alike
<1> DEFINE tw == Twin!Twins(s, p, r, rec)
           a == Twin!Insert(s, p, r, rec)
<1>3. p.dup # q.dup => Twin!Twins(s, q, r, rec) = {} /\ tw = {}
  BY <1>2 DEF Twin!Twins
<1>4. p.dup = q.dup => Twin!Twins(s, q, r, rec) = tw
  BY DEF Twin!Twins
<1>5. Twin!Insert(s, q, r, rec) = a
  BY <1>2, <1>3, <1>4 DEF Twin!Insert
<1>6. tw = {x \in Twin!Rows(s) \ {r} : /\ s[x].key = rec.key
                                       /\ p.dup = "active" => s[x].status # "ended" /\ rec.status # "ended"}
  BY DEF Twin!Twins
<1>7. \/ a.rows = s
      \/ a.rows = [s EXCEPT ![r] = rec] /\ (tw = {} \/ p.dup = "allow")
      \/ /\ a.rows = [x \in Ident |-> IF x \in tw THEN [s[x] EXCEPT !.owner = rec.owner, !.status = rec.status]
                                      ELSE s[x]]
         /\ p.dup = "merge"
      \/ /\ a.rows = [[x \in Ident |-> IF x \in tw THEN Twin!Absent ELSE s[x]] EXCEPT ![r] = rec]
         /\ p.dup = "replace"
  BY <1>2 DEF Twin!Insert
<1> HIDE DEF a, tw
<1>8. CASE a.rows = s
  <2>1. \A x \in Ident \ {r} : Follows(s[x], a.rows[x], p)
    BY <1>8 DEF Follows
  <2> QED BY <1>2, <1>5, <1>8, <2>1 DEF a
<1>9. CASE a.rows = [s EXCEPT ![r] = rec] /\ (tw = {} \/ p.dup = "allow")
  <2>1. Records(a.rows) /\ \A x \in Ident : a.rows[x] = IF x = r THEN rec ELSE s[x]
    BY <1>2, <1>9 DEF Records
  <2>2. \A x \in Ident \ {r} : Follows(s[x], a.rows[x], p)
    BY <2>1 DEF Follows
  <2>3. ASSUME Exclusive(q), NEW x \in Twin!Rows(s) \ {r}, s[x].key = rec.key
        PROVE p.dup = "active" /\ (s[x].status = "ended" \/ rec.status = "ended")
    <3>1. p.dup = q.dup /\ tw = {}
      BY <1>2, <1>9, <2>3 DEF Exclusive
    <3> QED BY <1>6, <2>3, <3>1
  <2>4. Distinct(a.rows, p, q)
    BY <1>2, <2>1, <2>3 DEF Distinct, Twin!Rows
  <2> QED BY <1>2, <1>5, <2>1, <2>2, <2>4 DEF a
<1>10. CASE /\ a.rows = [x \in Ident |-> IF x \in tw THEN [s[x] EXCEPT !.owner = rec.owner, !.status = rec.status]
                                         ELSE s[x]]
            /\ p.dup = "merge"
  <2>1. \A x \in Ident : /\ DOMAIN a.rows[x] = Twin!Columns /\ a.rows[x].key = s[x].key
                         /\ x \notin tw => a.rows[x] = s[x]
    <3>1. ASSUME NEW x \in Ident, x \in tw
          PROVE DOMAIN a.rows[x] = Twin!Columns /\ a.rows[x].key = s[x].key
      <4> PICK u : u = s[x]
        OBVIOUS
      <4>1. a.rows[x] = [u EXCEPT !.owner = rec.owner, !.status = rec.status]
        BY <1>10, <3>1
      <4>2. DOMAIN u = Twin!Columns /\ "key" \in DOMAIN u
        BY <1>2 DEF Records, Twin!Columns
      <4>3. DOMAIN a.rows[x] = DOMAIN u
        BY <4>1
      <4>4. a.rows[x].key = u.key
        BY <4>1, <4>2
      <4> QED BY <4>2, <4>3, <4>4
    <3>2. ASSUME NEW x \in Ident, x \notin tw PROVE a.rows[x] = s[x] /\ DOMAIN s[x] = Twin!Columns
      BY <1>2, <1>10, <3>2 DEF Records
    <3> QED BY <3>1, <3>2
  <2>2. Records(a.rows)
    BY <1>10, <2>1 DEF Records
  <2>3. \A x \in tw : s[x] # Twin!Absent
    BY <1>6 DEF Twin!Rows
  <2>4. \A x \in Ident \ {r} : Follows(s[x], a.rows[x], p)
    BY <1>10, <2>1, <2>3 DEF Follows, Removable
  <2>5. Distinct(a.rows, p, q)
    BY <1>1, <1>10 DEF Distinct, Alike, Exclusive
  <2> QED BY <1>2, <1>5, <2>2, <2>4, <2>5 DEF a
<1>11. CASE /\ a.rows = [[x \in Ident |-> IF x \in tw THEN Twin!Absent ELSE s[x]] EXCEPT ![r] = rec]
            /\ p.dup = "replace"
  <2>1. Records(a.rows) /\ \A x \in Ident \ {r} : a.rows[x] = s[x] \/ a.rows[x] = Twin!Absent
    BY <1>2, <1>11 DEF Records, Twin!Absent, Twin!Columns
  <2>2. \A x \in Ident \ {r} : Follows(s[x], a.rows[x], p)
    BY <1>11, <2>1 DEF Follows, Removable
  <2>3. Distinct(a.rows, p, q)
    BY <1>1, <1>11 DEF Distinct, Alike, Exclusive
  <2> QED BY <1>2, <1>5, <2>1, <2>2, <2>3 DEF a
<1> QED BY <1>7, <1>8, <1>9, <1>10, <1>11

\* A change does the same to both, unless it falls into a gap.
LEMMA StoreModifies ==
  ASSUME StoreCore, copy # Twin!NoCopy, NEW rec, DOMAIN rec = Twin!Columns,
         rec.owner = copy.memory.owner,
         rec.key = copy.memory.key \/ ("rename" \in Twin!InStore.ops /\ rec.key \in Key),
         "taken" \in Twin!Gaps => \A x \in Twin!Rows(memory) \ {copy.r} : memory[x].key # rec.key,
         "rest" \in Twin!Gaps => rec.rest = memory[copy.r].rest,
         "missing" \in Twin!Gaps => memory[copy.r] # Twin!Absent,
         "revived" \in Twin!Gaps => ~(memory[copy.r].status = "ended" /\ rec.status # "ended")
  PROVE LET a == Twin!Modify(memory, Twin!InStore, copy.r, rec)
        IN  /\ Twin!Modify(durable, Twin!InTable, copy.r, rec) = a
            /\ Records(a.rows) /\ Distinct(a.rows, Twin!InStore, Twin!InTable)
            /\ Twin!Rows(a.rows) \subseteq used
            /\ ~parent => Twin!Rows(a.rows) = {}
<1> PICK p, q, s, r, gaps : p = Twin!InStore /\ q = Twin!InTable /\ s = memory /\ r = copy.r /\ gaps = Twin!Gaps
  OBVIOUS
<1>1. Alike(p, q, gaps)
  BY RepositoriesAlike DEF StoreCore
<1>2. /\ Records(s) /\ Distinct(s, p, q) /\ durable = s /\ Twin!Rows(s) \subseteq used
      /\ ~parent => q.parent # "none" /\ Twin!Rows(s) = {}
      /\ CopyKnown(copy, s, used, p)
  BY DEF StoreCore
<1>3. r \in Ident /\ r \in used /\ (~Removable(p) => s[r] # Twin!Absent)
  BY <1>2 DEF CopyKnown
<1> DEFINE a == Twin!Modify(s, p, r, rec)
<1>4. CASE s[r] = Twin!Absent /\ p.missing = "insert"
  <2>1. Removable(p) /\ p.dup = "allow" /\ q.dup = "allow" /\ q.parent = "none" /\ q.missing = "insert"
    BY <1>1, <1>3, <1>4 DEF Alike
  <2>2. a = Twin!Insert(s, p, r, rec)
    BY <1>4 DEF Twin!Modify
  <2>3. Twin!Modify(s, q, r, rec) = Twin!Insert(s, q, r, rec)
    BY <1>4, <2>1 DEF Twin!Modify
  <2>4. /\ Twin!Insert(s, q, r, rec) = Twin!Insert(s, p, r, rec)
        /\ Records(Twin!Insert(s, p, r, rec).rows)
    <3>1. parent \/ Twin!InTable.parent = "none"
      BY <2>1
    <3>2. Twin!InStore.dup = Twin!InTable.dup
      BY <2>1
    <3> QED BY <1>2, <1>3, <3>1, <3>2, StoreInserts
  <2>5. Twin!Insert(s, p, r, rec).rows = [s EXCEPT ![r] = rec]
    BY <1>1, <2>1 DEF Twin!Insert, Alike
  <2>6. Distinct(a.rows, p, q)
    BY <2>1 DEF Distinct, Exclusive
  <2>7. Twin!Rows(a.rows) \subseteq used
    BY <1>2, <1>3, <2>2, <2>5 DEF Records, Twin!Rows
  <2>8. parent
    BY <1>2, <2>1
  <2> QED BY <1>2, <2>2, <2>3, <2>4, <2>6, <2>7, <2>8
<1>5. CASE s[r] = Twin!Absent /\ p.missing # "insert"
  <2>1. q.missing = p.missing
    BY <1>1, <1>3, <1>5 DEF Alike
  <2>2. a.rows = s /\ Twin!Modify(s, q, r, rec) = a
    BY <1>5, <2>1 DEF Twin!Modify
  <2> QED BY <1>2, <2>2
<1>6. CASE s[r] # Twin!Absent
  <2>1. /\ rec.key = s[r].key \/ ("rename" \in p.ops /\ rec.key \in Key)
        /\ p.erase = "none" /\ p.dup # "merge" => rec.owner = s[r].owner
    BY <1>2, <1>6 DEF CopyKnown
  <2>2. r \in Twin!Rows(s)
    BY <1>3, <1>6 DEF Twin!Rows
  <2>3. ASSUME Exclusive(q), NEW x \in Twin!Rows(s) \ {r}, s[x].key = rec.key
        PROVE p.dup = "active" /\ (s[x].status = "ended" \/ rec.status = "ended")
    <3>1. ~ "rename" \in p.ops /\ rec.key = s[r].key
      BY <1>1, <2>1, <2>3 DEF Alike
    <3>2. p.dup = "active" /\ (s[x].status = "ended" \/ s[r].status = "ended")
      BY <1>2, <2>2, <2>3, <3>1 DEF Distinct
    <3>3. ~(s[r].status = "ended" /\ rec.status # "ended")
      BY <1>1, <3>2 DEF Alike
    <3> QED BY <3>2, <3>3
  <2>4. q.dup \in {"refuse", "active"} => Twin!Twins(s, q, r, rec) = {}
    <3> SUFFICES ASSUME Exclusive(q), NEW x \in Twin!Twins(s, q, r, rec) PROVE FALSE
      BY DEF Exclusive
    <3>1. x \in Twin!Rows(s) \ {r} /\ s[x].key = rec.key
      BY DEF Twin!Twins
    <3>2. p.dup = "active" /\ (s[x].status = "ended" \/ rec.status = "ended")
      BY <2>3, <3>1
    <3>3. q.dup = "active"
      BY <1>1, <3>2 DEF Alike
    <3> QED BY <3>2, <3>3 DEF Twin!Twins
  <2>5. Twin!Columns = {"key", "owner", "status", "rest"}
    BY DEF Twin!Columns
  <2>6. \A c \in Twin!Columns : c \notin q.writes => rec[c] = s[r][c]
    <3>1. "rest" \notin q.writes => rec.rest = s[r].rest
      BY <1>1 DEF Alike
    <3>2. ~({"key", "owner"} \subseteq q.writes) => rec.key = s[r].key /\ rec.owner = s[r].owner
      BY <1>1, <2>1 DEF Alike
    <3>3. "status" \in q.writes
      BY <1>1 DEF Alike
    <3> QED BY <2>5, <3>1, <3>2, <3>3
  <2>7. [c \in Twin!Columns |-> IF c \in q.writes THEN rec[c] ELSE s[r][c]]
          = [c \in Twin!Columns |-> IF c \in p.writes THEN rec[c] ELSE s[r][c]]
    BY <1>1, <2>6 DEF Alike
  <2> PICK new : new = [c \in Twin!Columns |-> IF c \in p.writes THEN rec[c] ELSE s[r][c]]
    OBVIOUS
  <2>8. Twin!Modify(s, q, r, rec) = [rows |-> [s EXCEPT ![r] = new], says |-> "ok"]
    <3>1. ~(s[r] # Twin!Absent /\ q.indexed /\ q.dup \in {"refuse", "active"} /\ Twin!Twins(s, q, r, rec) # {})
      BY <2>4
    <3> QED BY <1>6, <2>7, <3>1 DEF Twin!Modify
  <2>9. a = [rows |-> [s EXCEPT ![r] = new], says |-> "ok"]
    <3>1. p.indexed = FALSE
      BY <1>1 DEF Alike
    <3> QED BY <1>6, <3>1 DEF Twin!Modify
  <2>10. a.rows = [s EXCEPT ![r] = new]
    BY <2>9
  <2>11. DOMAIN new = Twin!Columns /\ new.key = rec.key /\ new.status = rec.status
    BY <1>1, <2>5 DEF Alike
  <2> HIDE DEF a
  <2>12. Records(a.rows) /\ \A x \in Ident : a.rows[x] = IF x = r THEN new ELSE s[x]
    BY <1>2, <2>10, <2>11 DEF Records
  <2>13. Distinct(a.rows, p, q)
    BY <1>2, <2>3, <2>11, <2>12 DEF Distinct, Twin!Rows
  <2>14. Twin!Rows(a.rows) \subseteq used
    BY <1>2, <1>3, <2>12 DEF Twin!Rows
  <2>15. parent
    BY <1>2, <2>2
  <2> QED BY <1>2, <2>8, <2>9, <2>12, <2>13, <2>14, <2>15 DEF a
<1> QED BY <1>4, <1>5, <1>6

-----------------------------------------------------------------------------
LEMMA StoreDone ==
  ASSUME seen = {}, seen' = {}, NEW m, NEW d, NEW what, Twin!Done(m, d, what)
  PROVE /\ memory' = m.rows /\ durable' = d.rows /\ Twin!Outdated
        /\ answer'.memory = m.says /\ answer'.durable = d.says
        /\ \A x \in what : x \notin Twin!Gaps
<1>1. Twin!InTable.undone => "rollback" \in Twin!Gaps
  BY DEF Twin!Gaps
<1>2. answer' = [memory |-> m.says, durable |-> d.says] /\ Twin!Outdated
  BY DEF Twin!Done, Twin!Answers
<1>3. CASE memory' = m.rows /\ durable' = d.rows /\ Twin!Saw(what)
  BY <1>2, <1>3 DEF Twin!Saw
<1>4. CASE Twin!InTable.undone /\ Twin!Saw(what \cup {"rollback"})
  <2>1. "rollback" \in seen'
    BY <1>1, <1>4 DEF Twin!Saw
  <2> QED BY <2>1
<1> QED BY <1>3, <1>4 DEF Twin!Done

LEMMA StoreCreates ==
  ASSUME StoreCore, seen = {}, seen' = {}, NEW r \in Ident, NEW k \in Key, NEW o \in Owner,
         Twin!Create(r, k, o)
  PROVE StoreInv'
<1> PICK rec : rec = [key |-> k, owner |-> o, status |-> "fresh", rest |-> 0]
  OBVIOUS
<1> PICK a : a = Twin!Insert(memory, Twin!InStore, r, rec)
  OBVIOUS
<1>1. /\ r \notin used /\ used' = used \cup {r} /\ UNCHANGED <<table, parent, copy>>
      /\ Twin!Done(a, Twin!Insert(durable, Twin!InTable, r, rec),
                   Twin!Doubles(r, rec, "double") \cup (IF parent THEN {} ELSE {"orphan"}))
  BY DEF Twin!Create
<1>2. /\ memory' = a.rows /\ durable' = Twin!Insert(durable, Twin!InTable, r, rec).rows /\ Twin!Outdated
      /\ answer'.memory = a.says /\ answer'.durable = Twin!Insert(durable, Twin!InTable, r, rec).says
      /\ \A x \in Twin!Doubles(r, rec, "double") \cup (IF parent THEN {} ELSE {"orphan"}) : x \notin Twin!Gaps
  BY <1>1, StoreDone
<1>3. parent
  <2>1. ~parent => "orphan" \in Twin!Gaps
    BY DEF StoreCore, Twin!Gaps
  <2> QED BY <1>2, <2>1
<1>4. Twin!InStore.dup # Twin!InTable.dup =>
        \A x \in Twin!Rows(memory) \ {r} : memory[x].key # rec.key
  <2>1. Alike(Twin!InStore, Twin!InTable, Twin!Gaps)
    BY RepositoriesAlike DEF StoreCore
  <2>2. Twin!InStore.dup # Twin!InTable.dup => "double" \notin Twin!Doubles(r, rec, "double")
    BY <1>2, <2>1 DEF Alike
  <2> QED BY <2>2 DEF Twin!Doubles
<1>5. DOMAIN rec = Twin!Columns
  BY DEF Twin!Columns
<1>6. /\ Twin!Insert(durable, Twin!InTable, r, rec) = a
      /\ Records(a.rows) /\ Distinct(a.rows, Twin!InStore, Twin!InTable)
      /\ \A x \in Ident \ {r} : Follows(memory[x], a.rows[x], Twin!InStore)
  BY <1>3, <1>4, <1>5, StoreInserts
<1>7. Twin!Rows(a.rows) \subseteq used'
  BY <1>1, <1>6 DEF StoreCore, Twin!Rows, Follows
<1>8. CopyKnown(copy, a.rows, used', Twin!InStore)
  <2>1. copy # Twin!NoCopy => copy.r \in Ident \ {r}
    BY <1>1 DEF StoreCore, CopyKnown
  <2>2. CopyKnown(copy, memory, used, Twin!InStore) /\ used \subseteq used'
    BY <1>1 DEF StoreCore
  <2> QED BY <1>6, <2>1, <2>2, CopyFollows
<1> QED BY <1>1, <1>2, <1>3, <1>6, <1>7, <1>8, StoreKeeps

LEMMA StoreWrites ==
  ASSUME StoreCore, seen = {}, seen' = {}, Twin!Write PROVE StoreInv'
<1> PICK r : r = copy.r
  OBVIOUS
<1>1. PICK rec \in Twin!Changed(copy.memory) :
        Twin!Done(Twin!Modify(memory, Twin!InStore, r, rec), Twin!Modify(durable, Twin!InTable, r, rec),
                  Twin!Doubles(r, rec, "taken")
                    \cup (IF rec.rest # memory[r].rest THEN {"rest"} ELSE {})
                    \cup (IF memory[r] = Twin!Absent THEN {"missing"} ELSE {})
                    \cup (IF memory[r].status = "ended" /\ rec.status # "ended" THEN {"revived"} ELSE {}))
  BY DEF Twin!Write
<1>2. copy # Twin!NoCopy /\ copy' = Twin!NoCopy /\ UNCHANGED <<table, parent, used>>
  BY DEF Twin!Write
<1> PICK a, b, what :
      /\ a = Twin!Modify(memory, Twin!InStore, r, rec) /\ b = Twin!Modify(durable, Twin!InTable, r, rec)
      /\ what = Twin!Doubles(r, rec, "taken")
                  \cup (IF rec.rest # memory[r].rest THEN {"rest"} ELSE {})
                  \cup (IF memory[r] = Twin!Absent THEN {"missing"} ELSE {})
                  \cup (IF memory[r].status = "ended" /\ rec.status # "ended" THEN {"revived"} ELSE {})
  OBVIOUS
<1>3. /\ memory' = a.rows /\ durable' = b.rows /\ Twin!Outdated
      /\ answer'.memory = a.says /\ answer'.durable = b.says
      /\ \A x \in what : x \notin Twin!Gaps
  BY <1>1, StoreDone
<1>4. DOMAIN copy.memory = Twin!Columns
  BY <1>2 DEF StoreCore, CopyKnown
<1>5. /\ DOMAIN rec = Twin!Columns /\ rec.owner = copy.memory.owner
      /\ rec.key = copy.memory.key \/ ("rename" \in Twin!InStore.ops /\ rec.key \in Key)
  <2>1. \/ rec = [copy.memory EXCEPT !.status = "changed"] \/ rec = [copy.memory EXCEPT !.status = "ended"]
        \/ rec = [copy.memory EXCEPT !.rest = 1]
        \/ "rename" \in Twin!InStore.ops /\ \E k \in Key : rec = [copy.memory EXCEPT !.key = k]
    BY DEF Twin!Changed, Twin!Offered
  <2> QED BY <1>4, <2>1 DEF Twin!Columns
<1>6. /\ "taken" \in Twin!Gaps => \A x \in Twin!Rows(memory) \ {r} : memory[x].key # rec.key
      /\ "rest" \in Twin!Gaps => rec.rest = memory[r].rest
      /\ "missing" \in Twin!Gaps => memory[r] # Twin!Absent
      /\ "revived" \in Twin!Gaps => ~(memory[r].status = "ended" /\ rec.status # "ended")
  BY <1>3 DEF Twin!Doubles
<1>7. /\ b = a /\ Records(a.rows) /\ Distinct(a.rows, Twin!InStore, Twin!InTable)
      /\ Twin!Rows(a.rows) \subseteq used /\ (~parent => Twin!Rows(a.rows) = {})
  BY <1>2, <1>5, <1>6, StoreModifies
<1>8. CopyKnown(copy', a.rows, used', Twin!InStore)
  BY <1>2 DEF CopyKnown
<1>9. ~parent' => Twin!InTable.parent # "none" /\ Twin!Rows(a.rows) = {}
  BY <1>2, <1>7 DEF StoreCore
<1> QED BY <1>2, <1>3, <1>7, <1>8, <1>9, StoreKeeps

\* Rows lose or change what no index is over.
LEMMA StoreTrims ==
  ASSUME StoreCore, NEW s, memory' = s, durable' = s, answer'.durable = answer'.memory,
         UNCHANGED <<table, parent, used, copy>>, Twin!Outdated, Records(s),
         \A x \in Ident : /\ Follows(memory[x], s[x], Twin!InStore)
                          /\ s[x] # Twin!Absent => s[x].status = memory[x].status
  PROVE StoreInv'
<1>1. Twin!Rows(s) \subseteq Twin!Rows(memory)
  BY DEF Follows, Twin!Rows
<1>2. Distinct(s, Twin!InStore, Twin!InTable)
  <2>1. Distinct(memory, Twin!InStore, Twin!InTable)
    BY DEF StoreCore
  <2> QED BY <2>1, DistinctStays DEF Follows
<1>3. CopyKnown(copy, s, used, Twin!InStore)
  <2>1. CopyKnown(copy, memory, used, Twin!InStore)
    BY DEF StoreCore
  <2>2. copy # Twin!NoCopy => copy.r \in Ident
    BY <2>1 DEF CopyKnown
  <2> QED BY <2>1, <2>2, CopyFollows
<1>4. /\ Twin!Rows(s) \subseteq used'
      /\ ~parent' => Twin!InTable.parent # "none" /\ Twin!Rows(s) = {}
  BY <1>1 DEF StoreCore
<1> QED BY <1>2, <1>3, <1>4, StoreKeeps

LEMMA StoreRates ==
  ASSUME StoreCore, NEW r \in Ident, Twin!Rate(r) PROVE StoreInv'
<1> PICK new : new = [memory[r] EXCEPT !.rest = 1]
  OBVIOUS
<1>1. /\ memory[r] # Twin!Absent /\ DOMAIN memory = Ident /\ DOMAIN memory[r] = Twin!Columns
      /\ durable = memory
  BY DEF Twin!Rate, StoreCore, Records
<1>2. /\ memory' = [memory EXCEPT ![r] = new] /\ durable' = [memory EXCEPT ![r] = new]
      /\ UNCHANGED <<table, parent, used, copy, answer>> /\ Twin!Outdated
  BY <1>1 DEF Twin!Rate
<1>3. DOMAIN new = Twin!Columns /\ new.key = memory[r].key /\ new.owner = memory[r].owner
      /\ new.status = memory[r].status /\ new.rest = 1
  BY <1>1 DEF Twin!Columns
<1>4. new # Twin!Absent
  BY <1>3 DEF Twin!Absent
<1> PICK s : s = [memory EXCEPT ![r] = new]
  OBVIOUS
<1>5. Records(s) /\ \A x \in Ident : s[x] = IF x = r THEN new ELSE memory[x]
  BY <1>1, <1>3 DEF StoreCore, Records
<1>6. \A x \in Ident : /\ Follows(memory[x], s[x], Twin!InStore)
                       /\ s[x] # Twin!Absent => s[x].status = memory[x].status
  BY <1>1, <1>3, <1>4, <1>5 DEF Follows
<1>7. answer'.durable = answer'.memory
  BY <1>2 DEF StoreCore
<1> QED BY <1>2, <1>5, <1>6, <1>7, StoreTrims

LEMMA StoreDeletes ==
  ASSUME StoreCore, NEW r \in Ident, Twin!Delete(r) PROVE StoreInv'
<1> PICK s : s = [memory EXCEPT ![r] = Twin!Absent]
  OBVIOUS
<1>1. Alike(Twin!InStore, Twin!InTable, Twin!Gaps) /\ durable = memory
  BY RepositoriesAlike DEF StoreCore
<1>2. /\ memory' = s /\ durable' = s /\ UNCHANGED <<table, parent, used, copy>> /\ Twin!Outdated
      /\ "delete" \in Twin!InStore.ops
  BY <1>1 DEF Twin!Delete, Twin!Remove, Twin!Offered
<1>3. answer'.durable = answer'.memory
  BY <1>1 DEF Twin!Delete, Twin!Remove, Twin!Answers, Alike
<1>4. Records(s) /\ \A x \in Ident : s[x] = IF x = r THEN Twin!Absent ELSE memory[x]
  BY DEF StoreCore, Records, Twin!Absent, Twin!Columns
<1>5. \A x \in Ident : /\ Follows(memory[x], s[x], Twin!InStore)
                       /\ s[x] # Twin!Absent => s[x].status = memory[x].status
  BY <1>2, <1>4 DEF Follows, Removable
<1> QED BY <1>2, <1>3, <1>4, <1>5, StoreTrims

LEMMA StoreErases ==
  ASSUME StoresAssumption, StoreCore, NEW o \in Owner, Twin!Erase(o) PROVE StoreInv'
<1> PICK s : s = Twin!EraseBy(memory, Twin!InStore, o)
  OBVIOUS
<1>1. Alike(Twin!InStore, Twin!InTable, Twin!Gaps) /\ durable = memory
  BY RepositoriesAlike DEF StoreCore
<1>2. /\ memory' = s /\ durable' = s /\ UNCHANGED <<table, parent, used, copy, answer>> /\ Twin!Outdated
      /\ Twin!InStore.erase # "none"
  BY <1>1 DEF Twin!Erase, Twin!EraseBy, Alike
<1>3. s = [x \in Ident |-> IF memory[x].owner # o THEN memory[x]
                           ELSE IF Twin!InStore.erase = "delete" THEN Twin!Absent
                           ELSE [memory[x] EXCEPT !.owner = "nobody"]]
  BY DEF Twin!EraseBy
<1>4. ASSUME NEW x \in Ident
      PROVE /\ DOMAIN s[x] = Twin!Columns
            /\ Follows(memory[x], s[x], Twin!InStore)
            /\ s[x] # Twin!Absent => s[x].status = memory[x].status
  <2>1. DOMAIN memory[x] = Twin!Columns
    BY DEF StoreCore, Records
  <2>2. CASE memory[x].owner # o
    BY <1>3, <2>1, <2>2 DEF Follows
  <2>3. CASE memory[x].owner = o
    <3>1. memory[x] # Twin!Absent
      BY <2>3 DEF StoresAssumption, Twin!Absent
    <3>2. CASE Twin!InStore.erase = "delete"
      <4>1. s[x] = Twin!Absent
        BY <1>3, <2>3, <3>2
      <4> QED BY <3>2, <4>1 DEF Follows, Removable, Twin!Absent, Twin!Columns
    <3>3. CASE Twin!InStore.erase # "delete"
      <4>1. s[x] = [memory[x] EXCEPT !.owner = "nobody"]
        BY <1>3, <2>3, <3>3
      <4>2. /\ DOMAIN s[x] = Twin!Columns /\ s[x].key = memory[x].key /\ s[x].status = memory[x].status
            /\ s[x].owner = "nobody"
        BY <2>1, <4>1 DEF Twin!Columns
      <4>3. s[x] # Twin!Absent
        BY <4>2 DEF Twin!Absent
      <4> QED BY <1>2, <3>1, <4>2, <4>3 DEF Follows
    <3> QED BY <3>2, <3>3
  <2> QED BY <2>2, <2>3
<1>5. Records(s)
  BY <1>3, <1>4 DEF Records
<1>6. answer'.durable = answer'.memory
  BY <1>2 DEF StoreCore
<1> QED BY <1>2, <1>4, <1>5, <1>6, StoreTrims

\* The listing or booking goes: no row went with it, or it is seen.
LEMMA StoreOrphans ==
  ASSUME StoreCore, seen = {}, seen' = {}, Twin!DeleteParent PROVE StoreInv'
<1>1. /\ Twin!InTable.parent # "none" /\ UNCHANGED <<table, memory, used, copy, answer>> /\ Twin!Outdated
      /\ \/ UNCHANGED <<parent, durable>> \/ durable' = [r \in Ident |-> Twin!Absent]
      /\ Twin!Saw(IF Twin!Rows(memory) # {} THEN {"orphan"} ELSE {})
  BY DEF Twin!DeleteParent
<1>2. Twin!Rows(memory) = {}
  <2>1. "orphan" \in Twin!Gaps
    BY <1>1 DEF Twin!Gaps
  <2> QED BY <1>1, <2>1 DEF Twin!Saw
<1>3. Records(memory)
  BY DEF StoreCore
<1>4. memory = [r \in Ident |-> Twin!Absent]
  BY <1>2, <1>3 DEF Records, Twin!Rows
<1>5. durable' = memory'
  BY <1>1, <1>4 DEF StoreCore
<1>6. Records(memory') /\ Distinct(memory', Twin!InStore, Twin!InTable) /\ Twin!Rows(memory') = {}
      /\ CopyKnown(copy', memory', used', Twin!InStore) /\ answer'.durable = answer'.memory
  <2>1. /\ Records(memory) /\ Distinct(memory, Twin!InStore, Twin!InTable) /\ Twin!Rows(memory) = {}
        /\ CopyKnown(copy, memory, used, Twin!InStore) /\ answer.durable = answer.memory
    BY <1>2 DEF StoreCore
  <2>2. memory' = memory /\ copy' = copy /\ used' = used /\ answer' = answer
    BY <1>1
  <2> QED BY <2>1, <2>2
<1> QED BY <1>1, <1>5, <1>6, StoreKeeps

\* The calls that read.
LEMMA StoreReads ==
  ASSUME StoreCore, seen = {}, seen' = {}, Twin!Count \/ Twin!Page \/ \E r \in Ident : Twin!Load(r)
  PROVE StoreInv'
<1>1. UNCHANGED <<table, memory, durable, parent, used>>
  BY DEF Twin!Count, Twin!Page, Twin!Load
<1>2. Twin!InStore' = Twin!InStore /\ Twin!InTable' = Twin!InTable
  BY <1>1, TableStays
<1>3. /\ (table \in Twin!Tables)' /\ (durable = memory)' /\ Records(memory)' /\ (Twin!Rows(memory) \subseteq used)'
      /\ (~parent => Twin!InTable.parent # "none" /\ Twin!Rows(memory) = {})'
      /\ Distinct(memory, Twin!InStore, Twin!InTable)'
  BY <1>1, <1>2 DEF StoreCore, Records, Distinct, Twin!Rows, Twin!Tables
<1>4. CASE Twin!Count
  <2>1. /\ UNCHANGED <<copy, answer>>
        /\ total' = [memory |-> 0, durable |-> Twin!Cardinality(Twin!Rows(durable)), open |-> TRUE, old |-> FALSE]
    BY <1>4 DEF Twin!Count
  <2>2. DOMAIN total' = {"memory", "durable", "open", "old"} /\ total'.durable = Twin!Cardinality(Twin!Rows(memory'))
    BY <1>1, <2>1 DEF StoreCore
  <2>3. CopyKnown(copy, memory, used, Twin!InStore)' /\ answer'.durable = answer'.memory
    BY <1>1, <1>2, <2>1 DEF StoreCore, CopyKnown
  <2> QED BY <1>3, <2>2, <2>3 DEF StoreInv, StoreCore
<1>5. CASE Twin!Page
  <2>1. /\ total.open /\ copy' = copy /\ total' = Twin!NoCount
        /\ answer' = [memory |-> <<Twin!Cardinality(Twin!Rows(memory)), Twin!Rows(memory)>>,
                      durable |-> <<total.durable, Twin!Rows(durable)>>]
        /\ Twin!Saw(IF total.old THEN {"page"} ELSE {})
    BY <1>5 DEF Twin!Page, Twin!Answers
  <2>2. ~total.old
    <3>1. "page" \in Twin!Gaps
      BY DEF Twin!Gaps
    <3> QED BY <2>1, <3>1 DEF Twin!Saw
  <2>3. answer'.durable = answer'.memory
    BY <2>1, <2>2 DEF StoreCore
  <2>4. DOMAIN total' = {"memory", "durable", "open", "old"} /\ total'.open = FALSE
    BY <2>1 DEF Twin!NoCount
  <2>5. CopyKnown(copy, memory, used, Twin!InStore)'
    BY <1>1, <1>2, <2>1 DEF StoreCore, CopyKnown
  <2> QED BY <1>3, <2>3, <2>4, <2>5 DEF StoreInv, StoreCore
<1>6. ASSUME NEW r \in Ident, Twin!Load(r) PROVE StoreInv'
  <2>1. /\ memory[r] # Twin!Absent /\ UNCHANGED <<total, answer>>
        /\ copy' = [r |-> r, memory |-> memory[r], durable |-> durable[r]]
    BY <1>6 DEF Twin!Load
  <2>2. copy'.r = r /\ copy'.memory = memory[r] /\ r \in used /\ DOMAIN memory[r] = Twin!Columns
    BY <2>1 DEF StoreCore, Twin!Rows, Records
  <2>3. CopyKnown(copy, memory, used, Twin!InStore)'
    BY <1>1, <2>1, <2>2 DEF CopyKnown
  <2>4. /\ (answer.durable = answer.memory)' /\ (DOMAIN total = {"memory", "durable", "open", "old"})'
        /\ (total.open /\ ~total.old => total.durable = Twin!Cardinality(Twin!Rows(memory)))'
    BY <1>1, <2>1 DEF StoreCore
  <2> QED BY <1>3, <2>3, <2>4 DEF StoreInv, StoreCore
<1> QED BY <1>4, <1>5, <1>6

LEMMA StoreStep ==
  ASSUME StoresAssumption, StoreInv, [Twin!Next]_(Twin!storesVars) PROVE StoreInv'
<1>1. CASE UNCHANGED Twin!storesVars
  <2>1. UNCHANGED <<table, memory, durable, parent, used, copy, total, answer, seen>>
    BY <1>1 DEF Twin!storesVars
  <2>2. Twin!InStore' = Twin!InStore /\ Twin!InTable' = Twin!InTable
    BY <2>1, TableStays
  <2> QED BY <2>1, <2>2 DEF StoreInv, StoreCore, Records, Distinct, CopyKnown, Twin!Rows, Twin!Tables
<1>2. CASE Twin!Next
  <2> SUFFICES ASSUME seen' = {} PROVE StoreInv'
    BY DEF StoreInv
  <2>1. seen = {} /\ StoreCore
    BY <1>2 DEF Twin!Next, StoreInv
  <2> QED BY <1>2, <2>1, StoreCreates, StoreWrites, StoreRates, StoreDeletes, StoreErases, StoreOrphans, StoreReads
          DEF Twin!Next
<1> QED BY <1>1, <1>2

\* While nothing of Gaps was seen the stores agree.
LEMMA StoreMeans == ASSUME StoreInv PROVE Twin!StoresAgree
BY DEF StoreInv, StoreCore, Twin!StoresAgree

=============================================================================
