------------------------------- MODULE Gateways -------------------------------
(***************************************************************************)
(* The providers behind the payment gateway: a hold is placed at the first *)
(* provider of its currency's chain that accepts it, its reference leads   *)
(* later calls and webhooks back to it.                                    *)
(*   infrastructure/payment, handler/payment_webhook_handler.go,           *)
(*   application/payment/service.go:120-188 and 302-320                    *)
(*                                                                         *)
(* What the payment rows go through is Payment.tla; here a row is its      *)
(* reference and whether its money was taken or given back.                *)
(***************************************************************************)
EXTENDS Naturals, Sequences

CONSTANTS Call, Booking,
          Local,     \* the bookings in the domestic currency
          Setting,   \* payment settings: PAYMENT_PROVIDER, and the providers with a key and a webhook secret
          MaxHolds, MaxFaults

VARIABLES
  setting,  \* the settings the process runs with
  rerouted, \* history: the process came back with others
  holds,    \* at the providers: provider, number, booking and state
  payment,  \* the payments rows: reference and status
  call,
  sent,     \* webhooks that a provider still delivers
  seen,     \* the dedupe store
  found,    \* history: events with the booking of the row they found, or none
  doubled,  \* history: bookings that two deliveries authorized at once
  faulted

gatewayVars == <<setting, rerouted, holds, payment, call, sent, seen, found, doubled, faulted>>

-----------------------------------------------------------------------------
(* Which providers there are.                                                *)

Routed == setting.provider = "auto"
Has(name) == name \in setting.keys

\* The fake gateway stands in where a leg has no provider. Each leg has a fake of its own.
Leg(name) == IF Has(name) THEN <<name>> ELSE <<>>
Or(chain, fake) == IF chain = <<>> THEN <<fake>> ELSE chain
Domestic == Or(Leg("gpayangola") \o Leg("appypay"), "fake, domestic")
Foreign == Or(Leg("stripe"), "fake, foreign")
Chain(b) == IF b \in Local THEN Domestic ELSE Foreign

Only == IF Has(setting.provider) THEN setting.provider ELSE "fake, only"
Asked(b) == IF Routed THEN Chain(b) ELSE <<Only>>

Fakes == {"fake, domestic", "fake, foreign", "fake, only"}
Name(p) == IF p \in Fakes THEN "fake" ELSE p

\* The gateways by their name: the foreign leg is entered last, so of two fake ones it
\* is the foreign leg's that is found.
ByName(name) ==
  LET called(chain) == {p \in {chain[i] : i \in DOMAIN chain} : Name(p) = name}
  IN  IF called(Foreign) # {} THEN called(Foreign) ELSE called(Domestic)

\* A key that is sent again: Stripe answers with the hold it made; the others are told
\* the merchant's reference, and the fake one ignores it.
Repeating == {"stripe"}

NoRef == [tag |-> "none", provider |-> "none", n |-> 0]
NoPayment == [ref |-> NoRef, status |-> "none"]
\* A delivery: its booking, the place in the chain it asks, and the reference it got.
Doing(op, b, i, ref) == [op |-> op, b |-> b, i |-> i, ref |-> ref]
Idle == Doing("idle", "none", 0, NoRef)
Over == Doing("over", "none", 0, NoRef)

Init ==
  /\ setting \in Setting /\ rerouted = FALSE
  /\ holds = {} /\ payment = [b \in Booking |-> NoPayment]
  /\ call = [c \in Call |-> Idle] /\ sent = {} /\ seen = {} /\ found = {}
  /\ doubled = {} /\ faulted = 0

Fault == faulted < MaxFaults /\ faulted' = faulted + 1
At(c, op) == call[c].op = op
Goes(c, rec) == call' = [call EXCEPT ![c] = rec]

-----------------------------------------------------------------------------
(* Placing a hold.                                                           *)

\* The routing gateway puts the name of the provider before the reference.
\* Fault: it hands on the bare reference.
Tagged_Bare(p, n) == [tag |-> "none", provider |-> p, n |-> n]
Tagged(p, n) == [tag |-> IF Routed THEN Name(p) ELSE "none", provider |-> p, n |-> n]

\* The subscriber asks for the booking's payment first.
Authorize(c, b) ==
  /\ At(c, "idle") /\ payment[b] = NoPayment
  /\ Goes(c, Doing("ask", b, 1, NoRef))
  /\ doubled' = IF \E d \in Call \ {c} : call[d].b = b THEN doubled \cup {b} ELSE doubled
  /\ UNCHANGED <<setting, rerouted, holds, payment, sent, seen, found, faulted>>

\* The hold a provider makes or finds for the booking.
Placed(p, b) == {h \in holds : h.provider = p /\ h.booking = b}
Numbers(p) ==
  {h.n : h \in {k \in holds : Name(k.provider) = Name(p)}}
    \cup {payment[b].ref.n : b \in {d \in Booking : Name(payment[d].ref.provider) = Name(p)}}
Hold(p, b) ==
  IF p \in Repeating /\ Placed(p, b) # {} THEN Placed(p, b)
  ELSE {[provider |-> p, n |-> n, booking |-> b, state |-> "held"] :
          n \in {m \in (1..MaxHolds) \ Numbers(p) : 1..(m - 1) \subseteq Numbers(p)}}

\* The provider of the chain answers with its reference.
AuthorizeAt(c) ==
  LET b == call[c].b
      p == Asked(b)[call[c].i]
  IN  /\ At(c, "ask")
      /\ \E h \in Hold(p, b) :
           /\ holds' = holds \cup {h}
           /\ Goes(c, Doing("create", b, call[c].i, Tagged(p, h.n)))
      /\ UNCHANGED <<setting, rerouted, payment, sent, seen, found, doubled, faulted>>

\* It refuses, or its answer is lost: both are an error, and the next one is asked.
NextGateway(c) ==
  LET b == call[c].b
      p == Asked(b)[call[c].i]
      more == call[c].i < Len(Asked(b))
  IN  /\ At(c, "ask")
      /\ Goes(c, IF more THEN Doing("ask", b, call[c].i + 1, NoRef) ELSE Doing("create", b, call[c].i, NoRef))
      /\ \/ UNCHANGED <<holds, faulted>>
         \/ Fault /\ \E h \in Hold(p, b) : holds' = holds \cup {h}
      /\ UNCHANGED <<setting, rerouted, payment, sent, seen, found, doubled>>

\* One payment for a booking; without a reference it has failed.
CreatePayment(c) ==
  LET b == call[c].b
  IN  /\ At(c, "create") /\ Goes(c, Over)
      /\ \/ /\ payment[b] = NoPayment
            /\ payment' = [payment EXCEPT ![b] =
                 [ref |-> call[c].ref,
                  status |-> IF call[c].ref = NoRef THEN "failed" ELSE "authorized"]]
            /\ UNCHANGED faulted
         \/ payment[b] # NoPayment /\ UNCHANGED <<payment, faulted>>
         \/ Fault /\ UNCHANGED payment
      /\ UNCHANGED <<setting, rerouted, holds, sent, seen, found, doubled>>

-----------------------------------------------------------------------------
(* Coming back to it.                                                        *)

\* resolve: the provider that the tag names; without routing there is only one, and the
\* whole reference is sent to it.
Resolved(ref) ==
  {h \in holds : /\ h.n = ref.n
                 /\ IF Routed THEN h.provider \in ByName(ref.tag)
                    ELSE ref.tag = "none" /\ h.provider = Only}

Settle(b, status, state, to) ==
  \E h \in Resolved(payment[b].ref) :
    /\ payment[b].status = status /\ h.state = state
    /\ holds' = (holds \ {h}) \cup {[h EXCEPT !.state = to]}
    /\ payment' = [payment EXCEPT ![b].status = to]
    /\ UNCHANGED <<setting, rerouted, call, sent, seen, found, doubled, faulted>>
Capture(b) == Settle(b, "authorized", "held", "captured")
Refund(b) == Settle(b, "authorized", "held", "refunded") \/ Settle(b, "captured", "captured", "refunded")

\* The process starts again; the fake gateway forgets what it held.
Restart ==
  /\ Fault /\ holds' = {h \in holds : h.provider \notin Fakes}
  /\ call' = [c \in Call |-> IF At(c, "idle") THEN Idle ELSE Over]
  /\ \E r \in Setting : setting' = r /\ rerouted' = (rerouted \/ r # setting)
  /\ UNCHANGED <<payment, sent, seen, found, doubled>>

-----------------------------------------------------------------------------
(* Webhooks.                                                                 *)

\* A provider announces that a hold failed or was captured; it knows its own reference.
Announce(h) ==
  /\ h.provider \notin Fakes /\ ~ \E e \in sent : e.provider = h.provider /\ e.n = h.n
  /\ sent' = sent \cup {[provider |-> h.provider, n |-> h.n, booking |-> h.booking]}
  /\ UNCHANGED <<setting, rerouted, holds, payment, call, seen, found, doubled, faulted>>

\* findByGatewayRef: the tagged reference before the bare one.
Named(e) ==
  {b \in Booking : payment[b].ref.tag = e.provider /\ payment[b].ref.n = e.n}
Bare(e) ==
  {b \in Booking : payment[b].ref # NoRef /\ payment[b].ref.tag = "none" /\ payment[b].ref.n = e.n}
Candidates(e) == IF Named(e) # {} THEN Named(e) ELSE Bare(e)

\* A provider whose credentials are gone has no verifier: its webhook is refused. One for
\* an unknown reference is answered and remembered like any other; remembering may fail.
Verified(e) == Has(e.provider)
Handle(e) ==
  /\ Verified(e) /\ e \notin seen
  /\ \/ seen' = seen \cup {e} /\ UNCHANGED faulted
     \/ Fault /\ UNCHANGED seen
  /\ found' = found \cup
       (IF Candidates(e) = {}
        THEN {[e |-> e, b |-> "none", known |-> payment[e.booking] # NoPayment]}
        ELSE {[e |-> e, b |-> b, known |-> TRUE] : b \in Candidates(e)})
  /\ UNCHANGED <<setting, rerouted, holds, payment, call, sent, doubled>>

\* The retention of the store: what was seen is forgotten.
Cleanup ==
  /\ seen # {} /\ seen' = {}
  /\ UNCHANGED <<setting, rerouted, holds, payment, call, sent, found, doubled, faulted>>

Next ==
  \/ Restart \/ Cleanup
  \/ \E h \in holds : Announce(h)
  \/ \E e \in sent : Handle(e)
  \/ \E b \in Booking : Capture(b) \/ Refund(b) \/ \E c \in Call : Authorize(c, b)
  \/ \E c \in Call : AuthorizeAt(c) \/ NextGateway(c) \/ CreatePayment(c)

-----------------------------------------------------------------------------
Names(ref, h) == ref.provider = h.provider /\ ref.n = h.n

\* Money is held for a booking only under the reference of its payment or of a delivery
\* that is still at work; other holds are left by a lost answer, a crash, or two
\* deliveries at once (routing.go:75-95: an error of any kind moves on to the next).
HoldsAreOnRecord ==
  \A h \in holds :
    \/ Names(payment[h.booking].ref, h)
    \/ \E c \in Call : At(c, "create") /\ call[c].b = h.booking /\ Names(call[c].ref, h)
    \/ faulted > 0 \/ h.booking \in doubled

\* An authorized payment can be captured unless the setting changed under it, the fake
\* gateway forgot it, or two fake gateways share the name; the hold it reaches is its own
\* (routing.go:69-80 and 123-133).
HoldsCanBeReached ==
  \A b \in Booking : payment[b].status = "authorized" =>
    \/ \E h \in Resolved(payment[b].ref) : Names(payment[b].ref, h) /\ h.booking = b
    \/ rerouted
    \/ payment[b].ref.provider \in Fakes /\ faulted > 0
    \/ payment[b].ref.provider = "fake, domestic" /\ Foreign = <<"fake, foreign">>

\* A webhook finds the payment of its hold, unless it came before the row or the row names
\* another hold; it finds another payment only after the setting changed.
WebhooksFindTheirs ==
  \A m \in found :
    /\ m.b # m.e.booking /\ m.b # "none" => rerouted
    /\ m.b = "none" /\ m.known => ~Names(payment[m.e.booking].ref, m.e) \/ rerouted

\* The reference of a payment leads to its money, and a webhook of that money leads back
\* (HoldsAreOnRecord, HoldsCanBeReached, WebhooksFindTheirs), unless an answer was lost
\* before the next provider was tried, two deliveries ran at once, the settings changed
\* over a restart, or the webhook came before the row (routing.go:69-133).
GatewaysAreExplained == HoldsAreOnRecord /\ HoldsCanBeReached /\ WebhooksFindTheirs
=============================================================================
