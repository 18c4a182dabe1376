------------------------------- MODULE Offers -------------------------------
(***************************************************************************)
(* One offer of a host to a guest, and the stays made from it.             *)
(*   application/offer/service.go, domain/offer,                           *)
(*   infrastructure/persistence/postgres/offer_repository.go               *)
(*                                                                         *)
(* An acceptance is four calls with nothing around them: load, create the  *)
(* booking, confirm it for the host, write the offer.  The offer is written *)
(* by id alone, from the copy, and outside the unit of work that appends    *)
(* its event.                                                              *)
(***************************************************************************)
EXTENDS Naturals

CONSTANTS Call,      \* calls of Accept, Decline and Withdraw
          Rival,     \* a stay another guest asks for on the offer's nights
          MaxFaults  \* bound: failed writes and crashes

VARIABLES
  offer,    \* the status of the offers row; "none" before Create
  told,     \* the events of the offer in the outbox
  stay,     \* the booking each acceptance created, and the rival's
  everBooked, \* an acceptance's booking was confirmed
  late,     \* the offer's validity is over
  payable,  \* the host can be paid out, which a confirmation requires
  call,     \* what each call is doing
  ended,    \* calls of Accept that returned an error after their booking was made
  faulted

offerVars == <<offer, told, stay, everBooked, late, payable, call, ended, faulted>>

Stays == Call \cup {Rival}
Fresh == [op |-> "new", at |-> "new", copy |-> "none"]
Over  == [op |-> "over", at |-> "over", copy |-> "none"]

Init ==
  /\ offer = "none" /\ told = {} /\ stay = [b \in Stays |-> "none"]
  /\ everBooked = FALSE /\ late = FALSE /\ payable \in BOOLEAN
  /\ call = [c \in Call |-> Fresh] /\ ended = {} /\ faulted = 0

Fault == faulted < MaxFaults /\ faulted' = faulted + 1
At(c, at) == call[c].at = at
Goto(c, at) == call' = [call EXCEPT ![c].at = at]
End(c) == call' = [call EXCEPT ![c] = Over]

\* Create, row and then event; the host owns the listing and is not the guest.
Create ==
  /\ offer = "none" /\ offer' = "pending"
  /\ \/ told' = told \cup {"created"} /\ UNCHANGED faulted
     \/ UNCHANGED told /\ Fault
  /\ UNCHANGED <<stay, everBooked, late, payable, call, ended>>

Expire ==
  /\ ~late /\ late' = TRUE
  /\ UNCHANGED <<offer, told, stay, everBooked, payable, call, ended, faulted>>

-----------------------------------------------------------------------------
(* The bookings service, as an acceptance uses it.                           *)

\* The exclusion constraint: pending and confirmed stays hold their nights.
Holding == {b \in Stays : stay[b] \in {"pending", "confirmed"}}

Reserve(b) == Holding = {} /\ stay[b] = "none" /\ stay' = [stay EXCEPT ![b] = "pending"]

RivalBooks ==
  /\ Reserve(Rival)
  /\ UNCHANGED <<offer, told, everBooked, late, payable, call, ended, faulted>>

\* Confirm: the payout gate, then pending only.
Confirmable(b) == payable /\ stay[b] = "pending"

\* The host confirms by hand a stay that an acceptance left pending.
HostConfirms(b) ==
  /\ Confirmable(b) /\ stay' = [stay EXCEPT ![b] = "confirmed"]
  /\ everBooked' = (everBooked \/ b # Rival)
  /\ UNCHANGED <<offer, told, late, payable, call, ended, faulted>>

CancelStay(b) ==
  /\ b \in Holding /\ stay' = [stay EXCEPT ![b] = "cancelled"]
  /\ UNCHANGED <<offer, told, everBooked, late, payable, call, ended, faulted>>

Onboard ==
  /\ payable' = ~payable /\ Fault
  /\ UNCHANGED <<offer, told, stay, everBooked, late, call, ended>>

-----------------------------------------------------------------------------
(* The guest accepts.                                                        *)

\* What the aggregate makes of the copy: accepted, or expired with an error.
Accepted == IF late THEN "expired" ELSE "accepted"

\* Where an acceptance goes with an open offer.
\* Fault: the offer is written before the booking is confirmed.
AfterCreate_Write == "write"
AfterCreate == "confirm"

\* And with a confirmed one.
AfterConfirm == "write"

Accept(c) ==
  /\ call[c] = Fresh /\ offer = "pending"
  /\ call' = [call EXCEPT ![c] = [op |-> "accept", at |-> IF late THEN "write" ELSE "book",
                                 copy |-> Accepted]]
  /\ UNCHANGED <<offer, told, stay, everBooked, late, payable, ended, faulted>>

CreateBooking(c) ==
  /\ At(c, "book")
  /\ \/ Reserve(c) /\ Goto(c, AfterCreate)
     \/ Holding # {} /\ End(c) /\ UNCHANGED stay
  /\ UNCHANGED <<offer, told, everBooked, late, payable, ended, faulted>>

ConfirmBooking(c) ==
  /\ At(c, "confirm")
  /\ IF Confirmable(c)
       THEN /\ stay' = [stay EXCEPT ![c] = "confirmed"]
            /\ everBooked' = TRUE /\ Goto(c, AfterConfirm) /\ UNCHANGED ended
       ELSE End(c) /\ ended' = ended \cup {c} /\ UNCHANGED <<stay, everBooked>>
  /\ UNCHANGED <<offer, told, late, payable, faulted>>

-----------------------------------------------------------------------------
(* The guest declines, the host withdraws; an expired offer can be either.   *)

Open == offer = "pending"

TurnDown(c, status) ==
  /\ call[c] = Fresh /\ Open
  /\ call' = [call EXCEPT ![c] = [op |-> "turn down", at |-> "write", copy |-> status]]
  /\ UNCHANGED <<offer, told, stay, everBooked, late, payable, ended, faulted>>

Decline(c)  == TurnDown(c, "declined")
Withdraw(c) == TurnDown(c, "withdrawn")

\* UPDATE offers SET status=$2 WHERE id=$1.  The error of an expiry is ignored; a
\* failed update of an acceptance leaves the stay it confirmed.
Update(c) ==
  /\ At(c, "write")
  /\ \/ /\ offer' = call[c].copy /\ UNCHANGED <<faulted, ended>>
        /\ IF call[c].op = "accept" THEN End(c) ELSE Goto(c, "tell")
     \/ /\ Fault /\ End(c) /\ UNCHANGED offer
        /\ ended' = IF call[c].copy = "accepted" THEN ended \cup {c} ELSE ended
  /\ UNCHANGED <<told, stay, everBooked, late, payable>>

\* The event, in a transaction that does not hold the row.
AppendEvent(c) ==
  /\ At(c, "tell") /\ End(c)
  /\ \/ told' = told \cup {call[c].copy} /\ UNCHANGED faulted
     \/ UNCHANGED told /\ Fault
  /\ UNCHANGED <<offer, stay, everBooked, late, payable, ended>>

\* The request dies with its process.
Crash(c) ==
  /\ call[c].op \in {"accept", "turn down"} /\ End(c) /\ Fault
  /\ ended' = IF stay[c] # "none" THEN ended \cup {c} ELSE ended
  /\ UNCHANGED <<offer, told, stay, everBooked, late, payable>>

Next ==
  \/ Create \/ Expire \/ RivalBooks \/ Onboard
  \/ \E b \in Stays : HostConfirms(b) \/ CancelStay(b)
  \/ \E c \in Call :
       \/ Accept(c) \/ CreateBooking(c) \/ ConfirmBooking(c)
       \/ Decline(c) \/ Withdraw(c) \/ Update(c) \/ AppendEvent(c) \/ Crash(c)

-----------------------------------------------------------------------------
\* An offer that its row calls accepted was turned into a confirmed stay, and two
\* acceptances, or an acceptance and a rival, never hold the nights together:
\* service.go:202-239 and the exclusion constraint of bookings.
AcceptedIsBooked ==
  /\ offer = "accepted" => everBooked
  /\ \A b, d \in Holding : b = d

\* A stay made from an offer is lost to it only by a failure in between, or by
\* a call that was open at the same time: an offer that was turned down is not
\* accepted again, and an acceptance that ran alone left its mark.
StayIsExplained ==
  (/\ \A c \in Call : call[c].at \in {"new", "over"}
   /\ ended = {} /\ everBooked) => offer \in {"accepted", "declined", "withdrawn", "expired"}

\* Every offer is as its stay, or a failure or an overlapping call, left it:
\* offer/service.go:150-260.
OffersAreExplained == AcceptedIsBooked /\ StayIsExplained
=============================================================================
