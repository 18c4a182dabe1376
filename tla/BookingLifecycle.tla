-------------------------- MODULE BookingLifecycle --------------------------
(***************************************************************************)
(* What the booking aggregate promises (domain/booking/booking.go): every  *)
(* booking walks pending, confirmed, completed or leaves to cancelled, one *)
(* whole transition at a time, announces each transition by one event, and *)
(* the bookings that hold the calendar share no night.                     *)
(***************************************************************************)
EXTENDS Naturals, Sequences

CONSTANTS Booking, Stay

VARIABLES status, nights, log

vars == <<status, nights, log>>

Holds(b) == status[b] \in {"pending", "confirmed"}
Vacant(stay) == \A o \in Booking : Holds(o) => nights[o] \cap stay = {}

Init ==
  /\ status = [b \in Booking |-> "none"]
  /\ nights = [b \in Booking |-> {}]
  /\ log = [b \in Booking |-> <<>>]

Announce(b, event) == log' = [log EXCEPT ![b] = Append(@, event)]

\* A new booking, for the host to confirm or confirmed at once.
Book(b) ==
  /\ status[b] = "none"
  /\ \E stay \in Stay :
       Vacant(stay) /\ nights' = [nights EXCEPT ![b] = stay]
  /\ \/ /\ status' = [status EXCEPT ![b] = "pending"]
        /\ Announce(b, "Requested")
     \/ /\ status' = [status EXCEPT ![b] = "confirmed"]
        /\ log' = [log EXCEPT ![b] = <<"Requested", "Confirmed">>]

Move(b, from, to, event) ==
  /\ status[b] \in from
  /\ status' = [status EXCEPT ![b] = to]
  /\ Announce(b, event)
  /\ UNCHANGED nights

Modify(b)   == Move(b, {"pending"}, "pending", "Modified")
Confirm(b)  == Move(b, {"pending"}, "confirmed", "Confirmed")
Cancel(b)   == Move(b, {"pending", "confirmed"}, "cancelled", "Cancelled")
Complete(b) == Move(b, {"confirmed"}, "completed", "Completed")

Next == \E b \in Booking :
          Book(b) \/ Modify(b) \/ Confirm(b) \/ Cancel(b) \/ Complete(b)

Spec == Init /\ [][Next]_vars
=============================================================================
