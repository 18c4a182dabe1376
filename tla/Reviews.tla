------------------------------- MODULE Reviews -------------------------------
(***************************************************************************)
(* Reviews of completed stays, the rating that a listing caches and the    *)
(* badge of its host.                                                      *)
(*   application/review, domain/review, postgres/review_repository.go,     *)
(*   the rating columns of postgres/property_repository.go                 *)
(*                                                                         *)
(* A review is loaded, changed and written back whole; the rating of the   *)
(* listing is then recomputed and stored, and the badge from the ratings   *)
(* of all of the host's listings: four statements, outside a transaction.  *)
(***************************************************************************)
EXTENDS FiniteSets, Naturals, Sums

CONSTANTS Call, Booking, Listing,
          Place,      \* the listing of each booking; all belong to one host
          Rating, MinReviews,
          MaxFaults

VARIABLES
  completed, \* the bookings whose stay is over
  reviews,   \* the reviews table
  locked,    \* the reviews whose edit window has passed
  rating,    \* average_rating and review_count of each listing
  badge,     \* host_is_superhost
  call,
  stale,     \* history: listings whose rating was last set from an old summary
  aged,      \* history: the badge was last set from old ratings
  faulted

reviewVars == <<completed, reviews, locked, rating, badge, call, stale, aged, faulted>>

Kind == {"guest_to_property", "host_to_guest"}
NoReview == [rating |-> 0, response |-> FALSE]
NoRating == [sum |-> 0, count |-> 0]
Idle == [at |-> "new", op |-> "none", b |-> "none", k |-> "none", copy |-> NoReview,
         sum |-> NoRating, badge |-> FALSE, dirty |-> FALSE]
Over == [Idle EXCEPT !.at = "over"]

Init ==
  /\ completed = {} /\ locked = {} /\ stale = {} /\ aged = FALSE /\ faulted = 0
  /\ reviews = [b \in Booking |-> [k \in Kind |-> NoReview]]
  /\ rating = [p \in Listing |-> NoRating] /\ badge = FALSE
  /\ call = [c \in Call |-> Idle]

Fault == faulted < MaxFaults /\ faulted' = faulted + 1
At(c, at) == call[c].at = at
Row(c) == reviews[call[c].b][call[c].k]

Complete(b) ==
  /\ b \notin completed /\ completed' = completed \cup {b}
  /\ UNCHANGED <<reviews, locked, rating, badge, call, stale, aged, faulted>>

\* 48 hours after it was posted.
WindowPasses(b, k) ==
  /\ reviews[b][k] # NoReview /\ <<b, k>> \notin locked
  /\ locked' = locked \cup {<<b, k>>}
  /\ UNCHANGED <<completed, reviews, rating, badge, call, stale, aged, faulted>>

-----------------------------------------------------------------------------
(* The ratings.                                                              *)

\* The reviews that count for a listing.
AboutProperty(p) ==
  {b \in Booking : Place[b] = p /\ reviews[b]["guest_to_property"] # NoReview}
Summary(p) ==
  LET about == AboutProperty(p)
  IN  [sum |-> SumOver([b \in about |-> reviews[b]["guest_to_property"].rating], about),
       count |-> Cardinality(about)]

\* The badge asks for enough reviews and an average of 4.8 over all listings.
Qualifies ==
  LET count == SumOver([p \in Listing |-> rating[p].count], Listing)
      sum   == SumOver([p \in Listing |-> rating[p].sum], Listing)
  IN  count >= MinReviews /\ 10 * sum >= 48 * count

-----------------------------------------------------------------------------
(* Reviews.                                                                  *)

Load(c, b, k, op, copy, at) ==
  /\ At(c, "new")
  /\ call' = [call EXCEPT ![c] = [Idle EXCEPT !.at = at, !.op = op, !.b = b, !.k = k, !.copy = copy]]
  /\ UNCHANGED <<completed, reviews, locked, rating, badge, stale, aged, faulted>>

\* What the domain makes of a review.
NewReview(stars)   == [NoReview EXCEPT !.rating = stars]
Edited(rv, stars)  == [rv EXCEPT !.rating = stars]
WithResponse(rv)   == [rv EXCEPT !.response = TRUE]

NotReviewed(b, k) == reviews[b][k] = NoReview

\* The guest reviews the listing.
CreateReview(c, b, stars) ==
  /\ b \in completed /\ NotReviewed(b, "guest_to_property")
  /\ Load(c, b, "guest_to_property", "create", NewReview(stars), "insert")

\* The host reviews the guest.
CreateGuestReview(c, b, stars) ==
  /\ b \in completed /\ NotReviewed(b, "host_to_guest")
  /\ Load(c, b, "host_to_guest", "create", NewReview(stars), "insert")

Editable(b, k) == reviews[b][k] # NoReview /\ <<b, k>> \notin locked

EditOwnReview(c, b, k, stars) ==
  Editable(b, k) /\ Load(c, b, k, "edit", Edited(reviews[b][k], stars), "update")

DeleteOwnReview(c, b, k) ==
  Editable(b, k) /\ Load(c, b, k, "delete", NoReview, "delete")

\* The host's reply: of a review of the listing only, at any time.
RespondToReview(c, b) ==
  LET rv == reviews[b]["guest_to_property"]
  IN  rv # NoReview /\ Load(c, b, "guest_to_property", "respond",
                            WithResponse(rv), "update")

\* Which writes recompute the rating.
\* Fault: an edit keeps the rating of the listing.
Rerates_NotEdits(op, k) == op \in {"create", "delete"} /\ k = "guest_to_property"
Rerates(op, k) == op # "respond" /\ k = "guest_to_property"

\* A row is written: what others have summarised of the listing is old now.
Wrote(c, row) ==
  LET b == call[c].b  k == call[c].k
  IN  /\ reviews' = [reviews EXCEPT ![b][k] = row]
      /\ call' = [d \in Call |->
           IF d = c THEN IF Rerates(call[c].op, k) THEN [call[c] EXCEPT !.at = "summarise"] ELSE Over
           ELSE IF At(d, "rate") /\ Place[call[d].b] = Place[b]
                THEN [call[d] EXCEPT !.dirty = TRUE] ELSE call[d]]

\* One review of each kind for a booking: the index refuses a second.
Unique(c) == Row(c) = NoReview

InsertReview(c) ==
  /\ At(c, "insert")
  /\ \/ Unique(c) /\ Wrote(c, call[c].copy)
     \/ ~Unique(c) /\ call' = [call EXCEPT ![c] = Over] /\ UNCHANGED reviews
  /\ UNCHANGED <<completed, locked, rating, badge, stale, aged, faulted>>

\* UPDATE of rating, comment and reply; the reply brings back the rating it was
\* loaded with, which nothing recomputes.
UpdateReview(c) ==
  /\ At(c, "update")
  /\ \/ /\ Row(c) # NoReview /\ Wrote(c, call[c].copy)
        /\ stale' = IF call[c].op = "respond" /\ Row(c).rating # call[c].copy.rating
                      THEN stale \cup {Place[call[c].b]} ELSE stale
     \/ Row(c) = NoReview /\ call' = [call EXCEPT ![c] = Over] /\ UNCHANGED <<reviews, stale>>
  /\ UNCHANGED <<completed, locked, rating, badge, aged, faulted>>

DeleteReview(c) ==
  /\ At(c, "delete")
  /\ \/ /\ Row(c) # NoReview /\ Wrote(c, NoReview)
        /\ locked' = locked \ {<<call[c].b, call[c].k>>}
     \/ Row(c) = NoReview /\ call' = [call EXCEPT ![c] = Over] /\ UNCHANGED <<reviews, locked>>
  /\ UNCHANGED <<completed, rating, badge, stale, aged, faulted>>

-----------------------------------------------------------------------------
(* refreshPropertyRating and refreshHostSuperhost; an error ends them early  *)
(* and is not reported, except that a rating that was not stored is skipped. *)

Summarise(c) ==
  /\ At(c, "summarise")
  /\ call' = [call EXCEPT ![c].at = "rate", ![c].sum = Summary(Place[call[c].b])]
  /\ UNCHANGED <<completed, reviews, locked, rating, badge, stale, aged, faulted>>

UpdateRating(c) ==
  LET p == Place[call[c].b]
  IN  /\ At(c, "rate")
      /\ \/ /\ rating' = [rating EXCEPT ![p] = call[c].sum]
            /\ stale' = IF call[c].dirty THEN stale \cup {p} ELSE stale \ {p}
            /\ call' = [d \in Call |->
                 IF d = c THEN [call[c] EXCEPT !.at = "aggregate", !.dirty = FALSE]
                 ELSE IF At(d, "badge") THEN [call[d] EXCEPT !.dirty = TRUE] ELSE call[d]]
            /\ UNCHANGED faulted
         \/ /\ call' = [call EXCEPT ![c].at = "aggregate", ![c].dirty = FALSE]
            /\ UNCHANGED <<rating, stale>> /\ Fault
  /\ UNCHANGED <<completed, reviews, locked, badge, aged>>

HostRatingAggregate(c) ==
  /\ At(c, "aggregate") /\ call' = [call EXCEPT ![c].at = "badge", ![c].badge = Qualifies]
  /\ UNCHANGED <<completed, reviews, locked, rating, badge, stale, aged, faulted>>

SetHostSuperhost(c) ==
  /\ At(c, "badge") /\ call' = [call EXCEPT ![c] = Over]
  /\ badge' = call[c].badge /\ aged' = call[c].dirty
  /\ UNCHANGED <<completed, reviews, locked, rating, stale, faulted>>

\* A statement fails, or the process stops: the rest is left out.
GiveUp(c) ==
  /\ ~At(c, "new") /\ ~At(c, "over") /\ call' = [call EXCEPT ![c] = Over] /\ Fault
  /\ UNCHANGED <<completed, reviews, locked, rating, badge, stale, aged>>

Next ==
  \/ \E b \in Booking : Complete(b) \/ \E k \in Kind : WindowPasses(b, k)
  \/ \E c \in Call :
       \/ InsertReview(c) \/ UpdateReview(c) \/ DeleteReview(c)
       \/ Summarise(c) \/ UpdateRating(c) \/ HostRatingAggregate(c) \/ SetHostSuperhost(c)
       \/ GiveUp(c)
       \/ \E b \in Booking :
            \/ RespondToReview(c, b)
            \/ \E k \in Kind : DeleteOwnReview(c, b, k)
            \/ \E stars \in Rating :
                 \/ CreateReview(c, b, stars) \/ CreateGuestReview(c, b, stars)
                 \/ \E k \in Kind : EditOwnReview(c, b, k, stars)

-----------------------------------------------------------------------------
\* A rating that is not the one of the reviews has an explanation, and so has a
\* badge that the ratings do not earn (application/review/service.go:254-279): its
\* refresh is on the way, a statement of it failed, the summary it was set from was
\* old when it was stored, or a reply wrote back a rating that had been edited.
RatingIsExplained ==
  /\ \A p \in Listing : rating[p] # Summary(p) =>
       \/ p \in stale \/ faulted > 0
       \/ \E c \in Call : call[c].at \in {"summarise", "rate"} /\ Place[call[c].b] = p
  /\ badge # Qualifies =>
       aged \/ faulted > 0 \/ \E c \in Call : call[c].at \in {"aggregate", "badge"}
=============================================================================
