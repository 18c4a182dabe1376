---------------------------- MODULE Experiences ----------------------------
(***************************************************************************)
(* One experience of a host, and the bookings of its sessions.             *)
(*   application/{experience,experiencebooking}/service.go and their       *)
(*   domains, infrastructure/persistence/postgres/experience_repository.go *)
(*   and experience_booking_repository.go, migrations 0051 and 0052        *)
(*                                                                         *)
(* Every call loads a row, works on the copy and writes the row whole.     *)
(* Nothing but a look-up guards the sessions of an experience: the table   *)
(* has no exclusion constraint.                                            *)
(***************************************************************************)
EXTENDS FiniteSets, Naturals

CONSTANTS Call,     \* calls; a call of Create names the booking it makes
          Editor,   \* the host's calls on the listing
          Starts,   \* start times of sessions
          Lengths,  \* durations a listing may have
          LastTime, \* bound: the clock
          BatchLimit \* autoCompleteBatchLimit

VARIABLES
  listing, \* the experiences row
  edit,    \* the copies the host's calls work on
  row,     \* the experience_bookings rows
  clock,
  call,    \* what each call is doing
  told,    \* the events of each booking in the outbox
  raced,   \* bookings whose Create ran beside another
  revived  \* bookings written back to life by a stale copy

experienceVars == <<listing, edit, row, clock, call, told, raced, revived>>
onListing      == <<row, clock, call, told, raced, revived>>

NoRow  == [status |-> "none", start |-> 0, length |-> 0]
Gone   == [status |-> "deleted", described |-> FALSE, photos |-> 0, length |-> 0]
\* A call: its booking, the copy it writes, and the events or the batch it has left.
Doing(op, at, id, copy, left) == [op |-> op, at |-> at, id |-> id, copy |-> copy, left |-> left]
Idle   == Doing("new", "new", "none", NoRow, {})
Over   == Doing("over", "over", "none", NoRow, {})
Closed == [op |-> "over", copy |-> Gone]

\* NewExperience: a draft without photos; the description may be empty.
Init ==
  /\ \E d \in BOOLEAN, n \in Lengths :
       listing = [status |-> "draft", described |-> d, photos |-> 0, length |-> n]
  /\ edit = [e \in Editor |-> [op |-> "new", copy |-> Gone]]
  /\ row = [b \in Call |-> NoRow] /\ clock = 0
  /\ call = [c \in Call |-> Idle]
  /\ told = [b \in Call |-> {}] /\ raced = {} /\ revived = {}

Tick ==
  /\ clock < LastTime /\ clock' = clock + 1
  /\ UNCHANGED <<listing, edit, row, call, told, raced, revived>>

-----------------------------------------------------------------------------
(* The host edits the listing.                                               *)

Exists == listing.status # "deleted"

Edit(e, op, copy) ==
  /\ Exists /\ edit[e].op = "new"
  /\ edit' = [edit EXCEPT ![e] = [op |-> op, copy |-> copy]]
  /\ UNCHANGED <<listing, onListing>>

\* UpdateBasics runs the constructor's checks, which ask for no description.
UpdateBasics(e) ==
  \E d \in BOOLEAN, n \in Lengths :
    Edit(e, "write", [listing EXCEPT !.described = d, !.length = n])

\* (A second photo changes nothing that is looked at here.)
AddPhoto(e) == listing.photos = 0 /\ Edit(e, "write", [listing EXCEPT !.photos = 1])

Publish(e) ==
  /\ listing.status = "published" \/ (listing.described /\ listing.photos > 0)
  /\ Edit(e, "write", [listing EXCEPT !.status = "published"])

Suspend(e) == Edit(e, "write", [listing EXCEPT !.status = "suspended"])
Delete(e)  == Edit(e, "delete", Gone)

\* An update of a row that is gone is refused.
UpdateListing(e) ==
  /\ edit[e].op = "write" /\ edit' = [edit EXCEPT ![e] = Closed]
  /\ listing' = IF Exists THEN edit[e].copy ELSE listing
  /\ UNCHANGED onListing

\* ON DELETE CASCADE: the bookings go with their experience.
DeleteListing(e) ==
  /\ edit[e].op = "delete" /\ edit' = [edit EXCEPT ![e] = Closed]
  /\ listing' = Gone /\ row' = [b \in Call |-> NoRow]
  /\ UNCHANGED <<clock, call, told, raced, revived>>

-----------------------------------------------------------------------------
(* A guest books a session.                                                  *)

At(c, op, at) == call[c].op = op /\ call[c].at = at
EndAt(r) == r.start + r.length

\* Half-open windows, of every booking that is not cancelled.
\* Fault: pending bookings hold no session.
Overlap_ConfirmedOnly(r, s) == r.status = "confirmed" /\ r.start < EndAt(s) /\ s.start < EndAt(r)
Overlap(r, s) ==
  r.status \notin {"none", "cancelled"} /\ r.start < EndAt(s) /\ s.start < EndAt(r)

\* The experience must be published and the session in the future.
Create(c, start) ==
  /\ call[c] = Idle /\ listing.status = "published" /\ start > clock
  /\ call' = [call EXCEPT ![c] = Doing("create", "look", "none",
       [status |-> "pending", start |-> start, length |-> listing.length], {})]
  /\ UNCHANGED <<listing, edit, row, clock, told, raced, revived>>

FindOverlapping(c) ==
  /\ At(c, "create", "look")
  /\ call' = [call EXCEPT ![c] = IF \E b \in Call : Overlap(row[b], call[c].copy)
                                THEN Over ELSE Doing("create", "insert", "none", @.copy, {})]
  /\ raced' = raced \cup
       (LET beside == {d \in Call : At(d, "create", "insert")} IN
        IF beside = {} THEN {} ELSE beside \cup {c})
  /\ UNCHANGED <<listing, edit, row, clock, told, revived>>

\* The row and its event in one transaction; the foreign key wants the experience.
Insert(c) ==
  /\ At(c, "create", "insert") /\ call' = [call EXCEPT ![c] = Over]
  /\ IF Exists THEN /\ row' = [row EXCEPT ![c] = call[c].copy]
                    /\ told' = [told EXCEPT ![c] = @ \cup {"created"}]
               ELSE UNCHANGED <<row, told>>
  /\ UNCHANGED <<listing, edit, clock, raced, revived>>

-----------------------------------------------------------------------------
(* The host and the guest move a booking along.                              *)

\* The aggregate's transitions: the statuses a copy may have, and the one it gets.
Confirmed(r) == IF r.status \in {"pending", "confirmed"} THEN "confirmed" ELSE "refused"
Cancelled(r) ==
  IF r.status = "cancelled" \/ (r.status \in {"pending", "confirmed"} /\ clock < r.start)
  THEN "cancelled" ELSE "refused"

Completed(r) ==
  IF r.status = "completed" \/ (r.status = "confirmed" /\ clock >= EndAt(r))
  THEN "completed" ELSE "refused"

\* Load and check.
Load(c, op, b, status) ==
  /\ call[c] = Idle /\ row[b] # NoRow /\ status # "refused"
  /\ call' = [call EXCEPT ![c] = Doing(op, "write", b, [row[b] EXCEPT !.status = status],
       IF op # "complete" /\ row[b].status # status THEN {status} ELSE {})]
  /\ UNCHANGED <<listing, edit, row, clock, told, raced, revived>>

Confirm(c, b)  == Load(c, "confirm", b, Confirmed(row[b]))
Cancel(c, b)   == Load(c, "cancel", b, Cancelled(row[b]))
Complete(c, b) == Load(c, "complete", b, Completed(row[b]))

\* Update writes the copy over whatever the row has become, and its event with
\* it if the copy made a transition.
Write(b, copy) ==
  /\ row' = IF row[b] = NoRow THEN row ELSE [row EXCEPT ![b] = copy]
  /\ revived' = IF row[b].status = "cancelled" /\ copy.status # "cancelled"
                THEN revived \cup {b} ELSE revived

Update(c) ==
  /\ call[c].at = "write" /\ call' = [call EXCEPT ![c] = Over]
  /\ Write(call[c].id, call[c].copy)
  /\ told' = IF row[call[c].id] = NoRow THEN told
             ELSE [told EXCEPT ![call[c].id] = @ \cup call[c].left]
  /\ UNCHANGED <<listing, edit, clock, raced>>

\* AutoCompleteOverdue: the batch is a snapshot, each booking a transaction of its
\* own; the list holds one row at most per booking.
Overdue == {b \in Call : row[b].status = "confirmed" /\ Completed(row[b]) = "completed"}

FindConfirmedPastSession(c) ==
  /\ call[c] = Idle /\ Overdue # {}
  /\ \E batch \in SUBSET Overdue :
       /\ Cardinality(batch) = (IF Cardinality(Overdue) < BatchLimit THEN Cardinality(Overdue)
                                ELSE BatchLimit)
       /\ \A b \in batch, d \in Overdue \ batch : row[b].start <= row[d].start
       /\ call' = [call EXCEPT ![c] = Doing("sweep", "sweep", "none", NoRow,
            {[id |-> b, copy |-> [row[b] EXCEPT !.status = "completed"]] : b \in batch})]
  /\ UNCHANGED <<listing, edit, row, clock, told, raced, revived>>

\* One booking of the batch after the other, the earliest session first.
AutoComplete(c) ==
  /\ At(c, "sweep", "sweep")
  /\ \E item \in call[c].left :
       /\ \A other \in call[c].left : item.copy.start <= other.copy.start
       /\ Write(item.id, item.copy)
       /\ call' = [call EXCEPT ![c] = IF @.left = {item} THEN Over
                                     ELSE Doing("sweep", "sweep", "none", NoRow, @.left \ {item})]
  /\ UNCHANGED <<listing, edit, clock, told, raced>>

Next ==
  \/ Tick
  \/ \E e \in Editor :
       \/ UpdateBasics(e) \/ AddPhoto(e) \/ Publish(e) \/ Suspend(e) \/ Delete(e)
       \/ UpdateListing(e) \/ DeleteListing(e)
  \/ \E c \in Call, start \in Starts : Create(c, start)
  \/ \E c \in Call :
       \/ FindOverlapping(c) \/ Insert(c) \/ Update(c)
       \/ FindConfirmedPastSession(c) \/ AutoComplete(c)
  \/ \E c, b \in Call : Confirm(c, b) \/ Cancel(c, b) \/ Complete(c, b)

-----------------------------------------------------------------------------
Holds(r) == r.status \in {"pending", "confirmed", "completed"}

\* Two bookings share a session only if their calls to Create ran side by side,
\* or a stale copy brought one of them back: service.go:198-256 and
\* experience_booking_repository.go:212-227.
DoubleSaleNeedsARace ==
  \A b, d \in Call :
    /\ b # d /\ Holds(row[b]) /\ Holds(row[d])
    /\ row[b].start < EndAt(row[d]) /\ row[d].start < EndAt(row[b])
    => {b, d} \subseteq raced \/ {b, d} \cap revived # {}

\* A completed session was confirmed, with the event that charges the guest, and
\* is over: service.go:395-461.
CompletedWasConfirmed ==
  \A b \in Call : row[b].status = "completed" =>
    "confirmed" \in told[b] /\ clock >= EndAt(row[b])

\* A session has one holder, except after a race or a stale write, and is completed
\* only once it was confirmed and is over: experiencebooking/service.go:198-461.
SessionsAreExplained == DoubleSaleNeedsARace /\ CompletedWasConfirmed
=============================================================================
