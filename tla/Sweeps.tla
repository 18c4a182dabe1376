------------------------------- MODULE Sweeps --------------------------------
(***************************************************************************)
(* Two jobs of the scheduler, on every replica: the notice that arrival    *)
(* details can be seen, and the alerts of saved searches.                  *)
(*   application/arrival, application/savedsearch, their repositories,     *)
(*   infrastructure/scheduler                                              *)
(*                                                                         *)
(* Both read a list, check each item and then write, with nothing that     *)
(* keeps two replicas, or a restart in between, from doing it twice.       *)
(***************************************************************************)
EXTENDS FiniteSets, Naturals

CONSTANTS Replica, Booking, Listing, MaxTime, MaxFaults

VARIABLES
  stay,     \* the bookings: pending, confirmed, near (check-in within 48 hours), cancelled
  notices,  \* arrival notices in each guest's inbox
  letters,  \* the mails that follow them
  clock,
  place,    \* the listings: created at, and whether published
  search,   \* the saved search: its alerts on or off, and last_notified_at
  alerts,   \* history: how often each listing was counted in an alert
  passed,   \* history: listings that a mark went past and that the search had not found
  task,
  overlap,  \* history: two replicas have swept at the same time
  faulted

sweepVars == <<stay, notices, letters, clock, place, search, alerts, passed, task, overlap, faulted>>

Idle == [at |-> "idle", todo |-> {}, found |-> {}, last |-> 0]
NoPlace == [created |-> 0, published |-> FALSE]
NoSearch == [on |-> FALSE, since |-> 0, last |-> 0, gone |-> FALSE]

Init ==
  /\ stay = [b \in Booking |-> "pending"] /\ notices = [b \in Booking |-> 0]
  /\ letters = [b \in Booking |-> 0] /\ clock = 1
  /\ place = [l \in Listing |-> NoPlace] /\ search = NoSearch
  /\ alerts = [l \in Listing |-> 0] /\ passed = {}
  /\ task = [r \in Replica |-> Idle] /\ overlap = FALSE /\ faulted = 0

Fault == faulted < MaxFaults /\ faulted' = faulted + 1
At(r, at) == task[r].at = at
Goes(r, rec) == task' = [task EXCEPT ![r] = rec]

\* The job runs again on its interval; jobs of one process do not overlap.
Starts(r, rec) ==
  /\ At(r, "idle") /\ Goes(r, rec)
  /\ overlap' = (overlap \/ \E q \in Replica \ {r} : ~At(q, "idle"))

\* Every stamp is later than those before it.
Stamp == clock < MaxTime /\ clock' = clock + 1

-----------------------------------------------------------------------------
(* Arrival details.                                                          *)

\* The life of a booking, as far as the sweep can see it.
Moves == {<<"pending", "confirmed">>, <<"confirmed", "near">>, <<"confirmed", "cancelled">>,
          <<"near", "cancelled">>}
MoveBooking(b, to) ==
  /\ <<stay[b], to>> \in Moves /\ stay' = [stay EXCEPT ![b] = to]
  /\ UNCHANGED <<notices, letters, clock, place, search, alerts, passed, task, overlap, faulted>>

\* ListConfirmedStartingBetween now and the end of the window.
RunArrivals(r) ==
  /\ Starts(r, [Idle EXCEPT !.at = "check", !.todo = {b \in Booking : stay[b] = "near"}])
  /\ UNCHANGED <<stay, notices, letters, clock, place, search, alerts, passed, faulted>>

\* ExistsForUser keeps a guest from being told twice; a look-up that fails skips.
Told(b) == notices[b] > 0

CheckTold(r, b) ==
  /\ At(r, "check") /\ b \in task[r].todo
  /\ \/ Told(b) /\ Goes(r, [task[r] EXCEPT !.todo = @ \ {b}]) /\ UNCHANGED faulted
     \/ ~Told(b) /\ Goes(r, [task[r] EXCEPT !.at = "notify", !.found = {b}]) /\ UNCHANGED faulted
     \/ Goes(r, [task[r] EXCEPT !.todo = @ \ {b}]) /\ Fault
  /\ UNCHANGED <<stay, notices, letters, clock, place, search, alerts, passed, overlap>>

\* The row of the inbox; without it the booking waits for the next run.
NotifyArrival(r, b) ==
  /\ At(r, "notify") /\ task[r].found = {b}
  /\ \/ /\ notices' = [notices EXCEPT ![b] = @ + 1]
        /\ Goes(r, [task[r] EXCEPT !.at = "mail"]) /\ UNCHANGED faulted
     \/ /\ Goes(r, [task[r] EXCEPT !.at = "check", !.found = {}, !.todo = @ \ {b}])
        /\ UNCHANGED notices /\ Fault
  /\ UNCHANGED <<stay, letters, clock, place, search, alerts, passed, overlap>>

\* The mail is best effort: an error is logged, and the row stops a second attempt.
MailArrival(r, b) ==
  /\ At(r, "mail") /\ task[r].found = {b}
  /\ Goes(r, [task[r] EXCEPT !.at = "check", !.found = {}, !.todo = @ \ {b}])
  /\ \/ letters' = [letters EXCEPT ![b] = @ + 1] /\ UNCHANGED faulted
     \/ UNCHANGED letters /\ Fault
  /\ UNCHANGED <<stay, notices, clock, place, search, alerts, passed, overlap>>

-----------------------------------------------------------------------------
(* Saved searches.                                                           *)

CreateListing(l) ==
  /\ place[l].created = 0 /\ place' = [place EXCEPT ![l].created = clock] /\ Stamp
  /\ UNCHANGED <<stay, notices, letters, search, alerts, passed, task, overlap, faulted>>

\* Published, possibly long after it was created; or taken off again.
Publish(l) ==
  /\ place[l].created > 0 /\ ~place[l].published /\ place' = [place EXCEPT ![l].published = TRUE]
  /\ UNCHANGED <<stay, notices, letters, clock, search, alerts, passed, task, overlap, faulted>>

\* A new search counts from the time it is saved.
SaveSearch ==
  /\ search = NoSearch /\ Stamp
  /\ search' = [on |-> TRUE, since |-> clock, last |-> clock, gone |-> FALSE]
  /\ UNCHANGED <<stay, notices, letters, place, alerts, passed, task, overlap, faulted>>

SetAlerts ==
  /\ search.last > 0 /\ search' = [search EXCEPT !.on = ~@]
  /\ UNCHANGED <<stay, notices, letters, clock, place, alerts, passed, task, overlap, faulted>>

DeleteSearch ==
  /\ search.last > 0 /\ search' = [NoSearch EXCEPT !.gone = TRUE]
  /\ UNCHANGED <<stay, notices, letters, clock, place, alerts, passed, task, overlap, faulted>>

\* ListAlertable: the searches as they are when the job starts.
RunAlerts(r) ==
  /\ search.on /\ Starts(r, [Idle EXCEPT !.at = "search", !.last = search.last])
  /\ UNCHANGED <<stay, notices, letters, clock, place, search, alerts, passed, faulted>>

\* What is published and was created after the last notice is new.
Search(r) ==
  LET new == {l \in Listing : place[l].published /\ place[l].created > task[r].last}
  IN  /\ At(r, "search")
      /\ Goes(r, IF new = {} THEN Idle ELSE [task[r] EXCEPT !.at = "alert", !.found = new])
      /\ UNCHANGED <<stay, notices, letters, clock, place, search, alerts, passed, overlap, faulted>>

\* A notice that could not be written leaves the search as it was, for the next run.
\* Fault: it is marked all the same.
AfterRefusal_Marked(r) == [task[r] EXCEPT !.at = "mark"]
AfterRefusal(r) == Idle

Alert(r) ==
  /\ At(r, "alert")
  /\ \/ /\ Goes(r, [task[r] EXCEPT !.at = "mark"]) /\ UNCHANGED faulted
        /\ alerts' = [l \in Listing |-> alerts[l] + IF l \in task[r].found THEN 1 ELSE 0]
     \/ Goes(r, AfterRefusal(r)) /\ UNCHANGED alerts /\ Fault
  /\ UNCHANGED <<stay, notices, letters, clock, place, search, passed, overlap>>

\* last_notified_at is the time of the mark, not the time of the search.
MarkNotified(r) ==
  /\ At(r, "mark") /\ Goes(r, Idle)
  /\ \/ /\ search' = IF search.gone THEN search ELSE [search EXCEPT !.last = clock]
        /\ Stamp
        /\ passed' = passed \cup {l \in Listing : place[l].created \in 1 .. clock /\ l \notin task[r].found}
        /\ UNCHANGED faulted
     \/ UNCHANGED <<search, passed, clock>> /\ Fault
  /\ UNCHANGED <<stay, notices, letters, place, alerts, overlap>>

-----------------------------------------------------------------------------

Finish(r) ==
  /\ At(r, "check") /\ task[r].todo = {} /\ Goes(r, Idle)
  /\ UNCHANGED <<stay, notices, letters, clock, place, search, alerts, passed, overlap, faulted>>

Restart(r) ==
  /\ ~At(r, "idle") /\ Goes(r, Idle) /\ Fault
  /\ UNCHANGED <<stay, notices, letters, clock, place, search, alerts, passed, overlap>>

Next ==
  \/ SaveSearch \/ SetAlerts \/ DeleteSearch
  \/ \E b \in Booking, to \in {"confirmed", "near", "cancelled"} : MoveBooking(b, to)
  \/ \E l \in Listing : CreateListing(l) \/ Publish(l)
  \/ \E r \in Replica :
       \/ RunArrivals(r) \/ RunAlerts(r) \/ Search(r) \/ Alert(r) \/ MarkNotified(r)
       \/ Finish(r) \/ Restart(r)
       \/ \E b \in Booking : CheckTold(r, b) \/ NotifyArrival(r, b) \/ MailArrival(r, b)

-----------------------------------------------------------------------------
\* A guest has one arrival notice, and a mail with it, unless two replicas swept at
\* once; a mail is missing only after a fault (application/arrival/service.go:80-114).
\* A listing that the mark of a search went past was in an alert, or the search had
\* not found it, and it is in two alerts only if replicas overlapped or a mark was lost
\* (application/savedsearch/service.go:62-99).
SweepsAreExplained ==
  /\ \A b \in Booking :
       /\ letters[b] <= notices[b]
       /\ notices[b] > 1 => overlap
       /\ notices[b] > letters[b] =>
            faulted > 0 \/ \E r \in Replica : At(r, "mail") /\ task[r].found = {b}
  /\ \A l \in Listing :
       /\ alerts[l] > 1 => overlap \/ faulted > 0
       /\ place[l].created \in search.since + 1 .. search.last => alerts[l] > 0 \/ l \in passed
=============================================================================
