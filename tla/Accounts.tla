------------------------------- MODULE Accounts -------------------------------
(***************************************************************************)
(* One host's account: the users row, what its suspension does to their    *)
(* listing and booking, and the payout account at the provider.            *)
(*   application/user, domain/user, postgres/user_repository.go,           *)
(*   handler/user_handler.go, payout onboarding (application/payout),      *)
(*   handler/connect_webhook_handler.go, middleware/auth.go                *)
(*                                                                         *)
(* Every change loads the row, changes the copy and writes back all of it  *)
(* but the subject of the identity provider.                               *)
(***************************************************************************)
EXTENDS Naturals

CONSTANTS Call, MaxEvents, MaxFaults

VARIABLES
  row,       \* the users row; acct is the linked payout account, 0 for none
  provider,  \* the accounts at the payment provider: none, off or on
  sent,      \* account.updated events that the provider still delivers
  listing, stay,
  call,
  decision,  \* history: the last decision about the account that committed
  cascade,   \* history: what each cascade that is over met
  odd,       \* history: did an old copy undo the decision, or a payout status
  links,     \* history: accounts for which the host has an onboarding link
  faulted

accountVars == <<row, provider, sent, listing, stay, call, decision, cascade, odd, links, faulted>>

Account == {1, 2}
NewUser == [active |-> TRUE, role |-> "guest", prefs |-> "all", acct |-> 0,
            enabled |-> FALSE, name |-> "own"]
Idle == [op |-> "none", at |-> "idle", copy |-> NewUser, event |-> 0, stale |-> FALSE,
         seen |-> "none", failed |-> {}]

Init ==
  /\ row \in {NewUser, [NewUser EXCEPT !.role = "host"]}
  /\ provider = [a \in Account |-> "none"] /\ sent = {}
  /\ listing = "published" /\ stay = "none"
  /\ call = [c \in Call |-> Idle] /\ decision = "none" /\ cascade = {}
  /\ odd = [active |-> FALSE, payout |-> FALSE] /\ links = {} /\ faulted = 0

Fault == faulted < MaxFaults /\ faulted' = faulted + 1
At(c, op, at) == call[c].op = op /\ call[c].at = at
Goes(c, at) == [call EXCEPT ![c].at = at]
Done(c) == [call EXCEPT ![c] = [Idle EXCEPT !.at = "over"]]

\* The middleware refuses the bearer of an inactive account.
Authenticated == row.active

\* Load the row and change the copy; the row is written in a step of its own.
Load(c, op, at, copy) ==
  /\ call[c].at = "idle"
  /\ call' = [call EXCEPT ![c] = [Idle EXCEPT !.op = op, !.at = at, !.copy = copy]]
  /\ UNCHANGED <<row, provider, sent, listing, stay, decision, cascade, odd, links, faulted>>

-----------------------------------------------------------------------------
(* The aggregate.                                                            *)

ElevateRole(u) == [u EXCEPT !.role = "host"]
PromoteToHost(u) == [u EXCEPT !.role = "host"]
SetEmailPreferences(u) == [u EXCEPT !.prefs = IF @ = "all" THEN "noEmail" ELSE @]
SetPushPreferences(u) == [u EXCEPT !.prefs = IF @ = "noEmail" THEN "none" ELSE @]
Suspended(u) == [u EXCEPT !.active = FALSE]
Unsuspended(u) == [u EXCEPT !.active = TRUE]
LinkPayoutAccount(u, a) == [u EXCEPT !.acct = a, !.enabled = FALSE]
SetPayoutsEnabled(u, on) == [u EXCEPT !.enabled = on]

\* Name and email are replaced and the account deactivated.  The new subject is not
\* among the columns that Update writes, so the row keeps its link to the identity.
Anonymize(u) == [u EXCEPT !.name = "deleted", !.active = FALSE]

-----------------------------------------------------------------------------
(* Calls of the owner and of the administrator.                              *)

\* Any request: the row is found by its subject, and a host role in the token is
\* written to it, before the middleware looks whether it is active.
SyncFromIdentity(c) == row.role = "guest" /\ Load(c, "sync", "write", ElevateRole(row))

UpdateProfile(c) == Authenticated /\ Load(c, "profile", "write", row)
BecomeHost(c) == Authenticated /\ Load(c, "profile", "write", PromoteToHost(row))
UpdateEmailPreferences(c) ==
  Authenticated /\ row.prefs = "all" /\ Load(c, "email", "write", SetEmailPreferences(row))

\* The second half of the preferences request, with a load of its own.
UpdatePushPreferences(c) ==
  /\ At(c, "email", "push")
  /\ call' = [call EXCEPT ![c] = [Idle EXCEPT !.op = "push", !.at = "write",
                                              !.copy = SetPushPreferences(row)]]
  /\ UNCHANGED <<row, provider, sent, listing, stay, decision, cascade, odd, links, faulted>>

\* A suspension of a suspended account changes nothing and runs no cascade.
Suspend(c) == row.active /\ Load(c, "suspend", "write", Suspended(row))

\* The refusal of erased accounts looks at the subject, which they still have.
Unsuspend(c) == ~row.active /\ Load(c, "unsuspend", "write", Unsuspended(row))

Erase(c) == Authenticated /\ Load(c, "erase", "write", Anonymize(row))

Decision == {"suspend", "unsuspend", "erase"}

\* Whoever is between load and write now holds an old copy.
Outdates(c, next) ==
  [d \in Call |-> IF d # c /\ next[d].at \in {"create", "ask", "write", "sync"}
                  THEN [next[d] EXCEPT !.stale = TRUE] ELSE next[d]]

\* What follows the write of a call.
Then(op) ==
  CASE op = "suspend" -> "listings"
    [] op = "email"   -> "push"
    [] op = "webhook" -> "record"
    [] OTHER          -> "idle"

\* UPDATE users: the whole copy, or an error that ends the call.
Update(c) ==
  LET k == call[c]
      next == IF Then(k.op) = "idle" THEN Done(c) ELSE Goes(c, Then(k.op))
  IN  /\ k.at = "write"
      /\ \/ /\ row' = k.copy /\ call' = Outdates(c, next)
            /\ decision' = IF k.op \in Decision THEN k.op ELSE decision
            /\ odd' = [active |-> IF k.op \in Decision THEN FALSE
                                  ELSE odd.active \/ (k.stale /\ k.copy.active),
                       payout |-> odd.payout \/ k.stale]
            /\ links' = IF k.op = "onboard" THEN links \cup {k.copy.acct} ELSE links
            /\ UNCHANGED faulted
         \/ /\ Fault /\ call' = Done(c)
            /\ UNCHANGED <<row, decision, odd, links>>
      /\ UNCHANGED <<provider, sent, listing, stay, cascade>>

-----------------------------------------------------------------------------
(* The cascade of a suspension: listings first, then confirmed bookings; an  *)
(* item that fails is noted and passed over.                                 *)

SuspendListings(c) ==
  /\ At(c, "suspend", "listings")
  /\ \/ /\ listing' = "suspended" /\ call' = Goes(c, "bookings")
        /\ UNCHANGED faulted
     \/ /\ Fault /\ UNCHANGED listing
        /\ call' = [call EXCEPT ![c].at = "bookings", ![c].failed = {"listing"}]
  /\ UNCHANGED <<row, provider, sent, stay, decision, cascade, odd, links>>

ListConfirmed(c) ==
  /\ At(c, "suspend", "bookings")
  /\ call' = [call EXCEPT ![c].at = IF stay = "confirmed" THEN "cancel" ELSE "summary",
                          ![c].seen = stay]
  /\ UNCHANGED <<row, provider, sent, listing, stay, decision, cascade, odd, links, faulted>>

\* The host's cancellation; a booking that has left confirmed is an error of the list.
CancelBooking(c) ==
  /\ At(c, "suspend", "cancel")
  /\ \/ /\ stay' = IF stay = "confirmed" THEN "cancelled" ELSE stay
        /\ call' = Goes(c, "summary") /\ UNCHANGED faulted
     \/ /\ Fault /\ UNCHANGED stay
        /\ call' = [call EXCEPT ![c].at = "summary", ![c].failed = @ \cup {"stay"}]
  /\ UNCHANGED <<row, provider, sent, listing, decision, cascade, odd, links>>

\* One audit row, whose own failure is ignored.
Summarise(c) ==
  /\ At(c, "suspend", "summary") /\ call' = Done(c)
  /\ cascade' = cascade \cup {[seen |-> call[c].seen, failed |-> call[c].failed]}
  /\ UNCHANGED <<row, provider, sent, listing, stay, decision, odd, links, faulted>>

\* Guests book what is published and cancel; nobody asks whether the host is active.
Book ==
  /\ stay = "none" /\ listing = "published" /\ stay' = "pending"
  /\ UNCHANGED <<row, provider, sent, listing, call, decision, cascade, odd, links, faulted>>
ConfirmBooking ==
  /\ stay = "pending" /\ stay' = "confirmed"
  /\ UNCHANGED <<row, provider, sent, listing, call, decision, cascade, odd, links, faulted>>
GuestCancels ==
  /\ stay \in {"pending", "confirmed"} /\ stay' = "cancelled"
  /\ UNCHANGED <<row, provider, sent, listing, call, decision, cascade, odd, links, faulted>>

-----------------------------------------------------------------------------
(* Payout onboarding.                                                        *)

StartOnboarding(c) ==
  Authenticated /\ row.role = "host" /\ row.acct = 0 /\ Load(c, "onboard", "create", row)

\* The account exists from here on, whether or not the row comes to say so.
CreateAccount(c, a) ==
  /\ At(c, "onboard", "create") /\ provider[a] = "none"
  /\ provider' = [provider EXCEPT ![a] = "off"]
  /\ call' = [call EXCEPT ![c].at = "write", ![c].copy = LinkPayoutAccount(@, a)]
  /\ UNCHANGED <<row, sent, listing, stay, decision, cascade, odd, links, faulted>>

RefreshAccountStatus(c) == Authenticated /\ row.acct # 0 /\ Load(c, "refresh", "ask", row)

\* The answer is written only when it differs from the copy.
GetAccount(c) ==
  LET on == provider[call[c].copy.acct] = "on"
  IN  /\ At(c, "refresh", "ask")
      /\ call' = IF on = call[c].copy.enabled THEN Done(c)
                 ELSE [call EXCEPT ![c].at = "write", ![c].copy = SetPayoutsEnabled(@, on)]
      /\ UNCHANGED <<row, provider, sent, listing, stay, decision, cascade, odd, links, faulted>>

\* The host completes the form behind a link, or the provider withdraws its leave.
ProviderChanges(a) ==
  /\ a \in links
  /\ LET ids == {e.id : e \in sent}
         on == provider[a] # "on"
     IN  \E n \in 1..MaxEvents :
           /\ \A i \in ids : i < n
           /\ provider' = [provider EXCEPT ![a] = IF on THEN "on" ELSE "off"]
           /\ sent' = sent \cup {[id |-> n, acct |-> a, on |-> on, answered |-> FALSE]}
  /\ UNCHANGED <<row, listing, stay, call, decision, cascade, odd, links, faulted>>

\* The handler looks the event up among those it has recorded.
Handle(c, e) ==
  /\ call[c].at = "idle" /\ ~e.answered
  /\ call' = [call EXCEPT ![c] = [Idle EXCEPT !.op = "webhook", !.at = "sync", !.event = e.id]]
  /\ UNCHANGED <<row, provider, sent, listing, stay, decision, cascade, odd, links, faulted>>

Event(c) == CHOOSE e \in sent : e.id = call[c].event

\* A later event of this account was here first.
Overtaken(e) == \E f \in sent : f.id > e.id /\ f.acct = e.acct

\* An account no row knows is none of ours; otherwise the flag of the event.
SyncAccountFromWebhook(c) ==
  LET e == Event(c)
      differs == row.acct = e.acct /\ row.enabled # e.on
      next == IF differs
              THEN [call EXCEPT ![c].at = "write", ![c].copy = SetPayoutsEnabled(row, e.on),
                                ![c].stale = FALSE]
              ELSE Goes(c, "record")
  IN  /\ At(c, "webhook", "sync") /\ call' = Outdates(c, next)
      /\ odd' = [odd EXCEPT !.payout = @ \/ Overtaken(e)]
      /\ UNCHANGED <<row, provider, sent, listing, stay, decision, cascade, links, faulted>>

\* Recorded once it has been applied: an error before is answered by a redelivery.
\* Fault: recorded as soon as it is seen.
Recordable_AtOnce(c) == call[c].at # "idle"
Recordable(c) == call[c].at = "record"

RecordEvent(c) ==
  /\ call[c].op = "webhook" /\ Recordable(c) /\ ~Event(c).answered
  /\ sent' = (sent \ {Event(c)}) \cup {[Event(c) EXCEPT !.answered = TRUE]}
  /\ call' = IF call[c].at = "record" THEN Done(c) ELSE call
  /\ UNCHANGED <<row, provider, listing, stay, decision, cascade, odd, links, faulted>>

\* Another delivery of the event has recorded it.
AlreadyRecorded(c) ==
  /\ At(c, "webhook", "record") /\ Event(c).answered /\ call' = Done(c)
  /\ UNCHANGED <<row, provider, sent, listing, stay, decision, cascade, odd, links, faulted>>

Next ==
  \/ Book \/ ConfirmBooking \/ GuestCancels
  \/ \E a \in Account : ProviderChanges(a)
  \/ \E c \in Call :
       \/ SyncFromIdentity(c) \/ UpdateProfile(c) \/ BecomeHost(c)
       \/ UpdateEmailPreferences(c) \/ UpdatePushPreferences(c)
       \/ Suspend(c) \/ Unsuspend(c) \/ Erase(c) \/ Update(c)
       \/ SuspendListings(c) \/ ListConfirmed(c) \/ CancelBooking(c) \/ Summarise(c)
       \/ StartOnboarding(c) \/ RefreshAccountStatus(c) \/ GetAccount(c)
       \/ SyncAccountFromWebhook(c) \/ RecordEvent(c) \/ AlreadyRecorded(c)
       \/ \E a \in Account : CreateAccount(c, a)
       \/ \E e \in sent : Handle(c, e)

-----------------------------------------------------------------------------
\* A suspended or erased account is inactive, unless a copy of the row from before
\* was written after it (user_repository.go:40, whole rows without a version).
ShutOut == decision \in {"suspend", "erase"} /\ row.active => odd.active

\* When the cascade is over, what it saw and could suspend or cancel is so, whatever
\* else failed (service.go:291-320, best effort).
CascadeSwept ==
  \A w \in cascade :
    /\ "listing" \notin w.failed => listing = "suspended"
    /\ w.seen = "none" => stay = "none" \/ "listing" \in w.failed
    /\ w.seen = "confirmed" /\ "stay" \notin w.failed => stay = "cancelled"

\* The row's payout flag is the provider's for the account it names while no event of
\* that account is unanswered, no old copy was written and no event overtook another.
FlagFollows ==
  row.acct # 0 /\ row.enabled # (provider[row.acct] = "on") =>
    \/ odd.payout
    \/ \E e \in sent : e.acct = row.acct /\ ~e.answered

\* The account is what its last events made it (ShutOut, CascadeSwept, FlagFollows).  A
\* suspended or erased account is inactive, unless an old copy of the row was written
\* after it (user_repository.go:40); what the cascade of a suspension saw and could
\* write is suspended and cancelled, whatever else failed (user/service.go:291-320); and
\* the payout flag is the provider's once its events are answered, unless an old copy
\* was written or an event overtook another (connect_webhook_handler.go).
AccountIsExplained == ShutOut /\ CascadeSwept /\ FlagFollows
=============================================================================
