---------------------------- MODULE Notifications ----------------------------
(***************************************************************************)
(* What one domain event tells its users: the row of the inbox, the push   *)
(* to their devices, the mail and the live update of an open page.         *)
(*   application/notification, pushtoken, email and realtime,              *)
(*   infrastructure/push and realtime, cmd/api/main.go:472-480             *)
(*                                                                         *)
(* The subscribers of an event run one after the other in the order they   *)
(* were registered: inbox, mail, live update.  None reports an error, so a  *)
(* failure is never retried, and a redelivered event tells everyone again.  *)
(***************************************************************************)
EXTENDS Naturals

CONSTANTS Worker,    \* the deliveries of the event, by the request or the relay
          Kinds,     \* the events of the instance
          Device, Online,  \* users with a page open
          Buffer,    \* undelivered updates per page; 16 in the code
          MaxFaults

VARIABLES
  event,   \* its kind and who caused it
  opted,   \* users that take mail and push about bookings and messages
  rows,    \* notifications per user
  mails,   \* mails per user
  owner,   \* push_tokens: the user of each device
  screen,  \* history: pushes that devices showed, with their owner then
  moved,   \* history: devices that changed hands
  page,    \* per user online: open or not, updates buffered, rows shown, an update dropped
  task,
  faulted

notificationVars == <<event, opted, rows, mails, owner, screen, moved, page, task, faulted>>

User == {"guest", "host", "member"}   \* a member pays a share or helps as a co-host
Nobody == "none"

ToHost  == {"BookingRequested", "BookingModified", "OfferDeclined", "ExperienceBookingCreated"}
ToGuest == {"BookingConfirmed", "OfferCreated", "OfferWithdrawn", "KYCStepUpRequired",
            "ExperienceBookingConfirmed", "IdentityVerified", "PaymentCaptured", "PaymentRefunded"}
ToOther == {"BookingCancelled", "ExperienceBookingCancelled", "DisputeOpened", "MessageSent",
            "ReviewSubmitted"}
ToBoth  == {"BookingCompleted", "DisputeResolved"}
OfShare == {"SplitShareAuthorized", "SplitShareRefunded"}

Account == {"IdentityVerified", "CohostInvited", "KYCStepUpRequired", "DisputeOpened", "DisputeResolved"}

\* Who gets a row in the inbox.
InApp(e) ==
  CASE e.kind \in ToHost  -> {"host"}
    [] e.kind \in ToGuest -> {"guest"}
    [] e.kind \in ToOther -> IF e.by = "guest" THEN {"host"} ELSE {"guest"}
    [] e.kind \in ToBoth  -> {"guest", "host"}
    [] e.kind = "CohostInvited" -> {"member"}
    [] e.kind = "SplitPaymentCompleted" -> {"guest", "member"}
    [] e.kind \in OfShare -> {}

\* Who gets a mail: of a cancellation both sides, of a share its payer.
MailTo(e) ==
  CASE e.kind = "BookingCancelled" -> {"guest", "host"}
    [] e.kind \in OfShare -> {"member"}
    [] OTHER -> InApp(e)

\* Whose page is told to refetch: no one's after a payment or a request to verify.
PingTo(e) ==
  CASE e.kind \in {"PaymentCaptured", "PaymentRefunded", "KYCStepUpRequired"} -> {}
    [] e.kind \in OfShare -> {"member"}
    [] OTHER -> InApp(e)

OptedIn(u) == u \in opted \/ event.kind \in Account

\* These read the listing, or the booking and its split, before they tell anyone.
LooksUp == {"ReviewSubmitted", "SplitPaymentCompleted"}

Idle == [at |-> "new", todo |-> {}, devices |-> {}]

Init ==
  /\ event \in [kind : Kinds, by : {"guest", "host"}]
  /\ opted \in {{}, User}
  /\ rows = [u \in User |-> 0] /\ mails = [u \in User |-> 0]
  /\ owner = [d \in Device |-> Nobody] /\ screen = {} /\ moved = {}
  /\ page = [u \in Online |-> [open |-> FALSE, buffer |-> 0, shown |-> 0, dropped |-> FALSE]]
  /\ task = [w \in Worker |-> Idle] /\ faulted = 0

Fault == faulted < MaxFaults /\ faulted' = faulted + 1
At(w, at) == task[w].at = at
Goes(w, rec) == task' = [task EXCEPT ![w] = rec]
At3(at, todo) == [at |-> at, todo |-> todo, devices |-> {}]

\* The order in which main.go registers the subscribers.
\* Fault: the live update comes first.
Handlers_PingFirst == [first |-> "ping", ping |-> "row", row |-> "mail", mail |-> "over"]
Handlers == [first |-> "row", row |-> "mail", mail |-> "ping", ping |-> "over"]
Audience(handler) ==
  CASE handler = "row" -> InApp(event) [] handler = "mail" -> MailTo(event)
    [] handler = "ping" -> PingTo(event) [] handler = "over" -> {}
After(handler) == At3(Handlers[handler], Audience(Handlers[handler]))

\* The guest is told first, then the others.
Recipient(w) == IF "guest" \in task[w].todo THEN "guest" ELSE CHOOSE u \in task[w].todo : TRUE
Done(w) == At3(task[w].at, task[w].todo \ {Recipient(w)})

Deliver(w) ==
  /\ At(w, "new") /\ Goes(w, After("first"))
  /\ UNCHANGED <<event, opted, rows, mails, owner, screen, moved, page, faulted>>

\* A handler has told everyone, or its look-up failed and it tells no one.
NextHandler(w) ==
  /\ task[w].at \in {"row", "mail", "ping"} /\ Goes(w, After(task[w].at))
  /\ \/ task[w].todo = {} /\ UNCHANGED faulted
     \/ task[w].todo # {} /\ event.kind \in LooksUp /\ Fault
  /\ UNCHANGED <<event, opted, rows, mails, owner, screen, moved, page>>

-----------------------------------------------------------------------------
(* Inbox and push.                                                           *)

\* The row, or an error that is logged.
CreateRow(w) ==
  LET u == Recipient(w)
  IN  /\ At(w, "row") /\ task[w].todo # {}
      /\ \/ /\ rows' = [rows EXCEPT ![u] = @ + 1]
            /\ Goes(w, [task[w] EXCEPT !.at = "devices"]) /\ UNCHANGED faulted
         \/ Goes(w, Done(w)) /\ UNCHANGED rows /\ Fault
      /\ UNCHANGED <<event, opted, mails, owner, screen, moved, page>>

\* Push: the preferences and then the devices of the user.
ListDevices(w) ==
  LET u == Recipient(w)
  IN  /\ At(w, "devices")
      /\ Goes(w, [task[w] EXCEPT !.at = "push",
                    !.devices = IF OptedIn(u) THEN {d \in Device : owner[d] = u} ELSE {}])
      /\ UNCHANGED <<event, opted, rows, mails, owner, screen, moved, page, faulted>>

\* Each provider is asked; what it refuses for good is forgotten, whoever owns it now.
Push(w) ==
  LET u == Recipient(w)
  IN  /\ At(w, "push")
      /\ Goes(w, At3("row", task[w].todo \ {u}))
      /\ \E invalid \in SUBSET task[w].devices :
           /\ screen' = screen \cup {[device |-> d, to |-> u, owner |-> owner[d]] :
                                       d \in task[w].devices \ invalid}
           /\ owner' = [d \in Device |-> IF d \in invalid THEN Nobody ELSE owner[d]]
      /\ UNCHANGED <<event, opted, rows, mails, moved, page, faulted>>

\* One row for a device: who registers it takes it over.
Register(d, u) ==
  /\ owner[d] # u /\ owner' = [owner EXCEPT ![d] = u] /\ moved' = moved \cup {d}
  /\ UNCHANGED <<event, opted, rows, mails, screen, page, task, faulted>>

Unregister(d) ==
  /\ owner[d] # Nobody /\ owner' = [owner EXCEPT ![d] = Nobody] /\ moved' = moved \cup {d}
  /\ UNCHANGED <<event, opted, rows, mails, screen, page, task, faulted>>

-----------------------------------------------------------------------------
(* Mail and live updates.                                                    *)

SendMail(w) ==
  LET u == Recipient(w)
  IN  /\ At(w, "mail") /\ task[w].todo # {} /\ Goes(w, Done(w))
      /\ \/ mails' = [mails EXCEPT ![u] = @ + IF OptedIn(u) THEN 1 ELSE 0] /\ UNCHANGED faulted
         \/ UNCHANGED mails /\ Fault
      /\ UNCHANGED <<event, opted, rows, owner, screen, moved, page>>

\* An open page with a full buffer loses the update.
Publish(w) ==
  LET u == Recipient(w)
  IN  /\ At(w, "ping") /\ task[w].todo # {} /\ Goes(w, Done(w))
      /\ page' = [v \in Online |->
           IF v # u \/ ~page[v].open THEN page[v]
           ELSE IF page[v].buffer < Buffer THEN [page[v] EXCEPT !.buffer = @ + 1]
           ELSE [page[v] EXCEPT !.dropped = TRUE]]
      /\ UNCHANGED <<event, opted, rows, mails, owner, screen, moved, faulted>>

\* The page subscribes and then loads the inbox.
Subscribe(u) ==
  /\ ~page[u].open
  /\ page' = [page EXCEPT ![u] = [open |-> TRUE, buffer |-> 0, shown |-> rows[u], dropped |-> FALSE]]
  /\ UNCHANGED <<event, opted, rows, mails, owner, screen, moved, task, faulted>>

\* The stream writes an update; the page refetches.
Stream(u) ==
  /\ page[u].open /\ page[u].buffer > 0
  /\ page' = [page EXCEPT ![u].buffer = @ - 1, ![u].shown = rows[u]]
  /\ UNCHANGED <<event, opted, rows, mails, owner, screen, moved, task, faulted>>

Disconnect(u) ==
  /\ page[u].open /\ page' = [page EXCEPT ![u].open = FALSE, ![u].buffer = 0]
  /\ UNCHANGED <<event, opted, rows, mails, owner, screen, moved, task, faulted>>

Crash(w) ==
  /\ ~At(w, "new") /\ ~At(w, "over") /\ Goes(w, At3("over", {})) /\ Fault
  /\ UNCHANGED <<event, opted, rows, mails, owner, screen, moved, page>>

Next ==
  \/ \E w \in Worker : \/ Deliver(w) \/ NextHandler(w) \/ CreateRow(w) \/ ListDevices(w) \/ Push(w)
                       \/ SendMail(w) \/ Publish(w) \/ Crash(w)
  \/ \E d \in Device : Unregister(d) \/ \E u \in {"guest", "host"} : Register(d, u)
  \/ \E u \in Online : Subscribe(u) \/ Stream(u) \/ Disconnect(u)

-----------------------------------------------------------------------------
Resting == \A w \in Worker : task[w].at \in {"new", "over"}

\* Between deliveries an open page with nothing buffered shows all rows of its user,
\* unless its buffer was full, the event tells no page, or something failed: a row is
\* there before its update (cmd/api/main.go:472-480).  Each delivery makes a row for
\* everyone it is for, unless something failed, and a push is shown to someone else
\* only on a device that changed hands (pushtoken/service.go, application/realtime).
InboxIsExplained ==
  /\ Resting => \A u \in Online :
       page[u].open /\ page[u].buffer = 0 /\ page[u].shown # rows[u] =>
         page[u].dropped \/ u \notin PingTo(event) \/ faulted > 0
  /\ Resting /\ faulted = 0 => \A u \in InApp(event), w, v \in Worker :
       At(w, "over") => rows[u] >= 1 /\ (w # v /\ At(v, "over") => rows[u] >= 2)
  /\ \A s \in screen : s.owner \notin {s.to, Nobody} => s.device \in moved
=============================================================================
