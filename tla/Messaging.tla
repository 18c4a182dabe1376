------------------------------ MODULE Messaging ------------------------------
(***************************************************************************)
(* The thread between a guest and the host of a listing: messages, read    *)
(* markers, blocks between the two, and the host's reply templates.        *)
(*   application/message, messagetemplate and userblock, their domains,    *)
(*   postgres/message_repository.go, handler/message_handler.go            *)
(*                                                                         *)
(* A thread is loaded, changed and written back with both read markers and *)
(* the time of the last message; the message of a post commits with it.    *)
(* Messages and markers carry the time at which they were made, not the    *)
(* time at which they were written.                                        *)
(***************************************************************************)
EXTENDS Naturals

CONSTANTS Call, MaxFaults

VARIABLES
  conv,      \* the thread: time of the last message and the two read markers
  messages,  \* the messages table
  blocks,    \* which of the two has blocked the other
  team,      \* does a co-host hold reply_messages on the listing
  template,  \* a reply template of the host: none, in or deleted
  call,
  clock,
  shown,     \* history: the messages there when a side, or its team, marked the thread
  marked,    \* history: the latest mark of each side
  reverted,  \* history: sides whose marker an old copy has moved back
  faulted

messagingVars == <<conv, messages, blocks, team, template, call, clock, shown, marked, reverted, faulted>>

Party == {"host", "guest"}
NoThread == [last |-> 0, host |-> 0, guest |-> 0]
Idle == [at |-> "new", who |-> "none", copy |-> NoThread, now |-> 0]
Over == [Idle EXCEPT !.at = "over"]

Init ==
  /\ conv = NoThread /\ messages = {} /\ blocks = {} /\ team = TRUE /\ template = "none"
  /\ call = [c \in Call |-> Idle] /\ clock = 1
  /\ shown = [p \in Party |-> {}] /\ marked = [p \in Party |-> 0] /\ reverted = {}
  /\ faulted = 0

Fault == faulted < MaxFaults /\ faulted' = faulted + 1
At(c, at) == call[c].at = at
Started == conv # NoThread
SideOf(who) == IF who = "guest" THEN "guest" ELSE "host"
Goes(c, rec) == call' = [call EXCEPT ![c] = rec]

-----------------------------------------------------------------------------
(* Who may write to whom.                                                    *)

\* IsBlocked asks for a block in either direction.
IsBlocked == blocks # {}
NotBlocked == ~IsBlocked

Block(p) ==
  /\ p \notin blocks /\ blocks' = blocks \cup {p}
  /\ UNCHANGED <<conv, messages, team, template, call, clock, shown, marked, reverted, faulted>>

Unblock(p) ==
  /\ p \in blocks /\ blocks' = blocks \ {p}
  /\ UNCHANGED <<conv, messages, team, template, call, clock, shown, marked, reverted, faulted>>

\* The grant is given and revoked elsewhere (Listings).
SetTeam ==
  /\ team' = ~team
  /\ UNCHANGED <<conv, messages, blocks, template, call, clock, shown, marked, reverted, faulted>>

\* Guest and host by themselves, a co-host by the grant.
AuthorizeAction(who) == who \in Party \/ team

-----------------------------------------------------------------------------
(* The thread.                                                               *)

\* The look-up found none; one that exists is returned.
StartConversation(c) ==
  /\ At(c, "new") /\ NotBlocked /\ ~Started
  /\ Goes(c, [Idle EXCEPT !.at = "create"])
  /\ UNCHANGED <<conv, messages, blocks, team, template, clock, shown, marked, reverted, faulted>>

\* One thread for a listing and a guest; the second insert is a conflict.
CreateConversation(c) ==
  /\ At(c, "create") /\ Goes(c, Over)
  /\ conv' = IF Started THEN conv ELSE [NoThread EXCEPT !.last = clock]
  /\ clock' = IF Started THEN clock ELSE clock + 1
  /\ UNCHANGED <<messages, blocks, team, template, shown, marked, reverted, faulted>>

\* Load, authorise, and refuse blocked parties.
Open(c, who, at) ==
  /\ At(c, "new") /\ Started /\ AuthorizeAction(who) /\ NotBlocked
  /\ Goes(c, [Idle EXCEPT !.at = at, !.who = who, !.copy = conv])
  /\ UNCHANGED <<conv, messages, blocks, team, template, clock, shown, marked, reverted, faulted>>

SendMessage(c, who) == Open(c, who, "post")
SendAttachment(c, who) == Open(c, who, "upload")

\* The file is stored before its message is made.
Upload(c) ==
  /\ At(c, "upload") /\ Goes(c, [call[c] EXCEPT !.at = "post"])
  /\ UNCHANGED <<conv, messages, blocks, team, template, clock, shown, marked, reverted, faulted>>

\* A mark is made now, over what is in the table now.
Marks(p) ==
  /\ shown' = [shown EXCEPT ![p] = @ \cup messages]
  /\ marked' = [marked EXCEPT ![p] = clock]

\* A co-host's reply marks the thread for the host.
\* Fault: it does not.
OnBehalf_Unmarked(copy) == copy
OnBehalf(copy) == [copy EXCEPT !.host = clock]

Posted(copy) == [copy EXCEPT !.last = clock]
MarkReadBy(copy, p) == [copy EXCEPT ![p] = clock]

Post(c) ==
  LET posted == Posted(call[c].copy)
      cohost == call[c].who = "cohost"
  IN  /\ At(c, "post") /\ clock' = clock + 1
      /\ Goes(c, [call[c] EXCEPT !.at = "persist", !.now = clock,
                    !.copy = IF cohost THEN OnBehalf(posted) ELSE posted])
      /\ IF cohost THEN Marks("host") ELSE UNCHANGED <<shown, marked>>
      /\ UNCHANGED <<conv, messages, blocks, team, template, reverted, faulted>>

\* MarkRead has its own handler; the host's side for a co-host.
MarkRead(c, who) ==
  LET p == SideOf(who)
  IN  /\ At(c, "new") /\ Started /\ AuthorizeAction(who) /\ clock' = clock + 1
      /\ Goes(c, [Idle EXCEPT !.at = "mark", !.who = who,
                    !.copy = MarkReadBy(conv, p)])
      /\ Marks(p)
      /\ UNCHANGED <<conv, messages, blocks, team, template, reverted, faulted>>

\* UPDATE conversations: both markers, and the sides that this moves back.
UpdateConversation(c) ==
  /\ conv' = call[c].copy
  /\ reverted' = reverted \cup {p \in Party : call[c].copy[p] < conv[p]}

\* The message, the thread and the event for the other side, in one transaction.
AddMessage(m) == messages' = messages \cup {m}

Persist(c) ==
  LET m == [id |-> c, from |-> call[c].who, at |-> call[c].now]
  IN  /\ At(c, "persist") /\ Goes(c, Over)
      /\ \/ /\ AddMessage(m) /\ UpdateConversation(c)
            /\ shown' = [shown EXCEPT ![SideOf(m.from)] = @ \cup {m}]
            /\ UNCHANGED faulted
         \/ UNCHANGED <<messages, conv, shown, reverted>> /\ Fault
      /\ UNCHANGED <<blocks, team, template, clock, marked>>

WriteMark(c) ==
  /\ At(c, "mark") /\ Goes(c, Over)
  /\ \/ UpdateConversation(c) /\ UNCHANGED faulted
     \/ UNCHANGED <<conv, reverted>> /\ Fault
  /\ UNCHANGED <<messages, blocks, team, template, clock, shown, marked>>

\* What TotalUnread counts for a side: later than its marker, by another.
Unread(p) == {m \in messages : m.from # p /\ m.at > conv[p]}

-----------------------------------------------------------------------------
(* Reply templates.                                                          *)

CreateTemplate ==
  /\ template = "none" /\ template' = "in"
  /\ UNCHANGED <<conv, messages, blocks, team, call, clock, shown, marked, reverted, faulted>>

UpdateTemplate(c) ==
  /\ At(c, "new") /\ template = "in" /\ Goes(c, [Idle EXCEPT !.at = "template"])
  /\ UNCHANGED <<conv, messages, blocks, team, template, clock, shown, marked, reverted, faulted>>

\* UPDATE of the text; a row that is gone by now stays gone.
SaveTemplate(c) ==
  /\ At(c, "template") /\ Goes(c, Over)
  /\ UNCHANGED <<conv, messages, blocks, team, template, clock, shown, marked, reverted, faulted>>

DeleteTemplate ==
  /\ template = "in" /\ template' = "deleted"
  /\ UNCHANGED <<conv, messages, blocks, team, call, clock, shown, marked, reverted, faulted>>

Next ==
  \/ SetTeam \/ CreateTemplate \/ DeleteTemplate
  \/ \E p \in Party : Block(p) \/ Unblock(p)
  \/ \E c \in Call :
       \/ StartConversation(c) \/ CreateConversation(c) \/ Upload(c) \/ Post(c) \/ Persist(c)
       \/ WriteMark(c) \/ UpdateTemplate(c) \/ SaveTemplate(c)
       \/ \E who \in Party \cup {"cohost"} :
            SendMessage(c, who) \/ SendAttachment(c, who) \/ MarkRead(c, who)

-----------------------------------------------------------------------------
\* Unread counts are right, or there is a reason (message_repository.go:190-232).  A
\* message that no mark of its reader has covered counts as read only when it was
\* made before the reader's mark and written after it.  A message that a mark has
\* covered counts as unread only while that mark is being written, when writing it
\* failed, or after an old copy of the thread moved the marker back.
UnreadIsExplained ==
  \A p \in Party : \A m \in messages :
    m.from # p =>
      /\ m \notin Unread(p) /\ m \notin shown[p] => m.at < marked[p]
      /\ m \in Unread(p) /\ m \in shown[p] =>
           \/ p \in reverted \/ faulted > 0
           \/ \E c \in Call : call[c].at \in {"mark", "persist"} /\ call[c].copy[p] >= m.at
=============================================================================
