--------------------------- MODULE CommunityProofs ---------------------------
(***************************************************************************)
(* What the components of Community guarantee, for any number of calls,      *)
(* rows and faults, in the way of TradeProofs.                               *)
(***************************************************************************)
EXTENDS Community, Integers, Sequences, FiniteSets, FiniteSetTheorems, SequenceTheorems,
        SumsProofs, TLAPS

-----------------------------------------------------------------------------
(* The scheduler's sweeps: Sweep. *)

SweepsAssumption == IsFiniteSet(Worker)

SweepTask == [at : {"idle", "check", "notify", "mail", "search", "alert", "mark"},
              todo : SUBSET Sale, found : SUBSET (Sale \cup Home), last : Nat]

SweepsType ==
  /\ task \in [Worker -> SweepTask]
  /\ notices \in [Sale -> Nat] /\ letters \in [Sale -> Nat] /\ alerts \in [Home -> Nat]
  /\ faulted \in Nat /\ clock \in Nat /\ overlap \in BOOLEAN
  /\ place \in [Home -> [created : Nat, published : BOOLEAN]]
  /\ search \in [on : BOOLEAN, since : Nat, last : Nat, gone : BOOLEAN]

\* Without an overlap one replica sweeps at a time.
Alone == \A r, q \in Worker : task[r].at # "idle" /\ task[q].at # "idle" => r = q \/ overlap

\* A notice is followed by its mail, by a replica that is about to send it, or by a
\* fault; and who is about to write one has found none.
Mailing(b) == {r \in Worker : task[r].at = "mail" /\ task[r].found = {b}}

ArrivalsInv ==
  \A b \in Sale :
    /\ letters[b] + Cardinality(Mailing(b)) <= notices[b]
    /\ faulted = 0 => letters[b] + Cardinality(Mailing(b)) = notices[b]
    /\ notices[b] > 1 => overlap
    /\ \A r \in Worker : task[r].at = "notify" /\ task[r].found = {b} => notices[b] = 0 \/ overlap

\* What a search has found is newer than the mark it started from, and what was in an
\* alert is older than the mark, or a replica is on the way to set it.
AlertsInv ==
  /\ search.last < clock
  /\ search.gone => ~search.on /\ search.last = 0
  /\ \A l \in Home :
       /\ place[l].created < clock
       /\ alerts[l] > 0 => place[l].created > 0
       /\ place[l].created \in search.since + 1 .. search.last => alerts[l] > 0 \/ l \in passed
       /\ \A r \in Worker :
            /\ task[r].at \in {"alert", "mark"} /\ l \in task[r].found => place[l].created > task[r].last
            /\ task[r].at = "mark" /\ l \in task[r].found => alerts[l] > 0
       /\ ~overlap /\ faulted = 0 =>
            /\ alerts[l] <= 1
            /\ alerts[l] = 1 =>
                 /\ \/ search.gone \/ place[l].created <= search.last
                    \/ \E r \in Worker : task[r].at = "mark" /\ l \in task[r].found
                 /\ \A r \in Worker : task[r].at \in {"search", "alert"} => place[l].created <= task[r].last

SweepsInv == SweepsType /\ Alone /\ ArrivalsInv /\ AlertsInv

LEMMA SweepsInit == SweepsAssumption /\ Sweep!Init => SweepsInv
<1> SUFFICES ASSUME Sweep!Init PROVE SweepsInv
  OBVIOUS
<1>1. Sweep!Idle \in SweepTask /\ Sweep!Idle.at = "idle"
  BY DEF Sweep!Idle, SweepTask
<1>2. SweepsType
  BY <1>1 DEF Sweep!Init, SweepsType, Sweep!NoSearch, Sweep!NoPlace
<1>3. \A r \in Worker : task[r].at = "idle"
  BY <1>1 DEF Sweep!Init
<1>4. ArrivalsInv
  <2>1. \A b \in Sale : Mailing(b) = {} /\ notices[b] = 0 /\ letters[b] = 0
    BY <1>3 DEF Mailing, Sweep!Init
  <2> QED BY <1>3, <2>1, FS_EmptySet DEF ArrivalsInv
<1>5. AlertsInv
  BY <1>3 DEF AlertsInv, Sweep!Init, Sweep!NoSearch, Sweep!NoPlace
<1> QED BY <1>2, <1>3, <1>4, <1>5 DEF SweepsInv, Alone

LEMMA MailingFinite ==
  ASSUME SweepsAssumption, NEW b \in Sale
  PROVE IsFiniteSet(Mailing(b)) /\ Cardinality(Mailing(b)) \in Nat
BY FS_Subset, FS_CardinalityType DEF Mailing, SweepsAssumption

\* Steps that write no notice and no mail, and steps that are not about alerts.
LEMMA ArrivalsKept ==
  ASSUME SweepsAssumption, SweepsType, ArrivalsInv, UNCHANGED <<notices, letters>>, overlap => overlap',
         faulted' = 0 => faulted = 0,
         \A b \in Sale : Mailing(b)' \subseteq Mailing(b),
         \A b \in Sale : faulted' = 0 => Mailing(b)' = Mailing(b),
         \A b \in Sale, r \in Worker :
           task'[r].at = "notify" /\ task'[r].found = {b} =>
             notices[b] = 0 \/ (task[r].at = "notify" /\ task[r].found = {b})
  PROVE ArrivalsInv'
<1> SUFFICES ASSUME NEW b \in Sale
             PROVE ( /\ letters[b] + Cardinality(Mailing(b)) <= notices[b]
                     /\ faulted = 0 => letters[b] + Cardinality(Mailing(b)) = notices[b]
                     /\ notices[b] > 1 => overlap
                     /\ \A r \in Worker :
                          task[r].at = "notify" /\ task[r].found = {b} => notices[b] = 0 \/ overlap )'
  BY DEF ArrivalsInv
<1>1. /\ letters[b] \in Nat /\ notices[b] \in Nat
      /\ letters[b] + Cardinality(Mailing(b)) <= notices[b]
      /\ faulted = 0 => letters[b] + Cardinality(Mailing(b)) = notices[b]
      /\ notices[b] > 1 => overlap
      /\ \A r \in Worker : task[r].at = "notify" /\ task[r].found = {b} => notices[b] = 0 \/ overlap
  BY DEF ArrivalsInv, SweepsType
<1>2. Cardinality(Mailing(b)) \in Nat /\ Cardinality(Mailing(b)') \in Nat
      /\ Cardinality(Mailing(b)') <= Cardinality(Mailing(b))
  <2>1. IsFiniteSet(Mailing(b))
    BY MailingFinite
  <2>2. Mailing(b)' \subseteq Mailing(b)
    OBVIOUS
  <2> QED BY <2>1, <2>2, FS_Subset, FS_CardinalityType
<1>3. faulted' = 0 => Mailing(b)' = Mailing(b)
  OBVIOUS
<1> QED BY <1>1, <1>2, <1>3

LEMMA AlertsKept ==
  ASSUME SweepsType, AlertsInv, UNCHANGED <<clock, place, search, alerts, passed>>, overlap => overlap',
         faulted' = 0 => faulted = 0,
         \A r \in Worker :
           /\ task'[r].at \in {"search", "alert", "mark"} =>
                task'[r].at = task[r].at /\ task'[r].found = task[r].found /\ task'[r].last = task[r].last
           /\ task[r].at = "mark" => task'[r].at = "mark" \/ faulted' # 0
  PROVE AlertsInv'
BY DEF AlertsInv

LEMMA SweepsTo ==
  ASSUME SweepsType, NEW r \in Worker, NEW rec \in SweepTask, Sweep!Goes(r, rec)
  PROVE /\ task' \in [Worker -> SweepTask] /\ task'[r] = rec
        /\ \A q \in Worker : q # r => task'[q] = task[q]
BY DEF SweepsType, Sweep!Goes

\* What the fields of a task become.
LEMMA SweepsTask ==
  ASSUME SweepsType, NEW r \in Worker
  PROVE  task[r] \in SweepTask
BY DEF SweepsType

LEMMA MailTask ==
  ASSUME SweepsType, NEW r \in Worker
  PROVE  /\ [task[r] EXCEPT !.at = "mail"] \in SweepTask
         /\ [task[r] EXCEPT !.at = "mail"].at = "mail"
         /\ [task[r] EXCEPT !.at = "mail"].found = task[r].found
<1>0. task[r] \in SweepTask
  BY SweepsTask
<1> QED BY <1>0 DEF SweepTask

LEMMA PassTask ==
  ASSUME SweepsType, NEW r \in Worker, NEW b \in Sale
  PROVE  /\ [task[r] EXCEPT !.todo = @ \ {b}] \in SweepTask
         /\ [task[r] EXCEPT !.todo = @ \ {b}].at = task[r].at
<1>0. task[r] \in SweepTask
  BY SweepsTask
<1> QED BY <1>0 DEF SweepTask

LEMMA NotifyTask ==
  ASSUME SweepsType, NEW r \in Worker, NEW b \in Sale
  PROVE  /\ [task[r] EXCEPT !.at = "notify", !.found = {b}] \in SweepTask
         /\ [task[r] EXCEPT !.at = "notify", !.found = {b}].at = "notify"
         /\ [task[r] EXCEPT !.at = "notify", !.found = {b}].found = {b}
<1>0. task[r] \in SweepTask
  BY SweepsTask
<1> DEFINE f == [task[r] EXCEPT !.at = "notify"]
           rec == [f EXCEPT !.found = {b}]
<1>1. f \in SweepTask /\ f.at = "notify"
  BY <1>0 DEF SweepTask
<1>2. rec = [task[r] EXCEPT !.at = "notify", !.found = {b}]
  OBVIOUS
<1> HIDE DEF f
<1>3. rec \in SweepTask /\ rec.at = "notify" /\ rec.found = {b}
  BY <1>1 DEF SweepTask
<1> HIDE DEF rec
<1> QED BY <1>2, <1>3

LEMMA NextTask ==
  ASSUME SweepsType, NEW r \in Worker, NEW b \in Sale
  PROVE  /\ [task[r] EXCEPT !.at = "check", !.found = {}, !.todo = @ \ {b}] \in SweepTask
         /\ [task[r] EXCEPT !.at = "check", !.found = {}, !.todo = @ \ {b}].at = "check"
<1>0. task[r] \in SweepTask
  BY SweepsTask
<1> DEFINE f == [task[r] EXCEPT !.at = "check"]
           g == [f EXCEPT !.found = {}]
           rec == [g EXCEPT !.todo = @ \ {b}]
<1>1. f \in SweepTask /\ f.at = "check" /\ f.todo = task[r].todo
  BY <1>0 DEF SweepTask
<1>2. rec = [task[r] EXCEPT !.at = "check", !.found = {}, !.todo = @ \ {b}]
  OBVIOUS
<1> HIDE DEF f
<1>3. g \in SweepTask /\ g.at = "check" /\ g.todo = task[r].todo
  BY <1>1 DEF SweepTask
<1> HIDE DEF g
<1>4. rec \in SweepTask /\ rec.at = "check"
  BY <1>3 DEF SweepTask
<1> HIDE DEF rec
<1> QED BY <1>2, <1>4

\* Who was already at work leaves the others as they are.
LEMMA AloneKept ==
  ASSUME Alone, NEW r \in Worker, task[r].at # "idle", overlap' = overlap,
         \A q \in Worker : q # r => task'[q] = task[q]
  PROVE Alone'
BY DEF Alone

\* A task of one replica that goes from one state to another without a notice or a mail.
LEMMA QuietTask ==
  ASSUME SweepsAssumption, SweepsType, ArrivalsInv, NEW r \in Worker,
         UNCHANGED <<notices, letters>>, overlap => overlap', faulted' = 0 => faulted = 0,
         \A q \in Worker : q # r => task'[q] = task[q],
         task'[r].at # "mail", task[r].at = "mail" => faulted' # 0,
         task'[r].at = "notify" => \A b \in Sale : task'[r].found = {b} => notices[b] = 0
  PROVE ArrivalsInv'
<1>1. \A b \in Sale : Mailing(b)' \subseteq Mailing(b)
  BY DEF Mailing
<1>2. \A b \in Sale : faulted' = 0 => Mailing(b)' = Mailing(b)
  BY DEF Mailing
<1>3. \A b \in Sale, q \in Worker :
        task'[q].at = "notify" /\ task'[q].found = {b} =>
          notices[b] = 0 \/ (task[q].at = "notify" /\ task[q].found = {b})
  OBVIOUS
<1> QED BY <1>1, <1>2, <1>3, ArrivalsKept

LEMMA FaultCounts == ASSUME SweepsType, Sweep!Fault PROVE faulted' \in Nat /\ faulted' # 0
BY DEF SweepsType, Sweep!Fault

LEMMA RunArrivalsStep ==
  ASSUME SweepsAssumption, SweepsInv, NEW r \in Worker, Sweep!RunArrivals(r) PROVE SweepsInv'
<1> DEFINE rec == [Sweep!Idle EXCEPT !.at = "check", !.todo = {b \in Sale : stay[b] = "near"}]
<1>1. rec \in SweepTask /\ rec.at = "check"
  BY DEF Sweep!Idle, SweepTask
<1>2. /\ Sweep!Goes(r, rec) /\ task[r].at = "idle" /\ overlap' \in BOOLEAN
      /\ overlap => overlap'
      /\ \A q \in Worker : q # r /\ task[q].at # "idle" => overlap'
  BY DEF Sweep!RunArrivals, Sweep!Starts, Sweep!At
<1>3. UNCHANGED <<notices, letters, clock, place, search, alerts, passed, faulted>>
  BY DEF Sweep!RunArrivals
<1>4. SweepsType /\ Alone /\ ArrivalsInv /\ AlertsInv
  BY DEF SweepsInv
<1> HIDE DEF rec
<1>5. /\ task' \in [Worker -> SweepTask] /\ task'[r] = rec
      /\ \A q \in Worker : q # r => task'[q] = task[q]
  BY <1>1, <1>2, <1>4, SweepsTo
<1>6. SweepsType'
  BY <1>2, <1>3, <1>4, <1>5 DEF SweepsType
<1>7. Alone'
  BY <1>2, <1>4, <1>5 DEF Alone
<1>8. ArrivalsInv'
  BY <1>1, <1>2, <1>3, <1>4, <1>5, QuietTask
<1>9. AlertsInv'
  BY <1>1, <1>2, <1>3, <1>4, <1>5, AlertsKept
<1> QED BY <1>6, <1>7, <1>8, <1>9 DEF SweepsInv

LEMMA CheckToldStep ==
  ASSUME SweepsAssumption, SweepsInv, NEW r \in Worker, NEW b \in Sale, Sweep!CheckTold(r, b)
  PROVE SweepsInv'
<1>1. SweepsType /\ Alone /\ ArrivalsInv /\ AlertsInv
  BY DEF SweepsInv
<1>2. /\ task[r].at = "check" /\ UNCHANGED <<notices, letters, clock, place, search, alerts, passed, overlap>>
      /\ faulted' \in Nat /\ (faulted' = 0 => faulted = 0)
  BY <1>1, FaultCounts DEF Sweep!CheckTold, Sweep!At, SweepsType
<1>3. PICK rec \in SweepTask :
        /\ Sweep!Goes(r, rec)
        /\ \/ rec.at = "check"
           \/ rec.at = "notify" /\ rec.found = {b} /\ ~Sweep!Told(b)
  <2>1. CASE Sweep!Goes(r, [task[r] EXCEPT !.todo = @ \ {b}])
    <3> DEFINE x == [task[r] EXCEPT !.todo = @ \ {b}]
    <3>1. x \in SweepTask /\ x.at = "check"
      BY <1>1, <1>2, PassTask, Zenon
    <3> HIDE DEF x
    <3> QED BY <2>1, <3>1, Zenon DEF x
  <2>2. CASE Sweep!Goes(r, [task[r] EXCEPT !.at = "notify", !.found = {b}]) /\ ~Sweep!Told(b)
    <3> DEFINE x == [task[r] EXCEPT !.at = "notify", !.found = {b}]
    <3>1. x \in SweepTask /\ x.at = "notify" /\ x.found = {b}
      BY <1>1, NotifyTask, Zenon
    <3>2. Sweep!Goes(r, x) /\ ~Sweep!Told(b)
      BY <2>2
    <3> HIDE DEF x
    <3> QED BY <3>1, <3>2
  <2> QED BY <2>1, <2>2 DEF Sweep!CheckTold
<1>4. /\ task' \in [Worker -> SweepTask] /\ task'[r] = rec
      /\ \A q \in Worker : q # r => task'[q] = task[q]
  BY <1>1, <1>3, SweepsTo
<1>5. SweepsType'
  BY <1>1, <1>2, <1>4 DEF SweepsType
<1>6. Alone'
  BY <1>1, <1>2, <1>4, AloneKept
<1>7. rec.at = "notify" => \A d \in Sale : rec.found = {d} => notices[d] = 0
  <2>1. ~Sweep!Told(b) => notices[b] = 0
    BY <1>1 DEF Sweep!Told, SweepsType
  <2>2. \A d \in Sale : {b} = {d} => d = b
    OBVIOUS
  <2> QED BY <1>3, <2>1, <2>2
<1>8. ArrivalsInv'
  BY <1>1, <1>2, <1>3, <1>4, <1>7, QuietTask
<1>9. AlertsInv'
  BY <1>1, <1>2, <1>3, <1>4, AlertsKept
<1> QED BY <1>5, <1>6, <1>8, <1>9 DEF SweepsInv

LEMMA NotifyArrivalStep ==
  ASSUME SweepsAssumption, SweepsInv, NEW r \in Worker, NEW b \in Sale, Sweep!NotifyArrival(r, b)
  PROVE SweepsInv'
<1>1. SweepsType /\ Alone /\ ArrivalsInv /\ AlertsInv
  BY DEF SweepsInv
<1>2. /\ task[r].at = "notify" /\ task[r].found = {b}
      /\ UNCHANGED <<letters, clock, place, search, alerts, passed, overlap>>
  BY DEF Sweep!NotifyArrival, Sweep!At
<1>3. CASE /\ notices' = [notices EXCEPT ![b] = @ + 1]
           /\ Sweep!Goes(r, [task[r] EXCEPT !.at = "mail"]) /\ UNCHANGED faulted
  <2>1. PICK rec \in SweepTask : Sweep!Goes(r, rec) /\ rec.at = "mail" /\ rec.found = {b}
    <3> DEFINE x == [task[r] EXCEPT !.at = "mail"]
    <3>1. x \in SweepTask /\ x.at = "mail" /\ x.found = {b}
      BY <1>1, <1>2, MailTask, Zenon
    <3>2. Sweep!Goes(r, x)
      BY <1>3
    <3> HIDE DEF x
    <3> QED BY <3>1, <3>2, Zenon
  <2>2. /\ task' \in [Worker -> SweepTask] /\ task'[r] = rec
        /\ \A q \in Worker : q # r => task'[q] = task[q]
    BY <1>1, <2>1, SweepsTo
  <2>3. /\ notices' \in [Sale -> Nat] /\ notices'[b] = notices[b] + 1
        /\ \A d \in Sale : d # b => notices'[d] = notices[d]
    BY <1>1, <1>3 DEF SweepsType
  <2>4. SweepsType'
    BY <1>1, <1>2, <1>3, <2>2, <2>3 DEF SweepsType
  <2>5. Alone'
    BY <1>1, <1>2, <2>2, AloneKept
  <2>6. AlertsInv'
    BY <1>1, <1>2, <1>3, <2>1, <2>2, AlertsKept
  <2>7. ASSUME NEW d \in Sale
        PROVE ( /\ letters[d] + Cardinality(Mailing(d)) <= notices[d]
                /\ faulted = 0 => letters[d] + Cardinality(Mailing(d)) = notices[d]
                /\ notices[d] > 1 => overlap
                /\ \A q \in Worker :
                     task[q].at = "notify" /\ task[q].found = {d} => notices[d] = 0 \/ overlap )'
    <3>1. /\ letters[d] \in Nat /\ notices[d] \in Nat
          /\ letters[d] + Cardinality(Mailing(d)) <= notices[d]
          /\ faulted = 0 => letters[d] + Cardinality(Mailing(d)) = notices[d]
          /\ notices[d] > 1 => overlap
          /\ \A q \in Worker : task[q].at = "notify" /\ task[q].found = {d} => notices[d] = 0 \/ overlap
          /\ IsFiniteSet(Mailing(d)) /\ Cardinality(Mailing(d)) \in Nat
      BY <1>1, MailingFinite DEF ArrivalsInv, SweepsType
    <3>2. CASE d # b
      <4>1. Mailing(d)' = Mailing(d)
        BY <3>2, <1>2, <2>1, <2>2 DEF Mailing
      <4> QED BY <3>1, <3>2, <4>1, <1>2, <1>3, <2>1, <2>2, <2>3
    <3>3. CASE d = b
      <4>1. Mailing(d)' = Mailing(d) \cup {r} /\ r \notin Mailing(d)
        BY <3>3, <1>2, <2>1, <2>2 DEF Mailing
      <4>2. Cardinality(Mailing(d)') = Cardinality(Mailing(d)) + 1
        BY <3>1, <4>1, FS_AddElement
      <4>3. \A q \in Worker : task'[q].at = "notify" => overlap
        BY <1>1, <1>2, <2>1, <2>2 DEF Alone
      <4> QED BY <3>1, <3>3, <4>2, <4>3, <1>2, <1>3, <2>3
    <3> QED BY <3>2, <3>3
  <2>8. ArrivalsInv'
    BY <2>7 DEF ArrivalsInv
  <2> QED BY <2>4, <2>5, <2>6, <2>8 DEF SweepsInv
<1>4. CASE /\ Sweep!Goes(r, [task[r] EXCEPT !.at = "check", !.found = {}, !.todo = @ \ {b}])
           /\ UNCHANGED notices /\ Sweep!Fault
  <2>1. PICK rec \in SweepTask : Sweep!Goes(r, rec) /\ rec.at = "check"
    <3> DEFINE x == [task[r] EXCEPT !.at = "check", !.found = {}, !.todo = @ \ {b}]
    <3>1. x \in SweepTask /\ x.at = "check"
      BY <1>1, <1>2, NextTask, Zenon
    <3>2. Sweep!Goes(r, x)
      BY <1>4
    <3> HIDE DEF x
    <3> QED BY <3>1, <3>2, Zenon
  <2>2. /\ task' \in [Worker -> SweepTask] /\ task'[r] = rec
        /\ \A q \in Worker : q # r => task'[q] = task[q]
    BY <1>1, <2>1, SweepsTo
  <2>3. faulted' \in Nat /\ faulted' # 0
    BY <1>1, <1>4, FaultCounts
  <2>4. SweepsType'
    BY <1>1, <1>2, <1>4, <2>2, <2>3 DEF SweepsType
  <2>5. Alone'
    BY <1>1, <1>2, <2>2, AloneKept
  <2>6. ArrivalsInv'
    BY <1>1, <1>2, <1>4, <2>1, <2>2, <2>3, QuietTask
  <2>7. AlertsInv'
    BY <1>1, <1>2, <2>1, <2>2, <2>3, AlertsKept
  <2> QED BY <2>4, <2>5, <2>6, <2>7 DEF SweepsInv
<1> QED BY <1>3, <1>4 DEF Sweep!NotifyArrival

LEMMA MailArrivalStep ==
  ASSUME SweepsAssumption, SweepsInv, NEW r \in Worker, NEW b \in Sale, Sweep!MailArrival(r, b)
  PROVE SweepsInv'
<1>1. SweepsType /\ Alone /\ ArrivalsInv /\ AlertsInv
  BY DEF SweepsInv
<1>2. /\ task[r].at = "mail" /\ task[r].found = {b}
      /\ UNCHANGED <<notices, clock, place, search, alerts, passed, overlap>>
      /\ Sweep!Goes(r, [task[r] EXCEPT !.at = "check", !.found = {}, !.todo = @ \ {b}])
  BY DEF Sweep!MailArrival, Sweep!At
<1>3. PICK rec \in SweepTask : Sweep!Goes(r, rec) /\ rec.at = "check"
  <2> DEFINE x == [task[r] EXCEPT !.at = "check", !.found = {}, !.todo = @ \ {b}]
  <2>1. x \in SweepTask /\ x.at = "check"
    BY <1>1, <1>2, NextTask, Zenon
  <2>2. Sweep!Goes(r, x)
    BY <1>2
  <2> HIDE DEF x
  <2> QED BY <2>1, <2>2
<1>4. /\ task' \in [Worker -> SweepTask] /\ task'[r] = rec
      /\ \A q \in Worker : q # r => task'[q] = task[q]
  BY <1>1, <1>3, SweepsTo
<1>5. /\ letters' \in [Sale -> Nat] /\ faulted' \in Nat
      /\ \A d \in Sale : d # b => letters'[d] = letters[d]
      /\ \/ letters'[b] = letters[b] + 1 /\ faulted' = faulted
         \/ letters'[b] = letters[b] /\ faulted' # 0
      /\ faulted' = 0 => faulted = 0
  <2>1. CASE letters' = [letters EXCEPT ![b] = @ + 1] /\ UNCHANGED faulted
    BY <1>1, <2>1 DEF SweepsType
  <2>2. CASE UNCHANGED letters /\ Sweep!Fault
    BY <1>1, <2>2, FaultCounts DEF SweepsType
  <2> QED BY <2>1, <2>2 DEF Sweep!MailArrival
<1>6. SweepsType'
  BY <1>1, <1>2, <1>4, <1>5 DEF SweepsType
<1>7. Alone'
  BY <1>1, <1>2, <1>4, AloneKept
<1>8. AlertsInv'
  BY <1>1, <1>2, <1>3, <1>4, <1>5, AlertsKept
<1>9. ASSUME NEW d \in Sale
      PROVE ( /\ letters[d] + Cardinality(Mailing(d)) <= notices[d]
              /\ faulted = 0 => letters[d] + Cardinality(Mailing(d)) = notices[d]
              /\ notices[d] > 1 => overlap
              /\ \A q \in Worker :
                   task[q].at = "notify" /\ task[q].found = {d} => notices[d] = 0 \/ overlap )'
  <2>1. /\ letters[d] \in Nat /\ notices[d] \in Nat /\ letters'[d] \in Nat
        /\ letters[d] + Cardinality(Mailing(d)) <= notices[d]
        /\ faulted = 0 => letters[d] + Cardinality(Mailing(d)) = notices[d]
        /\ notices[d] > 1 => overlap
        /\ \A q \in Worker : task[q].at = "notify" /\ task[q].found = {d} => notices[d] = 0 \/ overlap
        /\ IsFiniteSet(Mailing(d)) /\ Cardinality(Mailing(d)) \in Nat
    BY <1>1, <1>5, MailingFinite DEF ArrivalsInv, SweepsType
  <2>2. \A q \in Worker : task'[q].at = "notify" => task[q].at = "notify" /\ task'[q].found = task[q].found
    BY <1>3, <1>4
  <2>3. CASE d # b
    <3>1. Mailing(d)' = Mailing(d)
      BY <2>3, <1>2, <1>3, <1>4 DEF Mailing
    <3> QED BY <2>1, <2>2, <2>3, <3>1, <1>2, <1>5
  <2>4. CASE d = b
    <3>1. Mailing(d)' = Mailing(d) \ {r} /\ r \in Mailing(d)
      BY <2>4, <1>2, <1>3, <1>4 DEF Mailing
    <3>2. Cardinality(Mailing(d)') = Cardinality(Mailing(d)) - 1
      BY <2>1, <3>1, FS_RemoveElement
    <3> QED BY <2>1, <2>2, <2>4, <3>2, <1>2, <1>5
  <2> QED BY <2>3, <2>4
<1>10. ArrivalsInv'
  BY <1>9 DEF ArrivalsInv
<1> QED BY <1>6, <1>7, <1>8, <1>10 DEF SweepsInv

LEMMA RunAlertsStep ==
  ASSUME SweepsAssumption, SweepsInv, NEW r \in Worker, Sweep!RunAlerts(r) PROVE SweepsInv'
<1> DEFINE rec == [Sweep!Idle EXCEPT !.at = "search", !.last = search.last]
<1>1. SweepsType /\ Alone /\ ArrivalsInv /\ AlertsInv
  BY DEF SweepsInv
<1>2. rec \in SweepTask /\ rec.at = "search" /\ rec.last = search.last
  BY <1>1 DEF Sweep!Idle, SweepTask, SweepsType
<1>3. /\ Sweep!Goes(r, rec) /\ task[r].at = "idle" /\ overlap' \in BOOLEAN
      /\ overlap => overlap'
      /\ search.on
      /\ \A q \in Worker : q # r /\ task[q].at # "idle" => overlap'
  BY DEF Sweep!RunAlerts, Sweep!Starts, Sweep!At
<1>4. UNCHANGED <<notices, letters, clock, place, search, alerts, passed, faulted>>
  BY DEF Sweep!RunAlerts
<1> HIDE DEF rec
<1>5. /\ task' \in [Worker -> SweepTask] /\ task'[r] = rec
      /\ \A q \in Worker : q # r => task'[q] = task[q]
  BY <1>1, <1>2, <1>3, SweepsTo
<1>6. SweepsType'
  BY <1>1, <1>3, <1>4, <1>5 DEF SweepsType
<1>7. Alone'
  BY <1>1, <1>3, <1>5 DEF Alone
<1>8. ArrivalsInv'
  BY <1>1, <1>2, <1>3, <1>4, <1>5, QuietTask
<1>9. ASSUME NEW l \in Home, ~overlap', faulted' = 0
      PROVE ( /\ alerts[l] <= 1
              /\ alerts[l] = 1 =>
                   /\ \/ search.gone \/ place[l].created <= search.last
                      \/ \E q \in Worker : task[q].at = "mark" /\ l \in task[q].found
                   /\ \A q \in Worker : task[q].at \in {"search", "alert"} =>
                        place[l].created <= task[q].last )'
  <2>1. \A q \in Worker : q # r => task[q].at = "idle"
    BY <1>3, <1>9
  <2>2. /\ alerts[l] <= 1
        /\ alerts[l] = 1 => place[l].created <= search.last
    <3>1. \A q \in Worker : task[q].at = "idle"
      BY <1>3, <2>1
    <3>2. ~overlap /\ faulted = 0 /\ ~search.gone
      <4>1. faulted' = faulted /\ search.gone \in BOOLEAN /\ search.on \in BOOLEAN
        BY <1>1, <1>4 DEF SweepsType
      <4>2. ~search.gone
        <5>1. search.gone => ~search.on
          BY <1>1 DEF AlertsInv
        <5>2. search.on
          BY <1>3
        <5> QED BY <5>1, <5>2, Zenon
      <4> QED BY <4>1, <4>2, <1>3, <1>9
    <3> QED BY <1>1, <3>1, <3>2 DEF AlertsInv
  <2> QED BY <1>2, <1>4, <1>5, <2>1, <2>2
<1>10. AlertsInv'
  BY <1>1, <1>2, <1>4, <1>5, <1>9 DEF AlertsInv
<1> QED BY <1>6, <1>7, <1>8, <1>10 DEF SweepsInv

LEMMA SearchStep ==
  ASSUME SweepsAssumption, SweepsInv, NEW r \in Worker, Sweep!Search(r) PROVE SweepsInv'
<1> DEFINE new == {l \in Home : place[l].published /\ place[l].created > task[r].last}
           rec == IF new = {} THEN Sweep!Idle ELSE [task[r] EXCEPT !.at = "alert", !.found = new]
<1>1. SweepsType /\ Alone /\ ArrivalsInv /\ AlertsInv
  BY DEF SweepsInv
<1>2. /\ rec \in SweepTask
      /\ \/ rec.at = "idle"
         \/ rec.at = "alert" /\ rec.found = new /\ rec.last = task[r].last
  <2>1. task[r] \in SweepTask /\ new \subseteq Home
    BY <1>1 DEF SweepsType
  <2> HIDE DEF new
  <2> DEFINE f == [task[r] EXCEPT !.at = "alert"]
             g == [f EXCEPT !.found = new]
  <2>2. f \in SweepTask /\ f.at = "alert" /\ f.last = task[r].last
    BY <2>1 DEF SweepTask
  <2>3. g = [task[r] EXCEPT !.at = "alert", !.found = new]
    OBVIOUS
  <2> HIDE DEF f
  <2>4. g \in SweepTask /\ g.at = "alert" /\ g.found = new /\ g.last = task[r].last
    BY <2>1, <2>2 DEF SweepTask
  <2> HIDE DEF g
  <2>5. Sweep!Idle \in SweepTask /\ Sweep!Idle.at = "idle"
    BY DEF Sweep!Idle, SweepTask
  <2> QED BY <2>3, <2>4, <2>5
<1>3. /\ Sweep!Goes(r, rec) /\ task[r].at = "search"
      /\ UNCHANGED <<notices, letters, clock, place, search, alerts, passed, overlap, faulted>>
  BY DEF Sweep!Search, Sweep!At
<1>4. \A l \in new : place[l].created > task[r].last
  OBVIOUS
<1> HIDE DEF new, rec
<1>5. /\ task' \in [Worker -> SweepTask] /\ task'[r] = rec
      /\ \A q \in Worker : q # r => task'[q] = task[q]
  BY <1>1, <1>2, <1>3, SweepsTo
<1>6. SweepsType'
  BY <1>1, <1>3, <1>5 DEF SweepsType
<1>7. Alone'
  BY <1>1, <1>3, <1>5, AloneKept
<1>8. ArrivalsInv'
  BY <1>1, <1>2, <1>3, <1>5, QuietTask
<1>9. AlertsInv'
  BY <1>1, <1>2, <1>3, <1>4, <1>5 DEF AlertsInv
<1> QED BY <1>6, <1>7, <1>8, <1>9 DEF SweepsInv

LEMMA AlertStep ==
  ASSUME SweepsAssumption, SweepsInv, NEW r \in Worker, Sweep!Alert(r) PROVE SweepsInv'
<1>1. SweepsType /\ Alone /\ ArrivalsInv /\ AlertsInv
  BY DEF SweepsInv
<1>2. /\ task[r].at = "alert" /\ task[r] \in SweepTask
      /\ UNCHANGED <<notices, letters, clock, place, search, passed, overlap>>
  BY <1>1 DEF Sweep!Alert, Sweep!At, SweepsType
<1>3. CASE /\ Sweep!Goes(r, [task[r] EXCEPT !.at = "mark"]) /\ UNCHANGED faulted
           /\ alerts' = [l \in Home |-> alerts[l] + IF l \in task[r].found THEN 1 ELSE 0]
  <2> DEFINE rec == [task[r] EXCEPT !.at = "mark"]
  <2>1. rec \in SweepTask /\ rec.at = "mark" /\ rec.found = task[r].found /\ rec.last = task[r].last
    BY <1>2 DEF SweepTask
  <2>2. Sweep!Goes(r, rec)
    BY <1>3
  <2> HIDE DEF rec
  <2>3. /\ task' \in [Worker -> SweepTask] /\ task'[r] = rec
        /\ \A q \in Worker : q # r => task'[q] = task[q]
    BY <1>1, <2>1, <2>2, SweepsTo
  <2>4. /\ alerts' \in [Home -> Nat]
        /\ \A l \in Home : /\ l \in task[r].found => alerts'[l] = alerts[l] + 1
                           /\ l \notin task[r].found => alerts'[l] = alerts[l]
    BY <1>1, <1>3 DEF SweepsType
  <2>5. SweepsType'
    BY <1>1, <1>2, <1>3, <2>3, <2>4 DEF SweepsType
  <2>6. Alone'
    BY <1>1, <1>2, <2>3, AloneKept
  <2>7. ArrivalsInv'
    BY <1>1, <1>2, <1>3, <2>1, <2>3, QuietTask
  <2>8. ASSUME NEW l \in Home
        PROVE ( /\ place[l].created < clock
                /\ alerts[l] > 0 => place[l].created > 0
                /\ place[l].created \in search.since + 1 .. search.last => alerts[l] > 0 \/ l \in passed
                /\ \A q \in Worker :
                     /\ task[q].at \in {"alert", "mark"} /\ l \in task[q].found =>
                          place[l].created > task[q].last
                     /\ task[q].at = "mark" /\ l \in task[q].found => alerts[l] > 0 )'
    <3>1. /\ place[l].created \in Nat /\ alerts[l] \in Nat /\ task[r].last \in Nat
          /\ l \in task[r].found => place[l].created > task[r].last
          /\ alerts[l] > 0 => alerts'[l] > 0
      BY <1>1, <1>2, <2>4 DEF AlertsInv, SweepsType, SweepTask
    <3> QED BY <1>1, <1>2, <2>1, <2>3, <2>4, <3>1 DEF AlertsInv
  <2>9. ASSUME NEW l \in Home, ~overlap', faulted' = 0
        PROVE ( /\ alerts[l] <= 1
                /\ alerts[l] = 1 =>
                     /\ \/ search.gone \/ place[l].created <= search.last
                        \/ \E q \in Worker : task[q].at = "mark" /\ l \in task[q].found
                     /\ \A q \in Worker : task[q].at \in {"search", "alert"} =>
                          place[l].created <= task[q].last )'
    <3>1. \A q \in Worker : q # r => task[q].at = "idle"
      BY <1>1, <1>2, <2>9 DEF Alone
    <3>2. /\ alerts[l] \in Nat /\ alerts[l] <= 1 /\ task[r].last \in Nat /\ place[l].created \in Nat
          /\ alerts[l] = 1 => /\ search.gone \/ place[l].created <= search.last
                              /\ place[l].created <= task[r].last
      BY <1>1, <1>2, <1>3, <2>9, <3>1 DEF AlertsInv, SweepsType, SweepTask
    <3>3. \A q \in Worker : task'[q].at \notin {"search", "alert"}
      BY <2>1, <2>3, <3>1
    <3>4. CASE l \in task[r].found
      <4>1. place[l].created > task[r].last
        BY <1>1, <1>2, <3>4 DEF AlertsInv
      <4>2. alerts'[l] = 1
        BY <2>4, <3>2, <3>4, <4>1
      <4>3. task'[r].at = "mark" /\ l \in task'[r].found
        BY <2>1, <2>3, <3>4
      <4> QED BY <3>3, <4>2, <4>3
    <3>5. CASE l \notin task[r].found
      BY <1>2, <2>4, <3>2, <3>3, <3>5
    <3> QED BY <3>4, <3>5
  <2>10. AlertsInv'
    <3>1. (search.last < clock /\ (search.gone => ~search.on /\ search.last = 0))'
      BY <1>1, <1>2 DEF AlertsInv
    <3> QED BY <2>8, <2>9, <3>1 DEF AlertsInv
  <2> QED BY <2>5, <2>6, <2>7, <2>10 DEF SweepsInv
<1>4. CASE Sweep!Goes(r, Sweep!Idle) /\ UNCHANGED alerts /\ Sweep!Fault
  <2>1. Sweep!Idle \in SweepTask /\ Sweep!Idle.at = "idle"
    BY DEF Sweep!Idle, SweepTask
  <2>2. /\ task' \in [Worker -> SweepTask] /\ task'[r] = Sweep!Idle
        /\ \A q \in Worker : q # r => task'[q] = task[q]
    BY <1>1, <1>4, <2>1, SweepsTo
  <2>3. faulted' \in Nat /\ faulted' # 0
    BY <1>1, <1>4, FaultCounts
  <2>4. SweepsType'
    BY <1>1, <1>2, <1>4, <2>2, <2>3 DEF SweepsType
  <2>5. Alone'
    BY <1>1, <1>2, <2>2, AloneKept
  <2>6. ArrivalsInv'
    BY <1>1, <1>2, <2>1, <2>2, <2>3, QuietTask
  <2>7. AlertsInv'
    BY <1>1, <1>2, <1>4, <2>1, <2>2, <2>3, AlertsKept
  <2> QED BY <2>4, <2>5, <2>6, <2>7 DEF SweepsInv
<1> QED BY <1>3, <1>4 DEF Sweep!Alert, Sweep!AfterRefusal

LEMMA MarkNotifiedStep ==
  ASSUME SweepsAssumption, SweepsInv, NEW r \in Worker, Sweep!MarkNotified(r) PROVE SweepsInv'
<1>1. SweepsType /\ Alone /\ ArrivalsInv /\ AlertsInv
  BY DEF SweepsInv
<1>2. /\ task[r].at = "mark" /\ Sweep!Goes(r, Sweep!Idle)
      /\ UNCHANGED <<notices, letters, place, alerts, overlap>>
  BY DEF Sweep!MarkNotified, Sweep!At
<1>3. Sweep!Idle \in SweepTask /\ Sweep!Idle.at = "idle"
  BY DEF Sweep!Idle, SweepTask
<1>4. /\ task' \in [Worker -> SweepTask] /\ task'[r] = Sweep!Idle
      /\ \A q \in Worker : q # r => task'[q] = task[q]
  BY <1>1, <1>2, <1>3, SweepsTo
<1>5. Alone'
  BY <1>1, <1>2, <1>4, AloneKept
<1>6. CASE /\ search' = (IF search.gone THEN search ELSE [search EXCEPT !.last = clock])
           /\ Sweep!Stamp
           /\ passed' = passed \cup {l \in Home : place[l].created \in 1 .. clock /\ l \notin task[r].found}
           /\ UNCHANGED faulted
  <2>1. clock \in Nat /\ clock' = clock + 1
    BY <1>1, <1>6 DEF Sweep!Stamp, SweepsType
  <2>2. /\ search' \in [on : BOOLEAN, since : Nat, last : Nat, gone : BOOLEAN]
        /\ search.gone => search' = search
        /\ ~search.gone => search'.last = clock /\ search'.since = search.since /\ ~search'.gone
    BY <1>1, <1>6, <2>1 DEF SweepsType
  <2>3. SweepsType'
    BY <1>1, <1>2, <1>4, <1>6, <2>1, <2>2 DEF SweepsType
  <2>4. ArrivalsInv'
    BY <1>1, <1>2, <1>3, <1>4, <1>6, QuietTask
  <2>5. (search.last < clock /\ (search.gone => ~search.on /\ search.last = 0))'
    BY <1>1, <2>1, <2>2 DEF AlertsInv, SweepsType
  <2>6. ASSUME NEW l \in Home
        PROVE ( /\ place[l].created < clock
                /\ alerts[l] > 0 => place[l].created > 0
                /\ place[l].created \in search.since + 1 .. search.last => alerts[l] > 0 \/ l \in passed
                /\ \A q \in Worker :
                     /\ task[q].at \in {"alert", "mark"} /\ l \in task[q].found =>
                          place[l].created > task[q].last
                     /\ task[q].at = "mark" /\ l \in task[q].found => alerts[l] > 0 )'
    <3>1. place[l].created \in Nat /\ alerts[l] \in Nat /\ search.since \in Nat /\ search.last \in Nat
          /\ place[l].created < clock
      BY <1>1 DEF AlertsInv, SweepsType
    <3>2. l \in task[r].found => alerts[l] > 0
      BY <1>1, <1>2 DEF AlertsInv
    <3>3. search'.since = search.since
      BY <2>2
    <3>4. place[l].created \in search.since + 1 .. search'.last => alerts[l] > 0 \/ l \in passed'
      <4>1. CASE search.gone
        BY <4>1, <1>1, <1>6, <2>2 DEF AlertsInv
      <4>2. CASE ~search.gone /\ l \in task[r].found
        BY <4>2, <3>2
      <4>3. CASE ~search.gone /\ l \notin task[r].found
        <5>1. place[l].created > search.since => place[l].created \in 1 .. clock
          BY <2>1, <3>1
        <5> QED BY <4>3, <1>6, <3>1, <5>1
      <4> QED BY <4>1, <4>2, <4>3
    <3> QED BY <1>1, <1>2, <1>3, <1>4, <2>1, <3>1, <3>3, <3>4 DEF AlertsInv
  <2>7. ASSUME NEW l \in Home, ~overlap', faulted' = 0
        PROVE ( /\ alerts[l] <= 1
                /\ alerts[l] = 1 =>
                     /\ \/ search.gone \/ place[l].created <= search.last
                        \/ \E q \in Worker : task[q].at = "mark" /\ l \in task[q].found
                     /\ \A q \in Worker : task[q].at \in {"search", "alert"} =>
                          place[l].created <= task[q].last )'
    <3>1. place[l].created \in Nat /\ place[l].created < clock
      BY <1>1 DEF AlertsInv, SweepsType
    <3>2. /\ alerts[l] <= 1
          /\ alerts[l] = 1 => \A q \in Worker : task[q].at \in {"search", "alert"} =>
                                place[l].created <= task[q].last
      BY <1>1, <1>2, <1>6, <2>7 DEF AlertsInv
    <3> QED BY <1>2, <1>3, <1>4, <2>1, <2>2, <3>1, <3>2
  <2>8. AlertsInv'
    BY <2>5, <2>6, <2>7 DEF AlertsInv
  <2> QED BY <1>5, <2>3, <2>4, <2>8 DEF SweepsInv
<1>7. CASE UNCHANGED <<search, passed, clock>> /\ Sweep!Fault
  <2>1. faulted' \in Nat /\ faulted' # 0
    BY <1>1, <1>7, FaultCounts
  <2>2. SweepsType'
    BY <1>1, <1>2, <1>4, <1>7, <2>1 DEF SweepsType
  <2>3. ArrivalsInv'
    BY <1>1, <1>2, <1>3, <1>4, <2>1, QuietTask
  <2>4. AlertsInv'
    BY <1>1, <1>2, <1>3, <1>4, <1>7, <2>1, AlertsKept
  <2> QED BY <1>5, <2>2, <2>3, <2>4 DEF SweepsInv
<1> QED BY <1>6, <1>7 DEF Sweep!MarkNotified

\* A replica whose task ends without a notice, a mail or a mark.
LEMMA FinishRestartStep ==
  ASSUME SweepsAssumption, SweepsInv, NEW r \in Worker, Sweep!Finish(r) \/ Sweep!Restart(r)
  PROVE SweepsInv'
<1>1. SweepsType /\ Alone /\ ArrivalsInv /\ AlertsInv
  BY DEF SweepsInv
<1>2. /\ task[r].at # "idle" /\ Sweep!Goes(r, Sweep!Idle)
      /\ UNCHANGED <<notices, letters, clock, place, search, alerts, passed, overlap>>
      /\ \/ task[r].at = "check" /\ faulted' = faulted
         \/ faulted' \in Nat /\ faulted' # 0
  BY <1>1, FaultCounts DEF Sweep!Finish, Sweep!Restart, Sweep!At
<1>3. Sweep!Idle \in SweepTask /\ Sweep!Idle.at = "idle"
  BY DEF Sweep!Idle, SweepTask
<1>4. /\ task' \in [Worker -> SweepTask] /\ task'[r] = Sweep!Idle
      /\ \A q \in Worker : q # r => task'[q] = task[q]
  BY <1>1, <1>2, <1>3, SweepsTo
<1>5. SweepsType'
  BY <1>1, <1>2, <1>4 DEF SweepsType
<1>6. Alone'
  BY <1>1, <1>2, <1>4, AloneKept
<1>7. ArrivalsInv'
  BY <1>1, <1>2, <1>3, <1>4, QuietTask
<1>8. AlertsInv'
  BY <1>1, <1>2, <1>3, <1>4, AlertsKept
<1> QED BY <1>5, <1>6, <1>7, <1>8 DEF SweepsInv

\* What hosts and guests do in the meantime.
LEMMA ArrivalsApart ==
  ASSUME SweepsInv, UNCHANGED <<notices, letters, task, overlap, faulted>>
  PROVE Alone' /\ ArrivalsInv'
<1>1. \A b \in Sale : Mailing(b)' = Mailing(b)
  BY DEF Mailing
<1> QED BY <1>1 DEF SweepsInv, ArrivalsInv, Alone

LEMMA CreateListingStep ==
  ASSUME SweepsAssumption, SweepsInv, NEW l \in Home, Sweep!CreateListing(l) \/ Sweep!Publish(l)
  PROVE SweepsInv'
<1>1. SweepsType /\ Alone /\ ArrivalsInv /\ AlertsInv
  BY DEF SweepsInv
<1>2. UNCHANGED <<notices, letters, search, alerts, passed, task, overlap, faulted>>
  BY DEF Sweep!CreateListing, Sweep!Publish
<1>3. Alone' /\ ArrivalsInv'
  BY <1>2, ArrivalsApart
<1>4. /\ place' \in [Home -> [created : Nat, published : BOOLEAN]]
      /\ \A h \in Home : h # l => place'[h] = place[h]
      /\ clock' \in Nat /\ clock' >= clock
      /\ \/ place'[l].created = place[l].created
         \/ place[l].created = 0 /\ place'[l].created = clock /\ clock' = clock + 1
  <2>1. CASE Sweep!CreateListing(l)
    BY <2>1, <1>1 DEF Sweep!CreateListing, Sweep!Stamp, SweepsType
  <2>2. CASE Sweep!Publish(l)
    <3>1. /\ place' = [place EXCEPT ![l].published = TRUE] /\ clock' = clock
          /\ place \in [Home -> [created : Nat, published : BOOLEAN]] /\ clock \in Nat
      BY <2>2, <1>1 DEF Sweep!Publish, SweepsType
    <3>2. place'[l].created = place[l].created /\ \A h \in Home : h # l => place'[h] = place[h]
      BY <3>1
    <3>3. place' \in [Home -> [created : Nat, published : BOOLEAN]]
      BY <3>1
    <3> QED BY <3>1, <3>2, <3>3
  <2> QED BY <2>1, <2>2
<1>5. SweepsType'
  BY <1>1, <1>2, <1>4 DEF SweepsType
<1>6. (search.last < clock /\ (search.gone => ~search.on /\ search.last = 0))'
  BY <1>1, <1>2, <1>4 DEF AlertsInv, SweepsType
<1>7. \A h \in Home : place'[h].created < clock'
  BY <1>1, <1>4 DEF AlertsInv, SweepsType
<1>8. ASSUME NEW h \in Home
      PROVE ( /\ place[h].created < clock
              /\ alerts[h] > 0 => place[h].created > 0
              /\ place[h].created \in search.since + 1 .. search.last => alerts[h] > 0 \/ h \in passed
              /\ \A q \in Worker :
                   /\ task[q].at \in {"alert", "mark"} /\ h \in task[q].found =>
                        place[h].created > task[q].last
                   /\ task[q].at = "mark" /\ h \in task[q].found => alerts[h] > 0
              /\ ~overlap /\ faulted = 0 =>
                   /\ alerts[h] <= 1
                   /\ alerts[h] = 1 =>
                        /\ \/ search.gone \/ place[h].created <= search.last
                           \/ \E q \in Worker : task[q].at = "mark" /\ h \in task[q].found
                        /\ \A q \in Worker : task[q].at \in {"search", "alert"} =>
                             place[h].created <= task[q].last )'
  <2>1. place'[h].created < clock'
    BY <1>1, <1>4 DEF AlertsInv, SweepsType
  <2>2. CASE place'[h].created = place[h].created
    BY <2>1, <2>2, <1>1, <1>2 DEF AlertsInv
  <2>3. CASE place[h].created = 0 /\ place'[h].created = clock
    <3>1. /\ alerts[h] \in Nat /\ search.last < clock /\ search.last \in Nat /\ search.since \in Nat
          /\ clock \in Nat /\ ~(alerts[h] > 0)
          /\ \A q \in Worker : task[q].at \in {"alert", "mark"} => h \notin task[q].found
      <4>1. /\ alerts[h] \in Nat /\ search.last < clock /\ search.last \in Nat /\ search.since \in Nat
            /\ clock \in Nat
        BY <1>1 DEF AlertsInv, SweepsType
      <4>2. alerts[h] > 0 => 0 > 0
        BY <1>1, <2>3 DEF AlertsInv
      <4>3. ASSUME NEW q \in Worker, task[q].at \in {"alert", "mark"} PROVE h \notin task[q].found
        <5>1. task[q].last \in Nat
          BY <1>1 DEF SweepsType, SweepTask
        <5>2. h \in task[q].found => 0 > task[q].last
          BY <1>1, <2>3, <4>3 DEF AlertsInv
        <5> QED BY <5>1, <5>2
      <4> QED BY <4>1, <4>2, <4>3
    <3> QED BY <1>2, <2>1, <2>3, <3>1
  <2> QED BY <1>4, <2>2, <2>3
<1>9. AlertsInv'
  BY <1>6, <1>8 DEF AlertsInv
<1> QED BY <1>3, <1>5, <1>9 DEF SweepsInv

LEMMA SearchesStep ==
  ASSUME SweepsAssumption, SweepsInv, Sweep!SaveSearch \/ Sweep!SetAlerts \/ Sweep!DeleteSearch
  PROVE SweepsInv'
<1>1. SweepsType /\ Alone /\ ArrivalsInv /\ AlertsInv
  BY DEF SweepsInv
<1>2. UNCHANGED <<notices, letters, place, alerts, passed, task, overlap, faulted>>
  BY DEF Sweep!SaveSearch, Sweep!SetAlerts, Sweep!DeleteSearch
<1>3. Alone' /\ ArrivalsInv'
  BY <1>2, ArrivalsApart
<1>4. /\ search' \in [on : BOOLEAN, since : Nat, last : Nat, gone : BOOLEAN]
      /\ clock' \in Nat /\ clock' >= clock /\ search'.last < clock'
      /\ search'.gone => ~search'.on /\ search'.last = 0
      /\ \/ search'.gone /\ search'.last = 0
         \/ search'.last = clock /\ search'.since = clock
         \/ search'.last = search.last /\ search'.since = search.since /\ search'.gone = search.gone
  <2>1. CASE Sweep!SaveSearch
    BY <2>1, <1>1 DEF Sweep!SaveSearch, Sweep!Stamp, Sweep!NoSearch, SweepsType
  <2>2. CASE Sweep!SetAlerts
    <3>1. /\ search \in [on : BOOLEAN, since : Nat, last : Nat, gone : BOOLEAN] /\ clock' = clock
          /\ search.last > 0 /\ search' = [search EXCEPT !.on = ~@] /\ search.last < clock /\ clock \in Nat
          /\ search.gone => search.last = 0
      BY <2>2, <1>1 DEF Sweep!SetAlerts, SweepsType, AlertsInv
    <3>2. /\ search' \in [on : BOOLEAN, since : Nat, last : Nat, gone : BOOLEAN]
          /\ search'.since = search.since /\ search'.last = search.last /\ search'.gone = search.gone
      <4> DEFINE flip == ~search.on
      <4>1. flip \in BOOLEAN
        OBVIOUS
      <4>2. search' = [search EXCEPT !.on = flip]
        BY <3>1
      <4> HIDE DEF flip
      <4> QED BY <3>1, <4>1, <4>2
    <3>3. ~search.gone
      <4>1. search.last \in Nat
        BY <3>1
      <4> QED BY <3>1, <4>1
    <3> QED BY <3>1, <3>2, <3>3
  <2>3. CASE Sweep!DeleteSearch
    <3>1. /\ clock' = clock /\ clock \in Nat /\ search.last < clock /\ search.last \in Nat
          /\ search' = [Sweep!NoSearch EXCEPT !.gone = TRUE]
      BY <2>3, <1>1 DEF Sweep!DeleteSearch, SweepsType, AlertsInv
    <3>2. search' = [on |-> FALSE, since |-> 0, last |-> 0, gone |-> TRUE]
      BY <3>1 DEF Sweep!NoSearch
    <3>3. /\ search' \in [on : BOOLEAN, since : Nat, last : Nat, gone : BOOLEAN]
          /\ search'.last = 0 /\ search'.on = FALSE /\ search'.gone = TRUE
      BY <3>2
    <3>4. search'.last < clock' /\ clock' >= clock /\ clock' \in Nat
      BY <3>1, <3>3
    <3>5. ~search'.on /\ search'.gone
      BY <3>3, Zenon
    <3> QED BY <3>3, <3>4, <3>5, Zenon
  <2> QED BY <2>1, <2>2, <2>3
<1>5. SweepsType'
  BY <1>1, <1>2, <1>4 DEF SweepsType
<1>6. ASSUME NEW h \in Home
      PROVE ( /\ place[h].created < clock
              /\ alerts[h] > 0 => place[h].created > 0
              /\ place[h].created \in search.since + 1 .. search.last => alerts[h] > 0 \/ h \in passed
              /\ \A q \in Worker :
                   /\ task[q].at \in {"alert", "mark"} /\ h \in task[q].found =>
                        place[h].created > task[q].last
                   /\ task[q].at = "mark" /\ h \in task[q].found => alerts[h] > 0
              /\ ~overlap /\ faulted = 0 =>
                   /\ alerts[h] <= 1
                   /\ alerts[h] = 1 =>
                        /\ \/ search.gone \/ place[h].created <= search.last
                           \/ \E q \in Worker : task[q].at = "mark" /\ h \in task[q].found
                        /\ \A q \in Worker : task[q].at \in {"search", "alert"} =>
                             place[h].created <= task[q].last )'
  <2>1. /\ place[h].created \in Nat /\ clock \in Nat /\ place[h].created < clock
        /\ search' \in [on : BOOLEAN, since : Nat, last : Nat, gone : BOOLEAN]
    BY <1>1, <1>4 DEF AlertsInv, SweepsType
  <2>2. place'[h].created < clock'
    BY <2>1, <1>2, <1>4
  <2>3. place[h].created \in search'.since + 1 .. search'.last => alerts[h] > 0 \/ h \in passed
    BY <2>1, <1>1, <1>4 DEF AlertsInv
  <2>4. \/ search'.gone \/ place[h].created <= search'.last
        \/ ~search.gone /\ ~(place[h].created <= search.last)
           /\ search'.last = search.last /\ search'.gone = search.gone
    BY <2>1, <1>4
  <2> QED BY <2>2, <2>3, <2>4, <1>1, <1>2 DEF AlertsInv
<1>7. AlertsInv'
  BY <1>4, <1>6 DEF AlertsInv
<1> QED BY <1>3, <1>5, <1>7 DEF SweepsInv

LEMMA SweepsStep ==
  ASSUME SweepsAssumption, SweepsInv, [Sweep!Next]_(Sweep!sweepVars) PROVE SweepsInv'
<1>1. ASSUME NEW b \in Sale, NEW to \in {"confirmed", "near", "cancelled"}, Sweep!MoveBooking(b, to)
      PROVE SweepsInv'
  <2>1. UNCHANGED <<notices, letters, clock, place, search, alerts, passed, task, overlap, faulted>>
    BY <1>1 DEF Sweep!MoveBooking
  <2> QED BY <2>1, ArrivalsApart DEF SweepsInv, SweepsType, AlertsInv
<1>2. CASE UNCHANGED Sweep!sweepVars
  <2>1. UNCHANGED <<notices, letters, clock, place, search, alerts, passed, task, overlap, faulted>>
    BY <1>2 DEF Sweep!sweepVars
  <2> QED BY <2>1, ArrivalsApart DEF SweepsInv, SweepsType, AlertsInv
<1>3. CASE Sweep!Next
  <2>1. CASE Sweep!SaveSearch \/ Sweep!SetAlerts \/ Sweep!DeleteSearch
    BY <2>1, SearchesStep
  <2>2. CASE \E l \in Home : Sweep!CreateListing(l) \/ Sweep!Publish(l)
    BY <2>2, CreateListingStep
  <2>3. ASSUME NEW r \in Worker,
               \/ Sweep!RunArrivals(r) \/ Sweep!RunAlerts(r) \/ Sweep!Search(r) \/ Sweep!Alert(r)
               \/ Sweep!MarkNotified(r) \/ Sweep!Finish(r) \/ Sweep!Restart(r)
               \/ \E b \in Sale : Sweep!CheckTold(r, b) \/ Sweep!NotifyArrival(r, b) \/ Sweep!MailArrival(r, b)
        PROVE SweepsInv'
    BY <2>3, RunArrivalsStep, RunAlertsStep, SearchStep, AlertStep, MarkNotifiedStep, FinishRestartStep,
       CheckToldStep, NotifyArrivalStep, MailArrivalStep
  <2> QED BY <1>1, <1>3, <2>1, <2>2, <2>3 DEF Sweep!Next
<1> QED BY <1>2, <1>3

LEMMA SweepsMeans == ASSUME SweepsAssumption, SweepsInv PROVE Sweep!SweepsAreExplained
<1>1. SweepsType /\ ArrivalsInv /\ AlertsInv
  BY DEF SweepsInv
<1>2. ASSUME NEW b \in Sale
      PROVE /\ letters[b] <= notices[b]
            /\ notices[b] > 1 => overlap
            /\ notices[b] > letters[b] =>
                 faulted > 0 \/ \E r \in Worker : Sweep!At(r, "mail") /\ task[r].found = {b}
  <2>1. /\ letters[b] \in Nat /\ notices[b] \in Nat /\ faulted \in Nat
        /\ IsFiniteSet(Mailing(b)) /\ Cardinality(Mailing(b)) \in Nat
        /\ letters[b] + Cardinality(Mailing(b)) <= notices[b]
        /\ faulted = 0 => letters[b] + Cardinality(Mailing(b)) = notices[b]
        /\ notices[b] > 1 => overlap
    BY <1>1, MailingFinite DEF SweepsType, ArrivalsInv
  <2>2. Mailing(b) = {} => Cardinality(Mailing(b)) = 0
    BY FS_EmptySet
  <2>3. Mailing(b) # {} => \E r \in Worker : Sweep!At(r, "mail") /\ task[r].found = {b}
    BY DEF Mailing, Sweep!At
  <2> QED BY <2>1, <2>2, <2>3
<1>3. ASSUME NEW l \in Home
      PROVE /\ alerts[l] > 1 => overlap \/ faulted > 0
            /\ place[l].created \in search.since + 1 .. search.last => alerts[l] > 0 \/ l \in passed
  BY <1>1 DEF SweepsType, AlertsInv
<1> QED BY <1>2, <1>3 DEF Sweep!SweepsAreExplained

-----------------------------------------------------------------------------
(* Erasures. *)

Steps == 1 .. Len(Erasures!Swept)

LEMMA SweptTables ==
  /\ Len(Erasures!Swept) = 12
  /\ \A n \in Steps : Erasures!Swept[n] \in Erasures!ToSet(Erasures!Swept)
  /\ \A t \in Erasures!ToSet(Erasures!Swept) : \E n \in Steps : t = Erasures!Swept[n]
  /\ {"favorites", "split_payment_shares"} \subseteq Erasures!Table
  /\ Erasures!ToSet(Erasures!Swept) \subseteq Erasures!Table
BY DEF Erasures!Swept, Erasures!ToSet, Erasures!Table, Steps

\* Every step takes the user out of its own table.
LEMMA SwipeTakesOut ==
  ASSUME NEW d, NEW u, NEW t \in Erasures!ToSet(Erasures!Swept)
  PROVE Erasures!Swipe(t, d, u) = [d EXCEPT ![t] = @ \ {u}]
<1>1. t \in {"push_tokens", "saved_searches", "identity_verifications", "cohosts", "message_templates",
             "favorites", "notifications", "reviews", "disputes", "split_payment_shares",
             "house_rule_acceptances", "fraud_assessments"}
  BY DEF Erasures!ToSet, Erasures!Swept
<1>2. CASE t = "push_tokens"
  BY <1>2 DEF Erasures!Swipe, Erasures!DeletePushTokens
<1>3. CASE t = "saved_searches"
  BY <1>3 DEF Erasures!Swipe, Erasures!EraseSavedSearches
<1>4. CASE t = "identity_verifications"
  BY <1>4 DEF Erasures!Swipe, Erasures!EraseVerifications
<1>5. CASE t = "cohosts"
  BY <1>5 DEF Erasures!Swipe, Erasures!EraseCohostGrants
<1>6. CASE t = "message_templates"
  BY <1>6 DEF Erasures!Swipe, Erasures!EraseTemplates
<1>7. CASE t = "favorites"
  BY <1>7 DEF Erasures!Swipe, Erasures!RemoveFavorites
<1>8. CASE t = "notifications"
  BY <1>8 DEF Erasures!Swipe, Erasures!DeleteNotifications
<1>9. CASE t = "reviews"
  BY <1>9 DEF Erasures!Swipe, Erasures!AnonymizeReviews
<1>10. CASE t = "disputes"
  BY <1>10 DEF Erasures!Swipe, Erasures!AnonymizeDisputes
<1>11. CASE t = "split_payment_shares"
  BY <1>11 DEF Erasures!Swipe, Erasures!AnonymizeShares
<1>12. CASE t = "house_rule_acceptances"
  BY <1>12 DEF Erasures!Swipe, Erasures!AnonymizeAcceptances
<1>13. CASE t = "fraud_assessments"
  BY <1>13 DEF Erasures!Swipe, Erasures!AnonymizeAssessments
<1> QED BY <1>1, <1>2, <1>3, <1>4, <1>5, <1>6, <1>7, <1>8, <1>9, <1>10, <1>11, <1>12, <1>13

ErasureState == [step : Nat, failed : SUBSET Erasures!Table,
                 at : {"none", "sweep", "scrub", "record", "over"}]
Asked == [user : Person, table : {"favorites", "split_payment_shares"}]

ErasureType ==
  /\ data \in [Erasures!Table -> SUBSET Person] /\ faulted \in Nat
  /\ erasure \in [Person -> ErasureState]
  /\ request \in [Admitted -> Asked \cup {Erasures!Nobody}]

\* How far an erasure is, and that nobody else's data is gone.
Progress(u) ==
  /\ u \in active <=> erasure[u].at = "none"
  /\ erasure[u].at = "none" => erasure[u].step = 0 /\ erasure[u].failed = {}
  /\ erasure[u].at = "sweep" => erasure[u].step < Len(Erasures!Swept)
  /\ erasure[u].at \in {"scrub", "record", "over"} => erasure[u].step = Len(Erasures!Swept)
  /\ u \in active => \A t \in Erasures!Table : u \in data[t]

\* The tables behind the sweep are clean, or it is known why not; and the row is there.
Clean(u) ==
  /\ \A n \in Steps : n <= erasure[u].step /\ u \in data[Erasures!Swept[n]] =>
       Erasures!Swept[n] \in erasure[u].failed \/ <<u, Erasures!Swept[n]>> \in late
  /\ erasure[u].failed # {} =>
       \/ faulted > 0
       \/ erasure[u].failed = {"split_payment_shares"} /\ \E v \in Person \ {u} : v \notin active
  /\ erasure[u].at = "over" =>
       \/ faulted > 0
       \/ \E e \in trail : e.user = u /\ e.names /\ (e.status = "ok" <=> erasure[u].failed = {})

ErasureInv == ErasureType /\ \A u \in Person : Progress(u) /\ Clean(u)

LEMMA ErasureInit == Erasures!Init => ErasureInv
<1> SUFFICES ASSUME Erasures!Init PROVE ErasureInv
  OBVIOUS
<1>1. ErasureType
  BY DEF Erasures!Init, ErasureType, ErasureState, Erasures!NotAsked
<1>2. \A u \in Person : erasure[u].at = "none" /\ erasure[u].step = 0 /\ erasure[u].failed = {}
  BY DEF Erasures!Init, Erasures!NotAsked
<1>3. \A u \in Person : Progress(u) /\ Clean(u)
  BY <1>2 DEF Erasures!Init, Progress, Clean, Steps
<1> QED BY <1>1, <1>3 DEF ErasureInv

LEMMA ErasureAnonymizeUser ==
  ASSUME ErasureInv, NEW u \in Person, Erasures!AnonymizeUser(u) PROVE ErasureInv'
<1>1. UNCHANGED <<data, trail, request, late>> /\ u \in active /\ erasure[u].at = "none"
  BY DEF Erasures!AnonymizeUser
<1>2. CASE active' = active \ {u} /\ UNCHANGED faulted /\ erasure' = [erasure EXCEPT ![u].at = "sweep"]
  <2>1. /\ erasure' \in [Person -> ErasureState]
        /\ erasure'[u].at = "sweep" /\ erasure'[u].step = 0 /\ erasure'[u].failed = {}
        /\ \A v \in Person : v # u => erasure'[v] = erasure[v]
    <3>1. erasure \in [Person -> ErasureState] /\ erasure[u].step = 0 /\ erasure[u].failed = {}
      BY <1>1 DEF ErasureInv, ErasureType, Progress
    <3> QED BY <3>1, <1>2 DEF ErasureState
  <2>2. ErasureType'
    BY <1>1, <1>2, <2>1 DEF ErasureInv, ErasureType
  <2>3. ASSUME NEW v \in Person PROVE (Progress(v) /\ Clean(v))'
    <3>1. CASE v = u
      BY <3>1, <1>1, <1>2, <2>1, SweptTables DEF Progress, Clean, Steps
    <3>2. CASE v # u
      BY <3>2, <1>1, <1>2, <2>1 DEF ErasureInv, Progress, Clean
    <3> QED BY <3>1, <3>2
  <2> QED BY <2>2, <2>3 DEF ErasureInv
<1>3. CASE UNCHANGED <<active, erasure>> /\ Erasures!Fault
  BY <1>1, <1>3 DEF Erasures!Fault, ErasureInv, ErasureType, Progress, Clean
<1> QED BY <1>2, <1>3 DEF Erasures!AnonymizeUser

LEMMA ErasureSweep ==
  ASSUME ErasureInv, NEW u \in Person, Erasures!Sweep(u) PROVE ErasureInv'
<1> DEFINE n == erasure[u].step + 1
           t == Erasures!Swept[n]
<1>0. erasure[u].at = "sweep" /\ UNCHANGED <<active, trail, request, late>>
  BY DEF Erasures!Sweep
<1>1. /\ n \in Steps /\ t \in Erasures!ToSet(Erasures!Swept) /\ t \in Erasures!Table
      /\ erasure[u] \in ErasureState /\ n \in Nat /\ erasure[u].step \in Nat /\ u \notin active
      /\ \A m \in Steps : m <= n <=> m <= erasure[u].step \/ m = n
  <2>1. erasure[u] \in ErasureState /\ erasure[u].step < Len(Erasures!Swept) /\ u \notin active
    BY <1>0 DEF ErasureInv, ErasureType, Progress
  <2>2. erasure[u].step \in Nat
    BY <2>1 DEF ErasureState
  <2>3. n \in Steps /\ n \in Nat
    BY <2>1, <2>2, SweptTables DEF Steps
  <2> QED BY <2>1, <2>2, <2>3, SweptTables DEF Steps
<1>2. PICK at, failed :
        /\ erasure' = [erasure EXCEPT ![u] = [step |-> n, failed |-> failed, at |-> at]]
        /\ at = Erasures!AfterStep(n, TRUE) \/ at = Erasures!AfterStep(n, FALSE)
        /\ \/ /\ failed = erasure[u].failed /\ faulted' = faulted
              /\ data' = Erasures!Swipe(t, data, u)
           \/ /\ failed = erasure[u].failed \cup {t} /\ data' = data
              /\ IF Erasures!Collides(t, u) THEN UNCHANGED faulted ELSE Erasures!Fault
  BY DEF Erasures!Sweep
<1>3. /\ at = IF n = Len(Erasures!Swept) THEN "scrub" ELSE "sweep"
  BY <1>2 DEF Erasures!AfterStep
<1>4. /\ faulted' \in Nat /\ (faulted > 0 => faulted' > 0)
      /\ failed # erasure[u].failed => faulted' > 0 \/ Erasures!Collides(t, u)
  BY <1>2 DEF Erasures!Fault, ErasureInv, ErasureType
<1>5. /\ data' \in [Erasures!Table -> SUBSET Person]
      /\ failed # erasure[u].failed => t \in failed
      /\ erasure[u].failed \subseteq failed /\ failed \subseteq erasure[u].failed \cup {t}
      /\ \A x \in Erasures!Table, v \in Person : v \in data'[x] => v \in data[x]
      /\ \A x \in Erasures!Table, v \in Person : v # u /\ v \in data[x] => v \in data'[x]
      /\ t \in failed \/ u \notin data'[t]
  <2>1. data \in [Erasures!Table -> SUBSET Person]
    BY DEF ErasureInv, ErasureType
  <2>2. CASE failed = erasure[u].failed /\ data' = Erasures!Swipe(t, data, u)
    <3>1. data' = [data EXCEPT ![t] = @ \ {u}]
      BY <2>2, <1>1, SwipeTakesOut
    <3> HIDE DEF t
    <3> QED BY <3>1, <2>1, <2>2, <1>1
  <2>3. CASE failed = erasure[u].failed \cup {t} /\ data' = data
    <3> HIDE DEF t
    <3> QED BY <2>1, <2>3
  <2> QED BY <1>2, <2>2, <2>3
<1> HIDE DEF t
<1>6. /\ erasure' \in [Person -> ErasureState]
      /\ erasure'[u].step = n /\ erasure'[u].failed = failed /\ erasure'[u].at = at
      /\ \A v \in Person : v # u => erasure'[v] = erasure[v]
  <2> DEFINE e == [step |-> n, failed |-> failed, at |-> at]
  <2>1. erasure \in [Person -> ErasureState] /\ erasure' = [erasure EXCEPT ![u] = e]
    BY <1>2 DEF ErasureInv, ErasureType
  <2>2. e \in ErasureState
    BY <1>1, <1>3, <1>5 DEF ErasureState
  <2>3. e.step = n /\ e.failed = failed /\ e.at = at
    OBVIOUS
  <2> HIDE DEF e
  <2> QED BY <2>1, <2>2, <2>3
<1>7. ErasureType'
  BY <1>0, <1>4, <1>5, <1>6 DEF ErasureInv, ErasureType
<1>8. ASSUME NEW v \in Person PROVE (Progress(v) /\ Clean(v))'
  <2>1. CASE v = u
    <3>1. Progress(v)'
      BY <2>1, <1>0, <1>1, <1>3, <1>6, SweptTables DEF Progress, Steps
    <3>2. ASSUME NEW m \in Steps, m <= erasure'[u].step, u \in data'[Erasures!Swept[m]]
          PROVE Erasures!Swept[m] \in failed \/ <<u, Erasures!Swept[m]>> \in late
      <4>1. CASE m = n
        BY <4>1, <3>2, <1>1, <1>5 DEF t
      <4>2. CASE m # n
        <5>1. m <= erasure[u].step
          BY <4>2, <3>2, <1>1, <1>6
        <5>2. u \in data[Erasures!Swept[m]]
          BY <3>2, <1>5, SweptTables
        <5> QED BY <5>1, <5>2, <1>5 DEF ErasureInv, Clean
      <4> QED BY <4>1, <4>2
    <3>3. failed # {} =>
            \/ faulted' > 0
            \/ failed = {"split_payment_shares"} /\ \E x \in Person \ {u} : x \notin active'
      <4>1. erasure[u].failed # {} =>
              \/ faulted > 0
              \/ erasure[u].failed = {"split_payment_shares"} /\ \E x \in Person \ {u} : x \notin active
        BY DEF ErasureInv, Clean
      <4>2. CASE failed = erasure[u].failed
        BY <4>1, <4>2, <1>0, <1>4
      <4>3. CASE failed # erasure[u].failed /\ Erasures!Collides(t, u)
        <5>1. t = "split_payment_shares" /\ \E x \in Person \ {u} : x \notin data[t]
          BY <4>3 DEF Erasures!Collides
        <5>2. \E x \in Person \ {u} : x \notin active
          BY <5>1, <1>1 DEF ErasureInv, Progress
        <5> QED BY <4>1, <4>3, <5>1, <5>2, <1>0, <1>4, <1>5
      <4> QED BY <4>2, <4>3, <1>4
    <3> QED BY <2>1, <3>1, <3>2, <3>3, <1>0, <1>3, <1>6 DEF Clean
  <2>2. CASE v # u
    <3>1. Progress(v)'
      BY <2>2, <1>0, <1>5, <1>6 DEF ErasureInv, Progress
    <3>2. Clean(v)'
      <4>1. Clean(v)
        BY DEF ErasureInv
      <4>2. \A m \in Steps : v \in data'[Erasures!Swept[m]] => v \in data[Erasures!Swept[m]]
        BY <1>5, SweptTables
      <4> QED BY <4>1, <4>2, <2>2, <1>0, <1>4, <1>6 DEF Clean
    <3> QED BY <3>1, <3>2
  <2> QED BY <2>1, <2>2
<1> QED BY <1>7, <1>8 DEF ErasureInv

LEMMA ErasureAnonymizeTrail ==
  ASSUME ErasureInv, NEW u \in Person, Erasures!AnonymizeTrail(u) PROVE ErasureInv'
<1>1. /\ erasure[u].at = "scrub" /\ erasure' = [erasure EXCEPT ![u].at = "record"]
      /\ trail' = {IF e.user = u THEN [e EXCEPT !.names = FALSE] ELSE e : e \in trail}
      /\ UNCHANGED <<data, active, request, late, faulted>>
  BY DEF Erasures!AnonymizeTrail
<1>2. /\ erasure' \in [Person -> ErasureState] /\ erasure'[u].at = "record"
      /\ erasure'[u].step = erasure[u].step /\ erasure'[u].failed = erasure[u].failed
      /\ \A v \in Person : v # u => erasure'[v] = erasure[v]
  <2>1. erasure \in [Person -> ErasureState]
    BY DEF ErasureInv, ErasureType
  <2> QED BY <2>1, <1>1 DEF ErasureState
<1>3. \A e \in trail : e.user # u => e \in trail'
  BY <1>1
<1>4. ErasureType'
  BY <1>1, <1>2 DEF ErasureInv, ErasureType
<1>5. ASSUME NEW v \in Person PROVE (Progress(v) /\ Clean(v))'
  <2>1. Progress(v) /\ Clean(v)
    BY DEF ErasureInv
  <2>2. CASE v = u
    BY <2>1, <2>2, <1>1, <1>2 DEF Progress, Clean
  <2>3. CASE v # u
    BY <2>1, <2>3, <1>1, <1>2, <1>3 DEF Progress, Clean
  <2> QED BY <2>2, <2>3
<1> QED BY <1>4, <1>5 DEF ErasureInv

LEMMA ErasureRecord ==
  ASSUME ErasureInv, NEW u \in Person, Erasures!RecordErasure(u) PROVE ErasureInv'
<1> DEFINE entry == [user |-> u, names |-> TRUE,
                     status |-> IF erasure[u].failed = {} THEN "ok" ELSE "partial"]
<1>1. /\ erasure[u].at = "record" /\ erasure' = [erasure EXCEPT ![u].at = "over"]
      /\ UNCHANGED <<data, active, request, late>>
      /\ \/ trail' = trail \cup {entry} /\ faulted' = faulted
         \/ trail' = trail /\ Erasures!Fault
  BY DEF Erasures!RecordErasure
<1>2. entry.user = u /\ entry.names /\ (entry.status = "ok" <=> erasure[u].failed = {})
  OBVIOUS
<1> HIDE DEF entry
<1>3. /\ erasure' \in [Person -> ErasureState] /\ erasure'[u].at = "over"
      /\ erasure'[u].step = erasure[u].step /\ erasure'[u].failed = erasure[u].failed
      /\ \A v \in Person : v # u => erasure'[v] = erasure[v]
  <2>1. erasure \in [Person -> ErasureState]
    BY DEF ErasureInv, ErasureType
  <2> QED BY <2>1, <1>1 DEF ErasureState
<1>4. faulted' \in Nat /\ (faulted > 0 => faulted' > 0) /\ trail \subseteq trail'
      /\ (faulted' > 0 \/ entry \in trail')
  BY <1>1 DEF ErasureInv, ErasureType, Erasures!Fault
<1>5. ErasureType'
  BY <1>1, <1>3, <1>4 DEF ErasureInv, ErasureType
<1>6. ASSUME NEW v \in Person PROVE (Progress(v) /\ Clean(v))'
  <2>1. Progress(v) /\ Clean(v)
    BY DEF ErasureInv
  <2>2. CASE v = u
    BY <2>1, <2>2, <1>1, <1>2, <1>3, <1>4 DEF Progress, Clean
  <2>3. CASE v # u
    BY <2>1, <2>3, <1>1, <1>3, <1>4 DEF Progress, Clean
  <2> QED BY <2>2, <2>3
<1> QED BY <1>5, <1>6 DEF ErasureInv

LEMMA ErasureWrite ==
  ASSUME ErasureInv, NEW r \in Admitted, Erasures!Write(r) PROVE ErasureInv'
<1> DEFINE u == request[r].user
           t == request[r].table
<1>1. /\ request[r] # Erasures!Nobody /\ data' = [data EXCEPT ![t] = @ \cup {u}]
      /\ late' = IF u \in active THEN late ELSE late \cup {<<u, t>>}
      /\ request' = [request EXCEPT ![r] = Erasures!Nobody]
      /\ UNCHANGED <<active, erasure, trail, faulted>>
  BY DEF Erasures!Write
<1>2. request \in [Admitted -> Asked \cup {Erasures!Nobody}] /\ data \in [Erasures!Table -> SUBSET Person]
  BY DEF ErasureInv, ErasureType
<1>3. u \in Person /\ t \in Erasures!Table
  BY <1>1, <1>2, SweptTables DEF Asked
<1> HIDE DEF u, t
<1>4. /\ data' \in [Erasures!Table -> SUBSET Person]
      /\ \A x \in Erasures!Table : data[x] \subseteq data'[x]
      /\ \A x \in Erasures!Table, v \in Person : v \in data'[x] => v \in data[x] \/ (v = u /\ x = t)
  BY <1>1, <1>2, <1>3
<1>5. late \subseteq late' /\ (u \in active \/ <<u, t>> \in late')
  BY <1>1
<1>6. ErasureType'
  BY <1>1, <1>2, <1>4 DEF ErasureInv, ErasureType
<1>7. ASSUME NEW v \in Person PROVE (Progress(v) /\ Clean(v))'
  <2>1. Progress(v) /\ Clean(v)
    BY DEF ErasureInv
  <2>2. Progress(v)'
    BY <2>1, <1>1, <1>4 DEF Progress
  <2>3. ASSUME NEW n \in Steps, n <= erasure[v].step, v \in data'[Erasures!Swept[n]]
        PROVE Erasures!Swept[n] \in erasure[v].failed \/ <<v, Erasures!Swept[n]>> \in late'
    <3>1. v \in data[Erasures!Swept[n]] \/ (v = u /\ Erasures!Swept[n] = t)
      BY <2>3, <1>4, SweptTables
    <3>2. v = u => u \notin active
      <4>1. n > 0 /\ n \in Nat
        BY DEF Steps
      <4> QED BY <2>1, <2>3, <4>1 DEF Progress
    <3> QED BY <2>1, <2>3, <3>1, <3>2, <1>5 DEF Clean
  <2> QED BY <2>1, <2>2, <2>3, <1>1 DEF Clean
<1> QED BY <1>6, <1>7 DEF ErasureInv

LEMMA ErasureStep ==
  ASSUME ErasureInv, [Erasures!Next]_(Erasures!erasureVars) PROVE ErasureInv'
<1>1. ASSUME NEW r \in Admitted, NEW u \in Person, NEW t \in {"favorites", "split_payment_shares"},
             Erasures!Admit(r, u, t)
      PROVE ErasureInv'
  <2> DEFINE a == [user |-> u, table |-> t]
  <2>1. request' = [request EXCEPT ![r] = a] /\ UNCHANGED <<data, active, erasure, trail, late, faulted>>
    BY <1>1 DEF Erasures!Admit
  <2>2. a \in Asked
    BY DEF Asked
  <2> HIDE DEF a
  <2> QED BY <2>1, <2>2 DEF ErasureInv, ErasureType, Progress, Clean
<1>2. CASE UNCHANGED Erasures!erasureVars
  BY <1>2 DEF Erasures!erasureVars, ErasureInv, ErasureType, Progress, Clean
<1>3. CASE Erasures!Next
  BY <1>1, <1>3, ErasureAnonymizeUser, ErasureSweep, ErasureAnonymizeTrail, ErasureRecord, ErasureWrite
     DEF Erasures!Next
<1> QED BY <1>2, <1>3

LEMMA ErasureMeans == ErasureInv => Erasures!ErasureIsExplained
<1> SUFFICES ASSUME ErasureInv, NEW u \in Person, erasure[u].at = "over"
             PROVE /\ \A t \in Erasures!ToSet(Erasures!Swept) :
                        u \in data[t] => t \in erasure[u].failed \/ <<u, t>> \in late
                   /\ erasure[u].failed # {} =>
                        \/ faulted > 0
                        \/ /\ erasure[u].failed = {"split_payment_shares"}
                           /\ \E v \in Person \ {u} : v \notin active
                   /\ \/ faulted > 0
                      \/ \E e \in trail : e.user = u /\ e.names /\ (e.status = "ok" <=> erasure[u].failed = {})
  BY DEF Erasures!ErasureIsExplained, Erasures!SweptTablesAreClean, Erasures!ErasureIsOnRecord,
         Erasures!Finished
<1>1. Progress(u) /\ Clean(u)
  BY DEF ErasureInv
<1>2. \A n \in Steps : n <= erasure[u].step
  BY <1>1 DEF Progress, Steps
<1> QED BY <1>1, <1>2, SweptTables DEF Clean

-----------------------------------------------------------------------------
(* Reviews and ratings: Ratings. *)

\* The badge asks for some reviews.
ReviewsAssumption == IsFiniteSet(Home) /\ MinReviews \in Nat \ {0}

LEMMA RatingsSums ==
  /\ \A S : Ratings!Cardinality(S) = Cardinality(S)
  /\ \A f, S : Ratings!SumOver(f, S) = SumOver(f, S)
BY DEF Ratings!Cardinality, Cardinality, Ratings!SumOver, SumOver, Ratings!MapThenSumSet, MapThenSumSet,
       Ratings!MapThenFoldSet, MapThenFoldSet

\* A refresh goes by what it read last, unless somebody wrote since.
Writing(c) == call[c].at \in {"insert", "update", "delete"}
Refreshing(c) == call[c].at \in {"summarise", "rate"}
ReviewCalls(c) ==
  /\ DOMAIN call[c] = DOMAIN Ratings!Idle
  /\ Writing(c) => /\ call[c].b \in Stay /\ call[c].k \in Ratings!Kind
                   /\ DOMAIN call[c].copy = DOMAIN Ratings!NoReview
                   /\ call[c].op = "respond" =>
                        call[c].at = "update" /\ call[c].copy # Ratings!NoReview
  /\ Refreshing(c) => call[c].b \in Stay
  /\ call[c].at = "rate" => call[c].dirty = TRUE \/ call[c].sum = Ratings!Summary(Place[call[c].b])
  /\ call[c].at = "badge" => call[c].dirty = TRUE \/ call[c].badge = Ratings!Qualifies

RatingKnown(p) ==
  rating[p] # Ratings!Summary(p) =>
    \/ p \in stale \/ faulted > 0
    \/ \E c \in Worker : Refreshing(c) /\ Place[call[c].b] = p
BadgeKnown ==
  badge # Ratings!Qualifies =>
    aged = TRUE \/ faulted > 0 \/ \E c \in Worker : call[c].at \in {"aggregate", "badge"}

ReviewsType ==
  /\ faulted \in Nat /\ DOMAIN call = Worker /\ DOMAIN rating = Home /\ DOMAIN reviews = Stay
  /\ \A b \in Stay : DOMAIN reviews[b] = Ratings!Kind
  /\ \A b \in Stay, k \in Ratings!Kind : DOMAIN reviews[b][k] = DOMAIN Ratings!NoReview

ReviewsInv ==
  /\ ReviewsType
  /\ \A c \in Worker : ReviewCalls(c)
  /\ \A p \in Home : RatingKnown(p)
  /\ BadgeKnown

-----------------------------------------------------------------------------
\* What the ratings read.
LEMMA SummaryStays ==
  ASSUME NEW p,
         \A b \in Stay : Place[b] = p =>
           /\ reviews'[b]["guest_to_property"].rating = reviews[b]["guest_to_property"].rating
           /\ (reviews'[b]["guest_to_property"] = Ratings!NoReview
                <=> reviews[b]["guest_to_property"] = Ratings!NoReview)
  PROVE Ratings!Summary(p)' = Ratings!Summary(p)
<1>1. Ratings!AboutProperty(p)' = Ratings!AboutProperty(p)
  BY DEF Ratings!AboutProperty, Ratings!NoReview
<1> DEFINE about == Ratings!AboutProperty(p)
           stars == [b \in about |-> reviews[b]["guest_to_property"].rating]
<1>2. about' = about /\ \A b \in about : b \in Stay /\ Place[b] = p
  BY <1>1 DEF Ratings!AboutProperty
<1>3. stars' = stars
  BY <1>2
<1> HIDE DEF stars, about
<1>4. Ratings!Summary(p) = [sum |-> Ratings!SumOver(stars, about), count |-> Ratings!Cardinality(about)]
  BY DEF Ratings!Summary, stars, about
<1>5. Ratings!Summary(p)' = [sum |-> Ratings!SumOver(stars', about'), count |-> Ratings!Cardinality(about')]
  BY DEF Ratings!Summary, stars, about
<1> QED BY <1>2, <1>3, <1>4, <1>5

LEMMA QualifiesStays == ASSUME UNCHANGED rating PROVE Ratings!Qualifies' = Ratings!Qualifies
BY DEF Ratings!Qualifies

LEMMA ReviewsInit == ASSUME ReviewsAssumption, Ratings!Init PROVE ReviewsInv
<1>1. /\ reviews = [b \in Stay |-> [k \in Ratings!Kind |-> Ratings!NoReview]]
      /\ rating = [p \in Home |-> Ratings!NoRating] /\ badge = FALSE
      /\ call = [c \in Worker |-> Ratings!Idle] /\ faulted = 0
  BY DEF Ratings!Init
<1>2. ReviewsType
  BY <1>1 DEF ReviewsType
<1>3. \A c \in Worker : ReviewCalls(c)
  BY <1>1 DEF ReviewCalls, Writing, Refreshing, Ratings!Idle
<1>4. ASSUME NEW p \in Home PROVE rating[p] = Ratings!Summary(p)
  <2>1. Ratings!AboutProperty(p) = {}
    BY <1>1 DEF Ratings!AboutProperty, Ratings!Kind
  <2>2. Ratings!Summary(p) =
          [sum |-> Ratings!SumOver([b \in {} |-> reviews[b]["guest_to_property"].rating], {}),
           count |-> Ratings!Cardinality({})]
    BY <2>1 DEF Ratings!Summary
  <2>3. Cardinality({}) = 0 /\ IsFiniteSet({})
    BY FS_EmptySet
  <2>4. \A f : SumOver(f, {}) = 0
    BY <2>3, SumRecursion
  <2> QED BY <1>1, <2>2, <2>3, <2>4, RatingsSums DEF Ratings!NoRating
<1>5. Ratings!Qualifies = FALSE
  <2> DEFINE f == [p \in Home |-> rating[p].count]
             g == [p \in Home |-> rating[p].sum]
  <2>1. \A p \in Home : f[p] = 0
    BY <1>1 DEF Ratings!NoRating
  <2>2. Ratings!Qualifies <=> /\ Ratings!SumOver(f, Home) >= MinReviews
                              /\ 10 * Ratings!SumOver(g, Home) >= 48 * Ratings!SumOver(f, Home)
    BY DEF Ratings!Qualifies
  <2> HIDE DEF f, g
  <2>3. Ratings!SumOver(f, Home) = 0
    BY <2>1, SumZero, RatingsSums DEF ReviewsAssumption
  <2>4. ~Ratings!Qualifies
    BY <2>2, <2>3 DEF ReviewsAssumption
  <2> QED BY <2>4 DEF Ratings!Qualifies
<1> QED BY <1>1, <1>2, <1>3, <1>4, <1>5 DEF ReviewsInv, RatingKnown, BadgeKnown

-----------------------------------------------------------------------------
\* A step that leaves the tables and the ratings alone.
LEMMA ReviewQuiet ==
  ASSUME ReviewsInv, UNCHANGED <<reviews, rating, badge>>, aged' = aged, stale \subseteq stale',
         faulted' \in Nat, faulted > 0 => faulted' > 0, DOMAIN call' = Worker,
         \A d \in Worker : call'[d] = call[d] \/ ReviewCalls(d)',
         \/ faulted' > 0
         \/ \A d \in Worker :
              /\ Refreshing(d) => Refreshing(d)' /\ call'[d].b = call[d].b
              /\ call[d].at \in {"aggregate", "badge"} => call'[d].at \in {"aggregate", "badge"}
  PROVE ReviewsInv'
<1>1. ReviewsType'
  BY DEF ReviewsInv, ReviewsType
<1>2. \A p : Ratings!Summary(p)' = Ratings!Summary(p)
  BY SummaryStays
<1>4. Ratings!Qualifies' = Ratings!Qualifies
  BY QualifiesStays
<1>5. ASSUME NEW d \in Worker PROVE ReviewCalls(d)'
  <2>1. ReviewCalls(d)
    BY DEF ReviewsInv
  <2>2. CASE call'[d] = call[d]
    BY <1>2, <1>4, <2>1, <2>2 DEF ReviewCalls, Writing, Refreshing, Ratings!Idle, Ratings!NoReview
  <2> QED BY <2>2
<1>6. ASSUME NEW p \in Home PROVE RatingKnown(p)'
  <2>1. RatingKnown(p)
    BY DEF ReviewsInv
  <2> QED BY <1>2, <2>1 DEF RatingKnown
<1>7. BadgeKnown'
  <2>1. BadgeKnown
    BY DEF ReviewsInv
  <2> QED BY <1>4, <2>1 DEF BadgeKnown
<1> QED BY <1>1, <1>5, <1>6, <1>7 DEF ReviewsInv

\* A call that goes on with what it holds.
LEMMA ReviewCallTo ==
  ASSUME ReviewsInv, NEW c \in Worker, NEW rec, call' = [call EXCEPT ![c] = rec]
  PROVE DOMAIN call' = Worker /\ call'[c] = rec /\ \A d \in Worker : d # c => call'[d] = call[d]
BY DEF ReviewsInv, ReviewsType

LEMMA ReviewOver ==
  ASSUME ReviewsInv, NEW c \in Worker, call' = [call EXCEPT ![c] = Ratings!Over]
  PROVE /\ DOMAIN call' = Worker /\ call'[c].at = "over" /\ ReviewCalls(c)'
        /\ \A d \in Worker : d # c => call'[d] = call[d]
<1>1. DOMAIN call' = Worker /\ call'[c] = Ratings!Over /\ \A d \in Worker : d # c => call'[d] = call[d]
  BY ReviewCallTo
<1>2. Ratings!Over.at = "over" /\ DOMAIN Ratings!Over = DOMAIN Ratings!Idle
  BY DEF Ratings!Over, Ratings!Idle
<1> QED BY <1>1, <1>2 DEF ReviewCalls, Writing, Refreshing, Ratings!Idle

\* A review is loaded or made, and held to be written.
LEMMA ReviewLoad ==
  ASSUME ReviewsInv, NEW c \in Worker, NEW b \in Stay, NEW k \in Ratings!Kind, NEW op, NEW draft,
         NEW at \in {"insert", "update", "delete"}, DOMAIN draft = DOMAIN Ratings!NoReview,
         op = "respond" => at = "update" /\ draft # Ratings!NoReview,
         Ratings!Load(c, b, k, op, draft, at)
  PROVE ReviewsInv'
<1> DEFINE rec == [Ratings!Idle EXCEPT !.at = at, !.op = op, !.b = b, !.k = k, !.copy = draft]
<1>1. /\ call[c].at = "new" /\ call' = [call EXCEPT ![c] = rec]
      /\ UNCHANGED <<completed, reviews, locked, rating, badge, stale, aged, faulted>>
  BY DEF Ratings!Load, Ratings!At
<1>2. DOMAIN rec = DOMAIN Ratings!Idle /\ rec.at = at /\ rec.op = op /\ rec.b = b /\ rec.k = k /\ rec.copy = draft
  BY DEF Ratings!Idle
<1> HIDE DEF rec
<1>3. DOMAIN call' = Worker /\ call'[c] = rec /\ \A d \in Worker : d # c => call'[d] = call[d]
  BY <1>1, ReviewCallTo
<1>4. ReviewCalls(c)'
  BY <1>2, <1>3 DEF ReviewCalls, Writing, Refreshing, Ratings!Idle, Ratings!NoReview
<1>5. \A d \in Worker : call'[d] = call[d] \/ ReviewCalls(d)'
  BY <1>3, <1>4
<1>6. \A d \in Worker :
        /\ Refreshing(d) => Refreshing(d)' /\ call'[d].b = call[d].b
        /\ call[d].at \in {"aggregate", "badge"} => call'[d].at \in {"aggregate", "badge"}
  BY <1>1, <1>3 DEF Refreshing
<1>7. faulted' \in Nat
  BY <1>1 DEF ReviewsInv, ReviewsType
<1> QED BY <1>1, <1>3, <1>5, <1>6, <1>7, ReviewQuiet

\* Who writes a row leaves every summary of its listing old.
LEMMA ReviewWrote ==
  ASSUME ReviewsInv, NEW c \in Worker, Writing(c), NEW new, DOMAIN new = DOMAIN Ratings!NoReview,
         Ratings!Wrote(c, new), UNCHANGED <<rating, badge, aged, faulted>>, stale \subseteq stale',
         call[c].op = "respond" =>
           /\ Ratings!Row(c) # Ratings!NoReview /\ new # Ratings!NoReview
           /\ Ratings!Row(c).rating = new.rating \/ Place[call[c].b] \in stale'
  PROVE ReviewsInv'
<1> DEFINE b == call[c].b
           k == call[c].k
           again == Ratings!Rerates(call[c].op, k)
<1>1. /\ reviews' = [reviews EXCEPT ![b][k] = new]
      /\ call' = [d \in Worker |->
           IF d = c THEN IF again THEN [call[c] EXCEPT !.at = "summarise"] ELSE Ratings!Over
           ELSE IF Ratings!At(d, "rate") /\ Place[call[d].b] = Place[b]
                THEN [call[d] EXCEPT !.dirty = TRUE] ELSE call[d]]
  BY DEF Ratings!Wrote
<1>2. ReviewsType /\ ReviewCalls(c) /\ b \in Stay /\ k \in Ratings!Kind
  BY DEF ReviewsInv, ReviewCalls
<1>3. /\ DOMAIN reviews' = Stay /\ \A x \in Stay : DOMAIN reviews'[x] = Ratings!Kind
      /\ reviews'[b][k] = new
      /\ \A x \in Stay, l \in Ratings!Kind : x # b \/ l # k => reviews'[x][l] = reviews[x][l]
  BY <1>1, <1>2 DEF ReviewsType
<1>4. ReviewsType'
  BY <1>1, <1>2, <1>3 DEF ReviewsType
<1>5. again <=> call[c].op # "respond" /\ k = "guest_to_property"
  BY DEF Ratings!Rerates
<1>6. \A p : p # Place[b] => Ratings!Summary(p)' = Ratings!Summary(p)
  <2>1. \A p : p # Place[b] => \A x \in Stay : Place[x] = p =>
          reviews'[x]["guest_to_property"] = reviews[x]["guest_to_property"]
    BY <1>2, <1>3 DEF Ratings!Kind
  <2> QED BY <2>1, SummaryStays
<1>8. ASSUME ~again, Place[b] \notin stale', NEW p, p = Place[b]
      PROVE Ratings!Summary(p)' = Ratings!Summary(p)
  <2>1. CASE k # "guest_to_property"
    <3>1. \A x \in Stay : reviews'[x]["guest_to_property"] = reviews[x]["guest_to_property"]
      BY <1>2, <1>3, <2>1 DEF Ratings!Kind
    <3> QED BY <3>1, SummaryStays
  <2>2. CASE k = "guest_to_property"
    <3>1. /\ reviews[b][k] # Ratings!NoReview /\ new # Ratings!NoReview
          /\ reviews[b][k].rating = new.rating
      BY <1>5, <1>8, <2>2 DEF Ratings!Row
    <3>2. \A x \in Stay :
           /\ reviews'[x]["guest_to_property"].rating = reviews[x]["guest_to_property"].rating
           /\ (reviews'[x]["guest_to_property"] = Ratings!NoReview
                <=> reviews[x]["guest_to_property"] = Ratings!NoReview)
      BY <1>2, <1>3, <2>2, <3>1 DEF Ratings!Kind
    <3> QED BY <3>2, SummaryStays
  <2> QED BY <2>1, <2>2
<1>9. /\ again => call'[c].at = "summarise" /\ call'[c].b = b /\ DOMAIN call'[c] = DOMAIN Ratings!Idle
      /\ ~again => call'[c] = Ratings!Over
  BY <1>1, <1>2 DEF ReviewCalls, Ratings!Idle
<1>10. Ratings!Over.at = "over" /\ DOMAIN Ratings!Over = DOMAIN Ratings!Idle
  BY DEF Ratings!Over, Ratings!Idle
<1>11. ASSUME NEW d \in Worker, d # c
       PROVE \/ call[d].at = "rate" /\ Place[call[d].b] = Place[b] /\ call'[d] = [call[d] EXCEPT !.dirty = TRUE]
             \/ (call[d].at = "rate" => Place[call[d].b] # Place[b]) /\ call'[d] = call[d]
  BY <1>1, <1>11 DEF Ratings!At
<1>12. Ratings!Qualifies' = Ratings!Qualifies
  BY QualifiesStays
<1>13. ASSUME NEW d \in Worker PROVE ReviewCalls(d)'
  <2>1. CASE d = c /\ again
    BY <1>2, <1>9, <2>1 DEF ReviewCalls, Writing, Refreshing, Ratings!Idle
  <2>2. CASE d = c /\ ~again
    BY <1>9, <1>10, <2>2 DEF ReviewCalls, Writing, Refreshing, Ratings!Idle
  <2>3. CASE d # c /\ call[d].at = "rate" /\ Place[call[d].b] = Place[b] /\ call'[d] = [call[d] EXCEPT !.dirty = TRUE]
    <3>1. ReviewCalls(d)
      BY DEF ReviewsInv
    <3>2. call'[d].at = "rate" /\ call'[d].dirty = TRUE /\ call'[d].b = call[d].b
          /\ DOMAIN call'[d] = DOMAIN Ratings!Idle
      BY <2>3, <3>1 DEF ReviewCalls, Ratings!Idle
    <3> QED BY <2>3, <3>1, <3>2 DEF ReviewCalls, Writing, Refreshing, Ratings!Idle
  <2>4. CASE d # c /\ (call[d].at = "rate" => Place[call[d].b] # Place[b]) /\ call'[d] = call[d]
    <3>1. ReviewCalls(d)
      BY DEF ReviewsInv
    <3> QED BY <1>6, <1>12, <2>4, <3>1 DEF ReviewCalls, Writing, Refreshing, Ratings!Idle, Ratings!NoReview
  <2> QED BY <1>11, <2>1, <2>2, <2>3, <2>4
<1>14. ASSUME NEW p \in Home PROVE RatingKnown(p)'
  <2>1. RatingKnown(p) /\ ~Refreshing(c)
    BY DEF ReviewsInv, Writing, Refreshing
  <2>2. CASE p # Place[b]
    <3>1. \A d \in Worker : Refreshing(d) => Refreshing(d)' /\ call'[d].b = call[d].b
      <4>1. \A d \in Worker : DOMAIN call[d] = DOMAIN Ratings!Idle
        BY DEF ReviewsInv, ReviewCalls
      <4> QED BY <1>11, <2>1, <4>1 DEF Refreshing, Ratings!Idle
    <3> QED BY <1>6, <2>1, <2>2, <3>1 DEF RatingKnown
  <2>3. CASE p = Place[b] /\ again
    BY <1>9, <2>3 DEF RatingKnown, Refreshing
  <2>4. CASE p = Place[b] /\ ~again
    <3>1. p \in stale' \/ Ratings!Summary(p)' = Ratings!Summary(p)
      BY <1>8, <2>4
    <3>2. \A d \in Worker : Refreshing(d) => Refreshing(d)' /\ call'[d].b = call[d].b
      <4>1. \A d \in Worker : DOMAIN call[d] = DOMAIN Ratings!Idle
        BY DEF ReviewsInv, ReviewCalls
      <4> QED BY <1>11, <2>1, <4>1 DEF Refreshing, Ratings!Idle
    <3> QED BY <2>1, <3>1, <3>2 DEF RatingKnown
  <2> QED BY <2>2, <2>3, <2>4
<1>15. BadgeKnown'
  <2>1. BadgeKnown /\ call[c].at \notin {"aggregate", "badge"}
    BY DEF ReviewsInv, Writing
  <2>2. \A d \in Worker : call[d].at \in {"aggregate", "badge"} => call'[d].at \in {"aggregate", "badge"}
    BY <1>11, <2>1
  <2> QED BY <1>12, <2>1, <2>2 DEF BadgeKnown
<1> QED BY <1>4, <1>13, <1>14, <1>15 DEF ReviewsInv

LEMMA ReviewInsert ==
  ASSUME ReviewsInv, NEW c \in Worker, Ratings!InsertReview(c)
  PROVE ReviewsInv'
<1>1. Writing(c) /\ call[c].at = "insert" /\ ReviewCalls(c) /\ faulted \in Nat
  BY DEF Ratings!InsertReview, Ratings!At, Writing, ReviewsInv, ReviewsType
<1>2. UNCHANGED <<completed, locked, rating, badge, stale, aged, faulted>>
  BY DEF Ratings!InsertReview
<1>3. CASE Ratings!Wrote(c, call[c].copy)
  <2>1. call[c].op # "respond" /\ DOMAIN call[c].copy = DOMAIN Ratings!NoReview
    BY <1>1 DEF ReviewCalls
  <2> QED BY <1>1, <1>2, <1>3, <2>1, ReviewWrote
<1>4. CASE call' = [call EXCEPT ![c] = Ratings!Over] /\ UNCHANGED reviews
  <2>1. /\ DOMAIN call' = Worker /\ ReviewCalls(c)' /\ \A d \in Worker : d # c => call'[d] = call[d]
    BY <1>4, ReviewOver
  <2>2. \A d \in Worker :
        /\ Refreshing(d) => Refreshing(d)' /\ call'[d].b = call[d].b
        /\ call[d].at \in {"aggregate", "badge"} => call'[d].at \in {"aggregate", "badge"}
    BY <1>1, <2>1 DEF Refreshing
  <2>3. \A d \in Worker : call'[d] = call[d] \/ ReviewCalls(d)'
    BY <2>1
  <2> QED BY <1>1, <1>2, <1>4, <2>1, <2>2, <2>3, ReviewQuiet
<1> QED BY <1>3, <1>4 DEF Ratings!InsertReview

LEMMA ReviewUpdate ==
  ASSUME ReviewsInv, NEW c \in Worker, Ratings!UpdateReview(c)
  PROVE ReviewsInv'
<1>1. Writing(c) /\ call[c].at = "update" /\ ReviewCalls(c) /\ faulted \in Nat
  BY DEF Ratings!UpdateReview, Ratings!At, Writing, ReviewsInv, ReviewsType
<1>2. UNCHANGED <<completed, locked, rating, badge, aged, faulted>>
  BY DEF Ratings!UpdateReview
<1>3. CASE /\ Ratings!Row(c) # Ratings!NoReview /\ Ratings!Wrote(c, call[c].copy)
           /\ stale' = IF call[c].op = "respond" /\ Ratings!Row(c).rating # call[c].copy.rating
                         THEN stale \cup {Place[call[c].b]} ELSE stale
  <2>1. /\ DOMAIN call[c].copy = DOMAIN Ratings!NoReview
        /\ call[c].op = "respond" => call[c].copy # Ratings!NoReview
    BY <1>1 DEF ReviewCalls
  <2>2. /\ stale \subseteq stale'
        /\ call[c].op = "respond" =>
             Ratings!Row(c).rating = call[c].copy.rating \/ Place[call[c].b] \in stale'
    BY <1>3
  <2> QED BY <1>1, <1>2, <1>3, <2>1, <2>2, ReviewWrote
<1>4. CASE call' = [call EXCEPT ![c] = Ratings!Over] /\ UNCHANGED <<reviews, stale>>
  <2>1. /\ DOMAIN call' = Worker /\ ReviewCalls(c)' /\ \A d \in Worker : d # c => call'[d] = call[d]
    BY <1>4, ReviewOver
  <2>2. \A d \in Worker :
        /\ Refreshing(d) => Refreshing(d)' /\ call'[d].b = call[d].b
        /\ call[d].at \in {"aggregate", "badge"} => call'[d].at \in {"aggregate", "badge"}
    BY <1>1, <2>1 DEF Refreshing
  <2>3. \A d \in Worker : call'[d] = call[d] \/ ReviewCalls(d)'
    BY <2>1
  <2> QED BY <1>1, <1>2, <1>4, <2>1, <2>2, <2>3, ReviewQuiet
<1> QED BY <1>3, <1>4 DEF Ratings!UpdateReview

LEMMA ReviewDelete ==
  ASSUME ReviewsInv, NEW c \in Worker, Ratings!DeleteReview(c)
  PROVE ReviewsInv'
<1>1. Writing(c) /\ call[c].at = "delete" /\ ReviewCalls(c) /\ faulted \in Nat
  BY DEF Ratings!DeleteReview, Ratings!At, Writing, ReviewsInv, ReviewsType
<1>2. UNCHANGED <<completed, rating, badge, stale, aged, faulted>>
  BY DEF Ratings!DeleteReview
<1>3. CASE Ratings!Wrote(c, Ratings!NoReview)
  <2>1. call[c].op # "respond"
    BY <1>1 DEF ReviewCalls
  <2> QED BY <1>1, <1>2, <1>3, <2>1, ReviewWrote
<1>4. CASE call' = [call EXCEPT ![c] = Ratings!Over] /\ UNCHANGED <<reviews, locked>>
  <2>1. /\ DOMAIN call' = Worker /\ ReviewCalls(c)' /\ \A d \in Worker : d # c => call'[d] = call[d]
    BY <1>4, ReviewOver
  <2>2. \A d \in Worker :
        /\ Refreshing(d) => Refreshing(d)' /\ call'[d].b = call[d].b
        /\ call[d].at \in {"aggregate", "badge"} => call'[d].at \in {"aggregate", "badge"}
    BY <1>1, <2>1 DEF Refreshing
  <2>3. \A d \in Worker : call'[d] = call[d] \/ ReviewCalls(d)'
    BY <2>1
  <2> QED BY <1>1, <1>2, <1>4, <2>1, <2>2, <2>3, ReviewQuiet
<1> QED BY <1>3, <1>4 DEF Ratings!DeleteReview

LEMMA ReviewSummarise ==
  ASSUME ReviewsInv, NEW c \in Worker, Ratings!Summarise(c)
  PROVE ReviewsInv'
<1>1. /\ call[c].at = "summarise" /\ ReviewCalls(c) /\ ReviewsType
      /\ call' = [call EXCEPT ![c].at = "rate", ![c].sum = Ratings!Summary(Place[call[c].b])]
      /\ UNCHANGED <<completed, reviews, locked, rating, badge, stale, aged, faulted>>
  BY DEF Ratings!Summarise, Ratings!At, ReviewsInv
<1> DEFINE s == Ratings!Summary(Place[call[c].b])
<1>2. /\ DOMAIN call' = Worker /\ \A d \in Worker : d # c => call'[d] = call[d]
      /\ DOMAIN call'[c] = DOMAIN Ratings!Idle /\ call'[c].at = "rate" /\ call'[c].b = call[c].b
      /\ call'[c].sum = s
  <2>1. \A t : "at" \in DOMAIN call[c] /\ "sum" \in DOMAIN call[c] /\ "b" \in DOMAIN call[c]
    BY <1>1 DEF ReviewCalls, Ratings!Idle
  <2>2. DOMAIN call = Worker /\ DOMAIN call[c] = DOMAIN Ratings!Idle
    BY <1>1 DEF ReviewsType, ReviewCalls
  <2>3. call' = [call EXCEPT ![c].at = "rate", ![c].sum = s]
    BY <1>1
  <2> HIDE DEF s
  <2> QED BY <2>1, <2>2, <2>3
<1>3. Ratings!Summary(Place[call[c].b])' = s
  <2>1. \A p : Ratings!Summary(p)' = Ratings!Summary(p)
    BY <1>1, SummaryStays
  <2> QED BY <1>2, <2>1
<1> HIDE DEF s
<1>4. ReviewCalls(c)'
  <2>1. call[c].b \in Stay
    BY <1>1 DEF ReviewCalls, Refreshing
  <2> QED BY <1>2, <1>3, <2>1 DEF ReviewCalls, Writing, Refreshing, Ratings!Idle
<1>5. \A d \in Worker : call'[d] = call[d] \/ ReviewCalls(d)'
  BY <1>2, <1>4
<1>6. \A d \in Worker :
        /\ Refreshing(d) => Refreshing(d)' /\ call'[d].b = call[d].b
        /\ call[d].at \in {"aggregate", "badge"} => call'[d].at \in {"aggregate", "badge"}
  BY <1>1, <1>2 DEF Refreshing
<1>7. faulted' \in Nat
  BY <1>1 DEF ReviewsType
<1> QED BY <1>1, <1>2, <1>5, <1>6, <1>7, ReviewQuiet

LEMMA ReviewRate ==
  ASSUME ReviewsInv, NEW c \in Worker, Ratings!UpdateRating(c)
  PROVE ReviewsInv'
<1> DEFINE p == Place[call[c].b]
           next == [call[c] EXCEPT !.at = "aggregate", !.dirty = FALSE]
<1>1. /\ call[c].at = "rate" /\ ReviewCalls(c) /\ ReviewsType /\ call[c].b \in Stay
      /\ DOMAIN call[c] = DOMAIN Ratings!Idle
      /\ UNCHANGED <<completed, reviews, locked, badge, aged>>
  BY DEF Ratings!UpdateRating, Ratings!At, ReviewsInv, ReviewCalls, Refreshing
<1>2. \A x : Ratings!Summary(x)' = Ratings!Summary(x)
  BY <1>1, SummaryStays
<1>3. next.at = "aggregate" /\ DOMAIN next = DOMAIN Ratings!Idle
  BY <1>1 DEF Ratings!Idle
<1> HIDE DEF next
<1>4. CASE /\ rating' = [rating EXCEPT ![p] = call[c].sum]
           /\ stale' = IF call[c].dirty THEN stale \cup {p} ELSE stale \ {p}
           /\ call' = [d \in Worker |->
                IF d = c THEN next
                ELSE IF Ratings!At(d, "badge") THEN [call[d] EXCEPT !.dirty = TRUE] ELSE call[d]]
           /\ UNCHANGED faulted
  <2>1. call'[c] = next /\ ReviewCalls(c)'
    BY <1>3, <1>4 DEF ReviewCalls, Writing, Refreshing, Ratings!Idle
  <2>2. ASSUME NEW d \in Worker, d # c
        PROVE \/ call[d].at = "badge" /\ call'[d] = [call[d] EXCEPT !.dirty = TRUE]
              \/ call[d].at # "badge" /\ call'[d] = call[d]
    BY <1>4, <2>2 DEF Ratings!At
  <2>3. ASSUME NEW d \in Worker PROVE ReviewCalls(d)'
    <3>1. ReviewCalls(d)
      BY DEF ReviewsInv
    <3>2. CASE d # c /\ call[d].at = "badge" /\ call'[d] = [call[d] EXCEPT !.dirty = TRUE]
      <4>1. call'[d].at = "badge" /\ call'[d].dirty = TRUE /\ DOMAIN call'[d] = DOMAIN Ratings!Idle
        BY <3>1, <3>2 DEF ReviewCalls, Ratings!Idle
      <4> QED BY <4>1 DEF ReviewCalls, Writing, Refreshing, Ratings!Idle
    <3>3. CASE d # c /\ call[d].at # "badge" /\ call'[d] = call[d]
      BY <1>2, <3>1, <3>3 DEF ReviewCalls, Writing, Refreshing, Ratings!Idle, Ratings!NoReview
    <3> QED BY <2>1, <2>2, <3>2, <3>3
  <2>4. ASSUME NEW q \in Home PROVE RatingKnown(q)'
    <3>1. RatingKnown(q)
      BY DEF ReviewsInv
    <3>2. CASE q = p
      <4>1. call[c].dirty = TRUE \/ call[c].sum = Ratings!Summary(q)
        BY <1>1, <3>2 DEF ReviewCalls
      <4>2. rating'[q] = call[c].sum
        BY <1>1, <1>4, <3>2 DEF ReviewsType
      <4>3. call[c].dirty = TRUE => q \in stale'
        BY Zenon, <1>4, <3>2
      <4> QED BY <1>2, <4>1, <4>2, <4>3 DEF RatingKnown
    <3>3. CASE q # p
      <4>1. rating'[q] = rating[q] /\ (q \in stale => q \in stale') /\ faulted' = faulted
        BY <1>1, <1>4, <3>3 DEF ReviewsType
      <4>2. \A d \in Worker : Refreshing(d) /\ Place[call[d].b] = q => d # c /\ call'[d] = call[d]
        BY <2>2, <3>3 DEF Refreshing
      <4> QED BY <1>2, <3>1, <4>1, <4>2 DEF RatingKnown, Refreshing
    <3> QED BY <3>2, <3>3
  <2>5. BadgeKnown'
    BY <1>3, <2>1 DEF BadgeKnown
  <2>6. ReviewsType'
    BY <1>1, <1>4 DEF ReviewsType
  <2> QED BY <2>3, <2>4, <2>5, <2>6 DEF ReviewsInv
<1>5. CASE /\ call' = [call EXCEPT ![c].at = "aggregate", ![c].dirty = FALSE]
           /\ UNCHANGED <<rating, stale>> /\ Ratings!Fault
  <2>1. faulted' > 0 /\ faulted' \in Nat
    BY <1>1, <1>5 DEF Ratings!Fault, ReviewsType
  <2>2. /\ DOMAIN call' = Worker /\ \A d \in Worker : d # c => call'[d] = call[d]
        /\ call'[c].at = "aggregate" /\ DOMAIN call'[c] = DOMAIN Ratings!Idle
    <3>1. "at" \in DOMAIN call[c] /\ "dirty" \in DOMAIN call[c]
      BY <1>1 DEF Ratings!Idle
    <3> QED BY <1>1, <1>5, <3>1 DEF ReviewsType
  <2>3. ReviewCalls(c)'
    BY <2>2 DEF ReviewCalls, Writing, Refreshing, Ratings!Idle
  <2>4. \A d \in Worker : call'[d] = call[d] \/ ReviewCalls(d)'
    BY <2>2, <2>3
  <2> QED BY <1>1, <1>5, <2>1, <2>2, <2>4, ReviewQuiet
<1> QED BY <1>4, <1>5 DEF Ratings!UpdateRating, next

LEMMA ReviewBadge ==
  ASSUME ReviewsInv, NEW c \in Worker, Ratings!HostRatingAggregate(c) \/ Ratings!SetHostSuperhost(c)
  PROVE ReviewsInv'
<1>1. ReviewsType /\ ReviewCalls(c) /\ DOMAIN call[c] = DOMAIN Ratings!Idle
  BY DEF ReviewsInv, ReviewCalls
<1>2. CASE Ratings!HostRatingAggregate(c)
  <2> DEFINE q == Ratings!Qualifies
  <2>1. /\ call[c].at = "aggregate" /\ call' = [call EXCEPT ![c].at = "badge", ![c].badge = q]
        /\ UNCHANGED <<completed, reviews, locked, rating, badge, stale, aged, faulted>>
    BY <1>2 DEF Ratings!HostRatingAggregate, Ratings!At
  <2>2. q' = q
    BY <2>1, QualifiesStays
  <2> HIDE DEF q
  <2>3. /\ DOMAIN call' = Worker /\ \A d \in Worker : d # c => call'[d] = call[d]
        /\ call'[c].at = "badge" /\ DOMAIN call'[c] = DOMAIN Ratings!Idle /\ call'[c].badge = q
    <3>1. "at" \in DOMAIN call[c] /\ "badge" \in DOMAIN call[c]
      BY <1>1 DEF Ratings!Idle
    <3> QED BY <1>1, <2>1, <3>1 DEF ReviewsType
  <2>4. ReviewCalls(c)'
    <3>1. call'[c].badge = q'
      BY <2>2, <2>3
    <3> QED BY <2>3, <3>1 DEF ReviewCalls, Writing, Refreshing, Ratings!Idle, q
  <2>5. \A d \in Worker : call'[d] = call[d] \/ ReviewCalls(d)'
    BY <2>3, <2>4
  <2>6. \A d \in Worker :
        /\ Refreshing(d) => Refreshing(d)' /\ call'[d].b = call[d].b
        /\ call[d].at \in {"aggregate", "badge"} => call'[d].at \in {"aggregate", "badge"}
    BY <2>1, <2>3 DEF Refreshing
  <2>7. faulted' \in Nat
    BY <1>1, <2>1 DEF ReviewsType
  <2> QED BY <2>1, <2>3, <2>5, <2>6, <2>7, ReviewQuiet
<1>3. CASE Ratings!SetHostSuperhost(c)
  <2>1. /\ call[c].at = "badge" /\ call' = [call EXCEPT ![c] = Ratings!Over]
        /\ badge' = call[c].badge /\ aged' = call[c].dirty
        /\ UNCHANGED <<completed, reviews, locked, rating, stale, faulted>>
    BY <1>3 DEF Ratings!SetHostSuperhost, Ratings!At
  <2>2. /\ DOMAIN call' = Worker /\ ReviewCalls(c)' /\ \A d \in Worker : d # c => call'[d] = call[d]
    BY <2>1, ReviewOver
  <2>3. Ratings!Qualifies' = Ratings!Qualifies /\ \A x : Ratings!Summary(x)' = Ratings!Summary(x)
    BY <2>1, QualifiesStays, SummaryStays
  <2>4. ASSUME NEW d \in Worker PROVE ReviewCalls(d)'
    <3>1. ReviewCalls(d)
      BY DEF ReviewsInv
    <3>2. CASE d # c
      BY <2>2, <2>3, <3>1, <3>2 DEF ReviewCalls, Writing, Refreshing, Ratings!Idle, Ratings!NoReview
    <3> QED BY <2>2, <3>2
  <2>5. ASSUME NEW p \in Home PROVE RatingKnown(p)'
    <3>1. RatingKnown(p)
      BY DEF ReviewsInv
    <3>2. \A d \in Worker : Refreshing(d) => call'[d] = call[d]
      BY <2>1, <2>2 DEF Refreshing
    <3> QED BY <2>1, <2>3, <3>1, <3>2 DEF RatingKnown, Refreshing
  <2>6. BadgeKnown'
    <3>1. call[c].dirty = TRUE \/ call[c].badge = Ratings!Qualifies
      BY <1>1, <2>1 DEF ReviewCalls
    <3> QED BY <2>1, <2>3, <3>1 DEF BadgeKnown
  <2>7. ReviewsType'
    BY <1>1, <2>1, <2>2 DEF ReviewsType
  <2> QED BY <2>4, <2>5, <2>6, <2>7 DEF ReviewsInv
<1> QED BY <1>2, <1>3

LEMMA ReviewGivesUp ==
  ASSUME ReviewsInv, NEW c \in Worker, Ratings!GiveUp(c)
  PROVE ReviewsInv'
<1>1. /\ call' = [call EXCEPT ![c] = Ratings!Over] /\ faulted' > 0 /\ faulted' \in Nat
      /\ UNCHANGED <<completed, reviews, locked, rating, badge, stale, aged>>
  BY DEF Ratings!GiveUp, Ratings!Fault, ReviewsInv, ReviewsType
<1>2. /\ DOMAIN call' = Worker /\ ReviewCalls(c)' /\ \A d \in Worker : d # c => call'[d] = call[d]
  BY <1>1, ReviewOver
<1>3. \A d \in Worker : call'[d] = call[d] \/ ReviewCalls(d)'
  BY <1>2
<1> QED BY <1>1, <1>2, <1>3, ReviewQuiet

\* What the domain makes of a review is one, and a reply is not no review.
LEMMA ReviewLoads ==
  ASSUME ReviewsInv, NEW c \in Worker, NEW b \in Stay,
         \/ Ratings!RespondToReview(c, b)
         \/ \E k \in Ratings!Kind : Ratings!DeleteOwnReview(c, b, k)
         \/ \E stars \in Rating :
              \/ Ratings!CreateReview(c, b, stars) \/ Ratings!CreateGuestReview(c, b, stars)
              \/ \E k \in Ratings!Kind : Ratings!EditOwnReview(c, b, k, stars)
  PROVE ReviewsInv'
<1>1. "guest_to_property" \in Ratings!Kind /\ "host_to_guest" \in Ratings!Kind
  BY DEF Ratings!Kind
<1>2. \A k \in Ratings!Kind : DOMAIN reviews[b][k] = DOMAIN Ratings!NoReview
  BY DEF ReviewsInv, ReviewsType
<1>3. \A stars : DOMAIN Ratings!NewReview(stars) = DOMAIN Ratings!NoReview
  BY DEF Ratings!NewReview, Ratings!NoReview
<1>4. CASE Ratings!RespondToReview(c, b)
  <2> DEFINE rv == reviews[b]["guest_to_property"]
             draft == Ratings!WithResponse(rv)
  <2>1. Ratings!Load(c, b, "guest_to_property", "respond", draft, "update")
    BY <1>4 DEF Ratings!RespondToReview
  <2>2. DOMAIN draft = DOMAIN Ratings!NoReview /\ draft.response = TRUE
    BY <1>1, <1>2 DEF Ratings!WithResponse, Ratings!NoReview
  <2> HIDE DEF draft
  <2>3. draft # Ratings!NoReview
    BY <2>2 DEF Ratings!NoReview
  <2> QED BY <1>1, <2>1, <2>2, <2>3, ReviewLoad
<1>5. ASSUME NEW k \in Ratings!Kind, Ratings!DeleteOwnReview(c, b, k) PROVE ReviewsInv'
  <2>1. Ratings!Load(c, b, k, "delete", Ratings!NoReview, "delete")
    BY <1>5 DEF Ratings!DeleteOwnReview
  <2> QED BY <2>1, ReviewLoad
<1>6. ASSUME NEW stars \in Rating, Ratings!CreateReview(c, b, stars) PROVE ReviewsInv'
  <2>1. Ratings!Load(c, b, "guest_to_property", "create", Ratings!NewReview(stars), "insert")
    BY <1>6 DEF Ratings!CreateReview
  <2> QED BY <1>1, <1>3, <2>1, ReviewLoad
<1>7. ASSUME NEW stars \in Rating, Ratings!CreateGuestReview(c, b, stars) PROVE ReviewsInv'
  <2>1. Ratings!Load(c, b, "host_to_guest", "create", Ratings!NewReview(stars), "insert")
    BY <1>7 DEF Ratings!CreateGuestReview
  <2> QED BY <1>1, <1>3, <2>1, ReviewLoad
<1>8. ASSUME NEW stars \in Rating, NEW k \in Ratings!Kind, Ratings!EditOwnReview(c, b, k, stars) PROVE ReviewsInv'
  <2> DEFINE draft == Ratings!Edited(reviews[b][k], stars)
  <2>1. Ratings!Load(c, b, k, "edit", draft, "update")
    BY <1>8 DEF Ratings!EditOwnReview
  <2>2. DOMAIN draft = DOMAIN Ratings!NoReview
    BY <1>2 DEF Ratings!Edited
  <2> HIDE DEF draft
  <2> QED BY <2>1, <2>2, ReviewLoad
<1> QED BY <1>4, <1>5, <1>6, <1>7, <1>8

LEMMA ReviewsStep ==
  ASSUME ReviewsInv, [Ratings!Next]_(Ratings!reviewVars)
  PROVE ReviewsInv'
<1>1. CASE \/ \E b \in Stay : Ratings!Complete(b) \/ \E k \in Ratings!Kind : Ratings!WindowPasses(b, k)
           \/ UNCHANGED Ratings!reviewVars
  <2>1. UNCHANGED <<reviews, rating, badge, call, stale, aged, faulted>>
    BY <1>1 DEF Ratings!Complete, Ratings!WindowPasses, Ratings!reviewVars
  <2>2. faulted \in Nat /\ DOMAIN call = Worker
    BY DEF ReviewsInv, ReviewsType
  <2> QED BY <2>1, <2>2, ReviewQuiet DEF Refreshing
<1>2. ASSUME NEW c \in Worker,
             \/ Ratings!InsertReview(c) \/ Ratings!UpdateReview(c) \/ Ratings!DeleteReview(c)
             \/ Ratings!Summarise(c) \/ Ratings!UpdateRating(c) \/ Ratings!HostRatingAggregate(c)
             \/ Ratings!SetHostSuperhost(c) \/ Ratings!GiveUp(c)
      PROVE ReviewsInv'
  BY <1>2, ReviewInsert, ReviewUpdate, ReviewDelete, ReviewSummarise, ReviewRate, ReviewBadge, ReviewGivesUp
<1>3. ASSUME NEW c \in Worker, NEW b \in Stay,
             \/ Ratings!RespondToReview(c, b)
             \/ \E k \in Ratings!Kind : Ratings!DeleteOwnReview(c, b, k)
             \/ \E stars \in Rating :
                  \/ Ratings!CreateReview(c, b, stars) \/ Ratings!CreateGuestReview(c, b, stars)
                  \/ \E k \in Ratings!Kind : Ratings!EditOwnReview(c, b, k, stars)
      PROVE ReviewsInv'
  BY <1>3, ReviewLoads
<1> QED BY <1>1, <1>2, <1>3 DEF Ratings!Next

LEMMA ReviewsMeans == ASSUME ReviewsInv PROVE Ratings!RatingIsExplained
BY Zenon DEF ReviewsInv, RatingKnown, BadgeKnown, Refreshing, Ratings!RatingIsExplained

-----------------------------------------------------------------------------
(* Accounts.  A copy that nothing has overtaken says what the row says; and    *)
(* while none other was written and no event overtook another, the row knows   *)
(* what the last event that somebody has looked at said.                       *)

AccountUser == [active : BOOLEAN, role : {"guest", "host"}, prefs : {"all", "noEmail", "none"},
                acct : {0, 1, 2}, enabled : BOOLEAN, name : {"own", "deleted"}]
AccountCall ==
  [op : {"none", "sync", "profile", "email", "push", "suspend", "unsuspend", "erase", "onboard",
         "refresh", "webhook"},
   at : {"idle", "over", "write", "push", "listings", "bookings", "cancel", "summary", "create",
         "ask", "sync", "record"},
   copy : AccountUser, event : Nat, stale : BOOLEAN,
   seen : {"none", "pending", "confirmed", "cancelled"}, failed : SUBSET {"listing", "stay"}]
AccountEvent == [id : Nat, acct : {1, 2}, on : BOOLEAN, answered : BOOLEAN]

AccountShape ==
  /\ row \in AccountUser /\ call \in [Call -> AccountCall]
  /\ provider \in [{1, 2} -> {"none", "off", "on"}]
  /\ \A e \in sent : e \in AccountEvent
  /\ links \subseteq {1, 2} /\ odd \in [active : BOOLEAN, payout : BOOLEAN]
  /\ stay \in {"none", "pending", "confirmed", "cancelled"}
  /\ \A e, f \in sent : e.id = f.id => e = f
  /\ \A c \in Call : call[c].op = "webhook" =>
       /\ call[c].at \in {"sync", "write", "record"}
       /\ \E e \in sent : e.id = call[c].event

\* What a cascade under way has met.
Cascading(c) ==
  call[c].op = "suspend" =>
    /\ call[c].at \in {"bookings", "cancel", "summary"} /\ "listing" \notin call[c].failed =>
         listing = "suspended"
    /\ call[c].at \in {"cancel", "summary"} =>
         /\ call[c].seen = "none" => stay = "none" \/ "listing" \in call[c].failed
         /\ call[c].seen = "confirmed" => stay \in {"confirmed", "cancelled"}
    /\ call[c].at = "summary" /\ call[c].seen = "confirmed" /\ "stay" \notin call[c].failed =>
         stay = "cancelled"

CascadeInv == People!CascadeSwept /\ \A c \in Call : Cascading(c)

FreshCopy(c) == call[c].at \in {"create", "ask", "write"} /\ call[c].stale = FALSE

ActiveCopy(c) ==
  /\ call[c].at = "write" /\ call[c].op \in {"suspend", "erase"} => call[c].copy.active = FALSE
  /\ FreshCopy(c) /\ call[c].op \notin {"suspend", "unsuspend", "erase"} =>
       call[c].copy.active = row.active

ActiveInv ==
  /\ decision \in {"suspend", "erase"} /\ row.active = TRUE => odd.active = TRUE
  /\ \A c \in Call : ActiveCopy(c)

\* The last event of its account, and one that nobody has gone by yet.
Latest(e, s) == \A f \in s : f.acct = e.acct => f.id <= e.id
PastSync(c) == call[c].op = "webhook" /\ call[c].at \in {"write", "record"}
Untold(e) == e.answered = FALSE /\ \A c \in Call : PastSync(c) => call[c].event # e.id

ProviderRight ==
  /\ sent # {} => \E e \in sent : \A f \in sent : f.id <= e.id
  /\ \A e \in sent : Latest(e, sent) => (provider[e.acct] = "on" <=> e.on = TRUE)
  /\ \A a \in {1, 2} : (\A e \in sent : e.acct # a) => provider[a] # "on"

PayoutCopy(c) ==
  /\ call[c].op = "refresh" => call[c].at \in {"ask", "write"} /\ call[c].copy.acct # 0
  /\ call[c].op = "onboard" => /\ call[c].at \in {"create", "write"}
                               /\ call[c].at = "write" => call[c].copy.acct # 0
  /\ FreshCopy(c) =>
       /\ call[c].op = "onboard" =>
            /\ row.acct = 0
            /\ call[c].at = "write" => call[c].copy.enabled = FALSE
       /\ call[c].op # "onboard" => call[c].copy.acct = row.acct
       /\ call[c].op \notin {"onboard", "refresh", "webhook"} => call[c].copy.enabled = row.enabled

\* The provider's answer that is about to be written.
Answering(c) == FreshCopy(c) /\ call[c].op = "refresh" /\ call[c].at = "write"
AnswerHolds(c) ==
  Answering(c) => \/ call[c].copy.enabled = TRUE <=> provider[call[c].copy.acct] = "on"
              \/ \E e \in sent : Latest(e, sent) /\ Untold(e)

\* The event that is about to be written, or to be recorded.
EventHolds(c) ==
  /\ FreshCopy(c) /\ call[c].op = "webhook" /\ call[c].at = "write" =>
       \A e \in sent : /\ e.id = call[c].event => call[c].copy.enabled = e.on
                       /\ e.id > call[c].event => Untold(e)
  /\ call[c].op = "webhook" /\ call[c].at = "record" =>
       \A e \in sent : e.id = call[c].event /\ Latest(e, sent) => row.enabled = e.on

OneAccount ==
  \/ row.acct = 0 /\ links = {} /\ sent = {}
  \/ row.acct # 0 /\ links = {row.acct} /\ \A e \in sent : e.acct = row.acct

FlagRight ==
  /\ OneAccount
  /\ \A c \in Call : AnswerHolds(c) /\ EventHolds(c)
  /\ \A e \in sent : e.answered = TRUE /\ Latest(e, sent) => row.enabled = e.on
  /\ sent = {} => row.enabled = FALSE

PayoutInv ==
  /\ ProviderRight
  /\ \A c \in Call : PayoutCopy(c)
  /\ odd.payout = FALSE => FlagRight

AccountInv == AccountShape /\ CascadeInv /\ ActiveInv /\ PayoutInv

LEMMA AccountInit == People!Init => AccountInv
<1> SUFFICES ASSUME People!Init PROVE AccountInv
  OBVIOUS
<1>1. /\ People!NewUser \in AccountUser /\ [People!NewUser EXCEPT !.role = "host"] \in AccountUser
      /\ People!NewUser.acct = 0 /\ People!NewUser.enabled = FALSE
      /\ [People!NewUser EXCEPT !.role = "host"].acct = 0
      /\ [People!NewUser EXCEPT !.role = "host"].enabled = FALSE
  BY DEF People!NewUser, AccountUser
<1>2. row \in AccountUser /\ row.acct = 0 /\ row.enabled = FALSE
  BY <1>1 DEF People!Init
<1>3. /\ People!Idle \in AccountCall /\ People!Idle.op = "none" /\ People!Idle.at = "idle"
  BY <1>1 DEF People!Idle, AccountCall
<1>4. /\ \A c \in Call : call[c] = People!Idle
      /\ call \in [Call -> AccountCall] /\ decision = "none"
      /\ provider = [a \in {1, 2} |-> "none"] /\ sent = {} /\ links = {} /\ cascade = {}
      /\ odd = [active |-> FALSE, payout |-> FALSE] /\ stay = "none"
  BY <1>3 DEF People!Init, People!Account
<1>5. AccountShape
  BY <1>2, <1>3, <1>4 DEF AccountShape
<1>6. CascadeInv
  BY <1>3, <1>4 DEF CascadeInv, Cascading, People!CascadeSwept
<1>7. ActiveInv
  BY <1>3, <1>4 DEF ActiveInv, ActiveCopy, FreshCopy
<1>8. PayoutInv
  <2>1. ProviderRight
    BY <1>4 DEF ProviderRight
  <2>2. \A c \in Call : PayoutCopy(c) /\ AnswerHolds(c) /\ EventHolds(c)
    BY <1>3, <1>4 DEF PayoutCopy, AnswerHolds, EventHolds, Answering, FreshCopy
  <2> QED BY <1>2, <1>4, <2>1, <2>2 DEF PayoutInv, FlagRight, OneAccount
<1> QED BY <1>5, <1>6, <1>7, <1>8 DEF AccountInv

LEMMA AccountMeans == AccountInv => People!AccountIsExplained
<1> SUFFICES ASSUME AccountInv PROVE People!AccountIsExplained
  OBVIOUS
<1>1. row \in AccountUser /\ odd \in [active : BOOLEAN, payout : BOOLEAN]
  BY DEF AccountInv, AccountShape
<1>2. People!ShutOut
  <2>1. row.active \in BOOLEAN /\ odd.active \in BOOLEAN
    BY <1>1 DEF AccountUser
  <2>2. decision \in {"suspend", "erase"} /\ row.active = TRUE => odd.active = TRUE
    BY DEF AccountInv, ActiveInv
  <2> QED BY <2>1, <2>2 DEF People!ShutOut
<1>3. People!FlagFollows
  <2> SUFFICES ASSUME row.acct # 0, row.enabled # (provider[row.acct] = "on"), odd.payout = FALSE
               PROVE  \E e \in sent : e.acct = row.acct /\ ~e.answered
    BY <1>1 DEF People!FlagFollows
  <2>1. FlagRight /\ ProviderRight /\ row.acct \in {1, 2} /\ row.enabled \in BOOLEAN
    BY <1>1 DEF AccountInv, PayoutInv, AccountUser
  <2>2. \A e \in sent : e.acct = row.acct /\ e \in AccountEvent
    BY <2>1 DEF FlagRight, OneAccount, AccountInv, AccountShape
  <2>3. CASE sent = {}
    <3>1. row.enabled = FALSE /\ provider[row.acct] # "on"
      BY <2>1, <2>3 DEF FlagRight, ProviderRight
    <3> QED BY <3>1
  <2>4. CASE \E e \in sent : Latest(e, sent)
    <3>1. PICK e \in sent : Latest(e, sent)
      BY <2>4
    <3>2. (provider[row.acct] = "on" <=> e.on = TRUE) /\ e.on \in BOOLEAN /\ e.answered \in BOOLEAN
      BY <2>1, <2>2, <3>1 DEF ProviderRight, AccountEvent
    <3>3. e.answered = TRUE => row.enabled = e.on
      BY <2>1, <3>1 DEF FlagRight
    <3>4. row.enabled # e.on
      BY <2>1, <3>2
    <3> QED BY <2>2, <3>1, <3>2, <3>3, <3>4
  <2>5. sent # {} => \E e \in sent : Latest(e, sent)
    BY <2>1 DEF ProviderRight, Latest
  <2> QED BY <2>3, <2>4, <2>5
<1> QED BY <1>2, <1>3 DEF People!AccountIsExplained, AccountInv, CascadeInv

-----------------------------------------------------------------------------
(* The cascade.                                                              *)

\* A call is where it was in its cascade, or in none.
KeepsCascade(c) ==
  call'[c].op = "suspend" =>
    \/ call'[c].at \notin {"bookings", "cancel", "summary"}
    \/ /\ call[c].op = "suspend" /\ call'[c].at = call[c].at
       /\ call'[c].seen = call[c].seen /\ call'[c].failed = call[c].failed

LEMMA CascadeStays ==
  ASSUME CascadeInv, UNCHANGED <<listing, stay, cascade>>, \A d \in Call : KeepsCascade(d)
  PROVE  CascadeInv'
<1>1. People!CascadeSwept'
  BY DEF CascadeInv, People!CascadeSwept
<1>2. ASSUME NEW d \in Call PROVE Cascading(d)'
  BY <1>2 DEF CascadeInv, Cascading, KeepsCascade
<1> QED BY <1>1, <1>2 DEF CascadeInv

\* The booking moves on, other than by the cascade: never from what a cascade has
\* met to what it would have cancelled.
LEMMA StayMoves ==
  ASSUME AccountShape, CascadeInv, UNCHANGED <<listing, cascade, call>>,
         \/ listing = "published" /\ stay = "none" /\ stay' = "pending"
         \/ stay = "pending" /\ stay' = "confirmed"
         \/ stay \in {"pending", "confirmed"} /\ stay' = "cancelled"
  PROVE  CascadeInv'
<1>1. People!CascadeSwept'
  BY DEF CascadeInv, People!CascadeSwept
<1>2. ASSUME NEW d \in Call PROVE Cascading(d)'
  BY <1>2 DEF CascadeInv, Cascading
<1> QED BY <1>1, <1>2 DEF CascadeInv

\* One step of the cascade of call c.
LEMMA CascadeMoves ==
  ASSUME AccountShape, CascadeInv, NEW c \in Call, NEW rec \in AccountCall,
         call' = [call EXCEPT ![c] = rec], listing' \in {listing, "suspended"},
         \/ stay' = stay
         \/ stay = "confirmed" /\ stay' = "cancelled",
         Cascading(c)',
         \A w \in cascade' : \/ w \in cascade
                             \/ /\ "listing" \notin w.failed => listing' = "suspended"
                                /\ w.seen = "none" => stay' = "none" \/ "listing" \in w.failed
                                /\ w.seen = "confirmed" /\ "stay" \notin w.failed => stay' = "cancelled"
  PROVE  CascadeInv'
<1>1. ASSUME NEW w \in cascade'
      PROVE  /\ "listing" \notin w.failed => listing' = "suspended"
             /\ w.seen = "none" => stay' = "none" \/ "listing" \in w.failed
             /\ w.seen = "confirmed" /\ "stay" \notin w.failed => stay' = "cancelled"
  BY <1>1 DEF CascadeInv, People!CascadeSwept
<1>2. ASSUME NEW d \in Call PROVE Cascading(d)'
  <2>1. CASE d = c
    BY <2>1
  <2>2. CASE d # c
    <3>1. call'[d] = call[d]
      BY <2>2 DEF AccountShape
    <3> QED BY <3>1 DEF CascadeInv, Cascading
  <2> QED BY <2>1, <2>2
<1> QED BY <1>1, <1>2 DEF CascadeInv, People!CascadeSwept

-----------------------------------------------------------------------------
(* Steps of one call that write nothing.                                     *)

LEMMA QuietCall ==
  ASSUME AccountInv, NEW c \in Call, NEW rec \in AccountCall, call' = [call EXCEPT ![c] = rec],
         UNCHANGED <<row, sent, decision, odd, links>>,
         stay' \in {"none", "pending", "confirmed", "cancelled"},
         provider' \in [{1, 2} -> {"none", "off", "on"}],
         \A a \in {1, 2} : provider'[a] = "on" <=> provider[a] = "on",
         rec.op = "webhook" => /\ rec.at \in {"sync", "write", "record"}
                               /\ \E e \in sent : e.id = rec.event,
         PastSync(c)' => PastSync(c) /\ rec.event = call[c].event,
         ActiveCopy(c)', PayoutCopy(c)',
         odd.payout = FALSE => AnswerHolds(c)' /\ EventHolds(c)'
  PROVE  AccountShape' /\ ActiveInv' /\ PayoutInv'
<1>1. /\ AccountShape /\ ActiveInv /\ PayoutInv /\ DOMAIN call = Call
      /\ \A d \in Call : d # c => call'[d] = call[d]
      /\ call'[c] = rec
  BY DEF AccountInv, AccountShape
<1>2. AccountShape'
  BY <1>1 DEF AccountShape
<1>3. ActiveInv'
  BY <1>1 DEF ActiveInv, ActiveCopy, FreshCopy
<1>4. PayoutInv'
  <2>1. ProviderRight'
    BY <1>1 DEF PayoutInv, ProviderRight, Latest, AccountShape, AccountEvent
  <2>2. \A d \in Call : PayoutCopy(d)'
    BY <1>1 DEF PayoutInv, PayoutCopy, FreshCopy
  <2>3. ASSUME odd.payout = FALSE PROVE FlagRight'
    <3>1. FlagRight
      BY <1>1, <2>3 DEF PayoutInv
    <3>2. \A d \in Call : PastSync(d)' => PastSync(d) /\ call'[d].event = call[d].event
      BY <1>1 DEF PastSync
    <3>3. \A e \in sent : Untold(e) => Untold(e)'
      BY <3>2 DEF Untold
    <3>4. ASSUME NEW d \in Call, d # c PROVE AnswerHolds(d)' /\ EventHolds(d)'
      <4>1. AnswerHolds(d) /\ EventHolds(d)
        BY <3>1 DEF FlagRight
      <4>2. call'[d] = call[d]
        BY <1>1, <3>4
      <4>3. AnswerHolds(d)'
        <5> SUFFICES ASSUME Answering(d)', ~(\E e \in sent : Latest(e, sent) /\ Untold(e)')
                     PROVE  call[d].copy.enabled = TRUE <=> provider'[call[d].copy.acct] = "on"
          BY <4>2 DEF AnswerHolds, Latest
        <5>1. Answering(d)
          BY <4>2 DEF Answering, FreshCopy
        <5>2. call[d].copy.enabled = TRUE <=> provider[call[d].copy.acct] = "on"
          BY <3>3, <4>1, <5>1 DEF AnswerHolds
        <5>3. call[d].copy.acct \in {1, 2}
          <6>1. call[d].op = "refresh" => call[d].copy.acct # 0
            BY <1>1 DEF PayoutInv, PayoutCopy
          <6>2. call[d].copy.acct \in {0, 1, 2}
            BY <1>1 DEF AccountShape, AccountCall, AccountUser
          <6> QED BY <5>1, <6>1, <6>2 DEF Answering
        <5> QED BY <5>2, <5>3
      <4>4. EventHolds(d)'
        BY <3>3, <4>1, <4>2 DEF EventHolds, FreshCopy, Latest
      <4> QED BY <4>3, <4>4
    <3>5. \A d \in Call : AnswerHolds(d)' /\ EventHolds(d)'
      BY <2>3, <3>4
    <3>6. OneAccount'
      BY <3>1 DEF FlagRight, OneAccount
    <3>7. /\ \A e \in sent' : e.answered = TRUE /\ Latest(e, sent)' => row'.enabled = e.on
          /\ sent' = {} => row'.enabled = FALSE
      BY <3>1 DEF FlagRight, Latest
    <3> QED BY <3>5, <3>6, <3>7 DEF FlagRight, Latest
  <2> QED BY <2>1, <2>2, <2>3 DEF PayoutInv
<1> QED BY <1>2, <1>3, <1>4

\* What a call's record holds once it has loaded the row, and when it is over.
LEMMA LoadedRecord ==
  ASSUME NEW op, NEW at, NEW new
  PROVE  LET rec == [People!Idle EXCEPT !.op = op, !.at = at, !.copy = new]
         IN  /\ rec.op = op /\ rec.at = at /\ rec.copy = new /\ rec.event = 0
             /\ rec.stale = FALSE /\ rec.seen = "none" /\ rec.failed = {}
<1>1. /\ DOMAIN People!Idle = {"op", "at", "copy", "event", "stale", "seen", "failed"}
      /\ People!Idle.event = 0 /\ People!Idle.stale = FALSE
      /\ People!Idle.seen = "none" /\ People!Idle.failed = {}
  BY DEF People!Idle
<1> QED BY <1>1

LEMMA LoadedCall ==
  ASSUME NEW op \in {"sync", "profile", "email", "push", "suspend", "unsuspend", "erase", "onboard",
                     "refresh"},
         NEW at \in {"write", "create", "ask"}, NEW new \in AccountUser
  PROVE  [People!Idle EXCEPT !.op = op, !.at = at, !.copy = new] \in AccountCall
<1>1. People!Idle \in AccountCall
  <2>1. People!NewUser \in AccountUser
    BY DEF People!NewUser, AccountUser
  <2> QED BY <2>1 DEF People!Idle, AccountCall
<1> DEFINE one == [People!Idle EXCEPT !.op = op]
<1>2. one \in AccountCall
  BY <1>1 DEF AccountCall
<1> HIDE DEF one
<1> DEFINE two == [one EXCEPT !.at = at]
<1>3. two \in AccountCall
  BY <1>2 DEF AccountCall
<1> HIDE DEF two
<1>4. [two EXCEPT !.copy = new] \in AccountCall
  BY <1>3 DEF AccountCall
<1>5. [People!Idle EXCEPT !.op = op, !.at = at, !.copy = new] = [two EXCEPT !.copy = new]
  BY DEF one, two
<1> QED BY <1>4, <1>5

LEMMA OverRecord ==
  LET rec == [People!Idle EXCEPT !.at = "over"]
  IN  rec \in AccountCall /\ rec.op = "none" /\ rec.at = "over"
<1>1. People!NewUser \in AccountUser
  BY DEF People!NewUser, AccountUser
<1> QED BY <1>1 DEF People!Idle, AccountCall

LEMMA Loads ==
  ASSUME AccountInv, NEW c \in Call, NEW op, NEW at, NEW new \in AccountUser,
         call' = [call EXCEPT ![c] = [People!Idle EXCEPT !.op = op, !.at = at, !.copy = new]],
         UNCHANGED <<row, provider, sent, listing, stay, decision, cascade, odd, links>>,
         new.acct = row.acct, new.enabled = row.enabled,
         \/ op \in {"sync", "profile", "email", "push"} /\ at = "write" /\ new.active = row.active
         \/ op \in {"suspend", "erase"} /\ at = "write" /\ new.active = FALSE
         \/ op = "unsuspend" /\ at = "write"
         \/ op = "onboard" /\ at = "create" /\ row.acct = 0 /\ new.active = row.active
         \/ op = "refresh" /\ at = "ask" /\ row.acct # 0 /\ new.active = row.active
  PROVE  AccountInv'
<1> DEFINE rec == [People!Idle EXCEPT !.op = op, !.at = at, !.copy = new]
<1>0. /\ rec.op = op /\ rec.at = at /\ rec.copy = new /\ rec.event = 0
      /\ rec.stale = FALSE /\ rec.seen = "none" /\ rec.failed = {}
  BY LoadedRecord, Zenon
<1>00. rec \in AccountCall
  BY LoadedCall, Zenon
<1>1. /\ rec.op = op /\ rec.at = at /\ rec.copy = new /\ rec.event = 0
      /\ rec.stale = FALSE /\ rec.seen = "none" /\ rec.failed = {} /\ rec \in AccountCall
  BY <1>0, <1>00
<1>2. call' = [call EXCEPT ![c] = rec]
  OBVIOUS
<1> HIDE DEF rec
<1>3. /\ AccountShape /\ CascadeInv /\ DOMAIN call = Call
  BY DEF AccountInv, AccountShape
<1>4. call'[c] = rec /\ \A d \in Call : d # c => call'[d] = call[d]
  BY <1>2, <1>3
<1>5. ActiveCopy(c)' /\ PayoutCopy(c)' /\ ~PastSync(c)'
  BY <1>1, <1>4 DEF ActiveCopy, PayoutCopy, FreshCopy, PastSync
<1>6. AnswerHolds(c)' /\ EventHolds(c)'
  BY <1>1, <1>4 DEF AnswerHolds, Answering, EventHolds
<1>61. /\ provider' \in [{1, 2} -> {"none", "off", "on"}]
       /\ stay' \in {"none", "pending", "confirmed", "cancelled"}
  BY <1>3 DEF AccountShape
<1>62. rec \in AccountCall /\ rec.op # "webhook"
  BY <1>1
<1>7. AccountShape' /\ ActiveInv' /\ PayoutInv'
  BY <1>2, <1>5, <1>6, <1>61, <1>62, QuietCall
<1>8. \A d \in Call : KeepsCascade(d)
  BY <1>1, <1>4 DEF KeepsCascade
<1>9. CascadeInv'
  BY <1>3, <1>8, CascadeStays
<1> QED BY <1>7, <1>9 DEF AccountInv

\* A call ends, or moves in its cascade.
LEMMA Moves ==
  ASSUME AccountInv, NEW c \in Call, NEW rec \in AccountCall,
         call' = [call EXCEPT ![c] = rec],
         UNCHANGED <<row, provider, sent, decision, odd, links>>,
         stay' \in {"none", "pending", "confirmed", "cancelled"},
         \/ rec.op = "none" /\ rec.at = "over"
         \/ rec.op = "suspend" /\ rec.at \in {"bookings", "cancel", "summary"}
  PROVE  AccountShape' /\ ActiveInv' /\ PayoutInv'
<1>1. call'[c] = rec /\ AccountShape
  BY DEF AccountInv, AccountShape
<1>2. ActiveCopy(c)' /\ PayoutCopy(c)' /\ ~PastSync(c)' /\ AnswerHolds(c)' /\ EventHolds(c)'
  BY <1>1 DEF ActiveCopy, PayoutCopy, FreshCopy, PastSync, AnswerHolds, Answering, EventHolds
<1> QED BY <1>1, <1>2, QuietCall DEF AccountShape

LEMMA Ends ==
  ASSUME AccountInv, NEW c \in Call, People!Done(c) = call',
         UNCHANGED <<row, provider, sent, decision, odd, links, listing, stay, cascade>>
  PROVE  AccountInv'
<1> DEFINE rec == [People!Idle EXCEPT !.at = "over"]
<1>1. rec \in AccountCall /\ rec.op = "none" /\ rec.at = "over" /\ call' = [call EXCEPT ![c] = rec]
  BY OverRecord DEF People!Done
<1> HIDE DEF rec
<1>2. AccountShape /\ CascadeInv
  BY DEF AccountInv
<1>3. AccountShape' /\ ActiveInv' /\ PayoutInv'
  BY <1>1, <1>2, Moves DEF AccountShape
<1>4. \A d \in Call : KeepsCascade(d)
  BY <1>1, <1>2 DEF KeepsCascade, AccountShape
<1> QED BY <1>2, <1>3, <1>4, CascadeStays DEF AccountInv

-----------------------------------------------------------------------------
(* Calls of the owner and of the administrator.                              *)

\* What the aggregate's methods leave of a user.
LEMMA ChangedUser ==
  ASSUME NEW u \in AccountUser
  PROVE  /\ \A v \in {People!ElevateRole(u), People!PromoteToHost(u), People!SetEmailPreferences(u),
                      People!SetPushPreferences(u)} :
              v \in AccountUser /\ v.acct = u.acct /\ v.enabled = u.enabled /\ v.active = u.active
         /\ \A v \in {People!Suspended(u), People!Anonymize(u), People!Unsuspended(u)} :
              v \in AccountUser /\ v.acct = u.acct /\ v.enabled = u.enabled
         /\ People!Suspended(u).active = FALSE /\ People!Anonymize(u).active = FALSE
<1>1. u = [active |-> u.active, role |-> u.role, prefs |-> u.prefs, acct |-> u.acct,
           enabled |-> u.enabled, name |-> u.name]
      /\ u.active \in BOOLEAN /\ u.role \in {"guest", "host"} /\ u.prefs \in {"all", "noEmail", "none"}
      /\ u.acct \in {0, 1, 2} /\ u.enabled \in BOOLEAN /\ u.name \in {"own", "deleted"}
  BY DEF AccountUser
<1>2. /\ People!ElevateRole(u) \in AccountUser /\ People!ElevateRole(u).acct = u.acct
      /\ People!ElevateRole(u).enabled = u.enabled /\ People!ElevateRole(u).active = u.active
      /\ People!PromoteToHost(u) = People!ElevateRole(u)
  BY <1>1 DEF People!ElevateRole, People!PromoteToHost, AccountUser
<1>3. /\ People!SetEmailPreferences(u) \in AccountUser /\ People!SetEmailPreferences(u).acct = u.acct
      /\ People!SetEmailPreferences(u).enabled = u.enabled
      /\ People!SetEmailPreferences(u).active = u.active
  BY <1>1 DEF People!SetEmailPreferences, AccountUser
<1>4. /\ People!SetPushPreferences(u) \in AccountUser /\ People!SetPushPreferences(u).acct = u.acct
      /\ People!SetPushPreferences(u).enabled = u.enabled
      /\ People!SetPushPreferences(u).active = u.active
  BY <1>1 DEF People!SetPushPreferences, AccountUser
<1>5. /\ People!Suspended(u) \in AccountUser /\ People!Suspended(u).acct = u.acct
      /\ People!Suspended(u).enabled = u.enabled /\ People!Suspended(u).active = FALSE
  BY <1>1 DEF People!Suspended, AccountUser
<1>6. /\ People!Unsuspended(u) \in AccountUser /\ People!Unsuspended(u).acct = u.acct
      /\ People!Unsuspended(u).enabled = u.enabled
  BY <1>1 DEF People!Unsuspended, AccountUser
<1>7. /\ People!Anonymize(u) \in AccountUser /\ People!Anonymize(u).acct = u.acct
      /\ People!Anonymize(u).enabled = u.enabled /\ People!Anonymize(u).active = FALSE
  BY <1>1 DEF People!Anonymize, AccountUser
<1>10. \A v \in {People!ElevateRole(u), People!PromoteToHost(u), People!SetEmailPreferences(u),
                 People!SetPushPreferences(u)} :
         v \in AccountUser /\ v.acct = u.acct /\ v.enabled = u.enabled /\ v.active = u.active
  BY <1>2, <1>3, <1>4
<1>11. \A v \in {People!Suspended(u), People!Anonymize(u), People!Unsuspended(u)} :
         v \in AccountUser /\ v.acct = u.acct /\ v.enabled = u.enabled
  BY <1>5, <1>6, <1>7
<1> QED BY <1>5, <1>7, <1>10, <1>11

LEMMA LinkedUser ==
  ASSUME NEW u \in AccountUser, NEW a \in {1, 2}, NEW v, v = People!LinkPayoutAccount(u, a)
  PROVE  v \in AccountUser /\ v.acct = a /\ v.enabled = FALSE /\ v.active = u.active
BY DEF People!LinkPayoutAccount, AccountUser

LEMMA FlaggedUser ==
  ASSUME NEW u \in AccountUser, NEW on \in BOOLEAN, NEW v, v = People!SetPayoutsEnabled(u, on)
  PROVE  v \in AccountUser /\ v.acct = u.acct /\ v.enabled = on /\ v.active = u.active
BY DEF People!SetPayoutsEnabled, AccountUser

LEMMA LoadSteps ==
  ASSUME AccountInv, NEW c \in Call,
         \/ People!SyncFromIdentity(c) \/ People!UpdateProfile(c) \/ People!BecomeHost(c)
         \/ People!UpdateEmailPreferences(c) \/ People!UpdatePushPreferences(c)
         \/ People!Suspend(c) \/ People!Unsuspend(c) \/ People!Erase(c)
         \/ People!StartOnboarding(c) \/ People!RefreshAccountStatus(c)
  PROVE  AccountInv'
<1>1. row \in AccountUser
  BY DEF AccountInv, AccountShape
<1> DEFINE Rec(op, at, new) == [People!Idle EXCEPT !.op = op, !.at = at, !.copy = new]
           Quiet == UNCHANGED <<row, provider, sent, listing, stay, decision, cascade, odd, links>>
<1>2. CASE People!SyncFromIdentity(c)
  <2>1. call' = [call EXCEPT ![c] = Rec("sync", "write", People!ElevateRole(row))] /\ Quiet
    BY <1>2 DEF People!SyncFromIdentity, People!Load
  <2>2. /\ People!ElevateRole(row) \in AccountUser /\ People!ElevateRole(row).acct = row.acct
        /\ People!ElevateRole(row).enabled = row.enabled /\ People!ElevateRole(row).active = row.active
    BY <1>1, ChangedUser
  <2> QED BY <2>1, <2>2, Loads
<1>3. CASE People!UpdateProfile(c)
  <2>1. call' = [call EXCEPT ![c] = Rec("profile", "write", row)] /\ Quiet
    BY <1>3 DEF People!UpdateProfile, People!Load
  <2> QED BY <1>1, <2>1, Loads
<1>4. CASE People!BecomeHost(c)
  <2>1. call' = [call EXCEPT ![c] = Rec("profile", "write", People!PromoteToHost(row))] /\ Quiet
    BY <1>4 DEF People!BecomeHost, People!Load
  <2>2. /\ People!PromoteToHost(row) \in AccountUser /\ People!PromoteToHost(row).acct = row.acct
        /\ People!PromoteToHost(row).enabled = row.enabled /\ People!PromoteToHost(row).active = row.active
    BY <1>1, ChangedUser
  <2> QED BY <2>1, <2>2, Loads
<1>5. CASE People!UpdateEmailPreferences(c)
  <2>1. call' = [call EXCEPT ![c] = Rec("email", "write", People!SetEmailPreferences(row))] /\ Quiet
    BY <1>5 DEF People!UpdateEmailPreferences, People!Load
  <2>2. /\ People!SetEmailPreferences(row) \in AccountUser /\ People!SetEmailPreferences(row).acct = row.acct
        /\ People!SetEmailPreferences(row).enabled = row.enabled /\ People!SetEmailPreferences(row).active = row.active
    BY <1>1, ChangedUser
  <2> QED BY <2>1, <2>2, Loads
<1>6. CASE People!UpdatePushPreferences(c)
  <2>1. call' = [call EXCEPT ![c] = Rec("push", "write", People!SetPushPreferences(row))] /\ Quiet
    BY <1>6 DEF People!UpdatePushPreferences
  <2>2. /\ People!SetPushPreferences(row) \in AccountUser /\ People!SetPushPreferences(row).acct = row.acct
        /\ People!SetPushPreferences(row).enabled = row.enabled /\ People!SetPushPreferences(row).active = row.active
    BY <1>1, ChangedUser
  <2> QED BY <2>1, <2>2, Loads
<1>7. CASE People!Suspend(c)
  <2>1. call' = [call EXCEPT ![c] = Rec("suspend", "write", People!Suspended(row))] /\ Quiet
    BY <1>7 DEF People!Suspend, People!Load
  <2>2. /\ People!Suspended(row) \in AccountUser /\ People!Suspended(row).acct = row.acct
        /\ People!Suspended(row).enabled = row.enabled /\ People!Suspended(row).active = FALSE
    BY <1>1, ChangedUser
  <2> QED BY <2>1, <2>2, Loads
<1>8. CASE People!Unsuspend(c)
  <2>1. call' = [call EXCEPT ![c] = Rec("unsuspend", "write", People!Unsuspended(row))] /\ Quiet
    BY <1>8 DEF People!Unsuspend, People!Load
  <2>2. /\ People!Unsuspended(row) \in AccountUser /\ People!Unsuspended(row).acct = row.acct
        /\ People!Unsuspended(row).enabled = row.enabled
    BY <1>1, ChangedUser
  <2> QED BY <2>1, <2>2, Loads
<1>9. CASE People!Erase(c)
  <2>1. call' = [call EXCEPT ![c] = Rec("erase", "write", People!Anonymize(row))] /\ Quiet
    BY <1>9 DEF People!Erase, People!Load
  <2>2. /\ People!Anonymize(row) \in AccountUser /\ People!Anonymize(row).acct = row.acct
        /\ People!Anonymize(row).enabled = row.enabled /\ People!Anonymize(row).active = FALSE
    BY <1>1, ChangedUser
  <2> QED BY <2>1, <2>2, Loads
<1>10. CASE People!StartOnboarding(c)
  <2>1. call' = [call EXCEPT ![c] = Rec("onboard", "create", row)] /\ Quiet /\ row.acct = 0
    BY <1>10 DEF People!StartOnboarding, People!Load
  <2> QED BY <1>1, <2>1, Loads
<1>11. CASE People!RefreshAccountStatus(c)
  <2>1. call' = [call EXCEPT ![c] = Rec("refresh", "ask", row)] /\ Quiet /\ row.acct # 0
    BY <1>11 DEF People!RefreshAccountStatus, People!Load
  <2> QED BY <1>1, <2>1, Loads
<1> QED BY <1>2, <1>3, <1>4, <1>5, <1>6, <1>7, <1>8, <1>9, <1>10, <1>11

-----------------------------------------------------------------------------
(* The write of a row.                                                       *)

\* A call that no event has been answered by writes the flag that the last event
\* somebody has looked at left, and a webhook the flag of its own event.
LEMMA CopySays ==
  ASSUME AccountInv, odd.payout = FALSE, NEW c \in Call, call[c].at = "write", call[c].stale = FALSE,
         NEW e \in sent, Latest(e, sent)
  PROVE  /\ e.answered = TRUE => call[c].copy.enabled = e.on
         /\ \A d \in Call : call[d].op = "webhook" /\ call[d].at = "record" /\ call[d].event = e.id =>
              call[c].copy.enabled = e.on
         /\ call[c].op = "webhook" /\ call[c].event = e.id => call[c].copy.enabled = e.on
<1> DEFINE Gone(f) == f.answered = TRUE \/ \E d \in Call : /\ call[d].op = "webhook"
                                                           /\ call[d].at = "record" /\ call[d].event = f.id
<1>1. /\ FlagRight /\ ProviderRight /\ AccountShape /\ PayoutCopy(c) /\ FreshCopy(c)
      /\ AnswerHolds(c) /\ EventHolds(c)
  BY DEF AccountInv, PayoutInv, FlagRight, FreshCopy
<1>2. /\ e \in AccountEvent /\ e.id \in Nat /\ row.acct = e.acct /\ row.acct # 0
      /\ \A f \in sent : f.acct = e.acct /\ f.id <= e.id /\ f.id \in Nat
  BY <1>1 DEF FlagRight, OneAccount, AccountShape, AccountEvent, Latest
<1>3. ASSUME NEW f \in sent, Gone(f) PROVE ~Untold(f)
  BY <1>3 DEF Untold, PastSync
<1>4. Gone(e) => row.enabled = e.on
  <2>1. e.answered = TRUE => row.enabled = e.on
    BY <1>1 DEF FlagRight
  <2>2. ASSUME NEW d \in Call, call[d].op = "webhook", call[d].at = "record", call[d].event = e.id
        PROVE row.enabled = e.on
    BY <1>1, <2>2 DEF FlagRight, EventHolds
  <2> QED BY <2>1, <2>2
<1>5. call[c].op # "onboard"
  BY <1>1, <1>2 DEF PayoutCopy
<1>6. CASE call[c].op = "refresh"
  <2>1. call[c].copy.acct = e.acct
    BY <1>1, <1>2, <1>6 DEF PayoutCopy
  <2>2. \A f \in sent : Latest(f, sent) => f = e
    <3>1. \A f \in sent : Latest(f, sent) => f.id = e.id
      BY <1>2 DEF Latest
    <3> QED BY <1>1, <3>1 DEF AccountShape
  <2>3. Gone(e) => (call[c].copy.enabled = TRUE <=> provider[e.acct] = "on")
    BY <1>1, <1>3, <1>6, <2>1, <2>2 DEF AnswerHolds, Answering
  <2>4. provider[e.acct] = "on" <=> e.on = TRUE
    BY <1>1 DEF ProviderRight
  <2>5. call[c].copy.enabled \in BOOLEAN /\ e.on \in BOOLEAN
    BY <1>1, <1>2 DEF AccountShape, AccountCall, AccountUser, AccountEvent
  <2>6. Gone(e) => call[c].copy.enabled = e.on
    BY <2>3, <2>4, <2>5
  <2> QED BY <1>6, <2>6
<1>7. CASE call[c].op = "webhook"
  <2>1. \A f \in sent : /\ f.id = call[c].event => call[c].copy.enabled = f.on
                        /\ f.id > call[c].event => Untold(f)
    BY <1>1, <1>7 DEF EventHolds
  <2>2. PICK f \in sent : f.id = call[c].event
    BY <1>1, <1>7 DEF AccountShape
  <2>3. e.id = call[c].event \/ e.id > call[c].event
    BY <1>2, <2>2
  <2>4. e.id = call[c].event => call[c].copy.enabled = e.on
    BY <2>1, Zenon
  <2>5. e.id > call[c].event => Untold(e)
    BY <2>1, Zenon
  <2>6. Gone(e) => ~Untold(e)
    BY <1>3
  <2>7. Gone(e) => call[c].copy.enabled = e.on
    <3> HIDE DEF Gone
    <3> QED BY <2>3, <2>4, <2>5, <2>6, Zenon
  <2>8. call[c].op = "webhook" /\ call[c].event = e.id => call[c].copy.enabled = e.on
    BY <2>4, Zenon
  <2> QED BY <2>7, <2>8, Zenon
<1>8. CASE call[c].op \notin {"refresh", "webhook"}
  <2>1. call[c].copy.enabled = row.enabled
    BY <1>1, <1>5, <1>8 DEF PayoutCopy
  <2> QED BY <1>4, <1>8, <2>1
<1> QED BY <1>6, <1>7, <1>8

\* Whoever held a copy when somebody else wrote holds an old one now.
Outdated(c, next, was) ==
  /\ was \in [Call -> AccountCall] /\ was[c] = next[c]
  /\ \A d \in Call : /\ was[d].op = next[d].op /\ was[d].at = next[d].at
                     /\ was[d].copy = next[d].copy /\ was[d].event = next[d].event
                     /\ was[d].seen = next[d].seen /\ was[d].failed = next[d].failed
                     /\ d # c /\ next[d].at \in {"create", "ask", "write"} => was[d].stale = TRUE

LEMMA StaledCall ==
  ASSUME NEW r \in AccountCall, NEW v, v = [r EXCEPT !.stale = TRUE]
  PROVE  /\ v \in AccountCall /\ v.stale = TRUE
         /\ v.op = r.op /\ v.at = r.at /\ v.copy = r.copy
         /\ v.event = r.event /\ v.seen = r.seen /\ v.failed = r.failed
BY DEF AccountCall

LEMMA OutdatesCall ==
  ASSUME NEW c \in Call, NEW next \in [Call -> AccountCall], NEW was, was = People!Outdates(c, next)
  PROVE  Outdated(c, next, was)
<1>1. /\ DOMAIN was = Call
      /\ was = [d \in Call |-> was[d]]
      /\ \A d \in Call : was[d] = IF d # c /\ next[d].at \in {"create", "ask", "write", "sync"}
                                  THEN [next[d] EXCEPT !.stale = TRUE] ELSE next[d]
  BY DEF People!Outdates
<1>2. ASSUME NEW d \in Call
      PROVE  /\ was[d] \in AccountCall
             /\ was[d].op = next[d].op /\ was[d].at = next[d].at
             /\ was[d].copy = next[d].copy /\ was[d].event = next[d].event
             /\ was[d].seen = next[d].seen /\ was[d].failed = next[d].failed
             /\ d # c /\ next[d].at \in {"create", "ask", "write"} => was[d].stale = TRUE
  <2> DEFINE old == [next[d] EXCEPT !.stale = TRUE]
  <2>1. /\ old \in AccountCall /\ old.stale = TRUE
        /\ old.op = next[d].op /\ old.at = next[d].at /\ old.copy = next[d].copy
        /\ old.event = next[d].event /\ old.seen = next[d].seen /\ old.failed = next[d].failed
    BY StaledCall
  <2>2. was[d] = IF d # c /\ next[d].at \in {"create", "ask", "write", "sync"} THEN old ELSE next[d]
    BY <1>1
  <2> HIDE DEF old
  <2>3. next[d] \in AccountCall
    OBVIOUS
  <2>4. CASE d # c /\ next[d].at \in {"create", "ask", "write", "sync"}
    <3>1. was[d] = old
      BY <2>2, <2>4
    <3> QED BY <2>1, <3>1
  <2>5. CASE ~(d # c /\ next[d].at \in {"create", "ask", "write", "sync"})
    <3>1. was[d] = next[d]
      BY <2>2, <2>5
    <3> QED BY <2>3, <2>5, <3>1
  <2> QED BY <2>4, <2>5
<1>3. was \in [Call -> AccountCall]
  BY <1>1, <1>2
<1>4. was[c] = next[c]
  BY <1>1
<1> QED BY <1>2, <1>3, <1>4 DEF Outdated

\* Call c writes its copy, and goes on or ends.
LEMMA Written ==
  ASSUME AccountInv, NEW c \in Call, call[c].at = "write", NEW rec \in AccountCall,
         row' = call[c].copy, call' = People!Outdates(c, [call EXCEPT ![c] = rec]),
         rec.at \in {"listings", "push", "record", "over"}, rec.op \notin {"refresh", "onboard"},
         rec.op = "webhook" => call[c].op = "webhook" /\ rec.at = "record" /\ rec.event = call[c].event,
         decision' = IF call[c].op \in People!Decision THEN call[c].op ELSE decision,
         odd' = [active |-> IF call[c].op \in People!Decision THEN FALSE
                            ELSE odd.active \/ (call[c].stale /\ call[c].copy.active),
                 payout |-> odd.payout \/ call[c].stale],
         links' = IF call[c].op = "onboard" THEN links \cup {call[c].copy.acct} ELSE links,
         UNCHANGED <<provider, sent, listing, stay, cascade>>
  PROVE  AccountInv'
<1>1. /\ AccountShape /\ CascadeInv /\ ActiveInv /\ PayoutInv /\ ProviderRight
      /\ call \in [Call -> AccountCall] /\ call[c].copy \in AccountUser /\ call[c].stale \in BOOLEAN
      /\ odd.active \in BOOLEAN /\ odd.payout \in BOOLEAN /\ call[c].copy.active \in BOOLEAN
  BY DEF AccountInv, AccountShape, PayoutInv, AccountCall, AccountUser
<1> DEFINE next == [call EXCEPT ![c] = rec]
<1>2. next \in [Call -> AccountCall] /\ next[c] = rec /\ \A d \in Call : d # c => next[d] = call[d]
  BY <1>1
<1>3. call' = People!Outdates(c, next)
  OBVIOUS
<1> HIDE DEF next
<1>31. /\ call' \in [Call -> AccountCall] /\ call'[c] = next[c]
       /\ \A d \in Call : /\ call'[d].op = next[d].op /\ call'[d].at = next[d].at
                          /\ call'[d].copy = next[d].copy /\ call'[d].event = next[d].event
                          /\ call'[d].seen = next[d].seen /\ call'[d].failed = next[d].failed
                          /\ d # c /\ next[d].at \in {"create", "ask", "write"} =>
                               call'[d].stale = TRUE
  <2>1. Outdated(c, next, call')
    BY <1>2, <1>3, OutdatesCall
  <2> QED BY <2>1, Zenon DEF Outdated
<1>4. /\ call' \in [Call -> AccountCall] /\ call'[c] = rec
      /\ \A d \in Call : d # c => /\ call'[d].op = call[d].op /\ call'[d].at = call[d].at
                                  /\ call'[d].copy = call[d].copy /\ call'[d].event = call[d].event
                                  /\ call'[d].seen = call[d].seen /\ call'[d].failed = call[d].failed
                                  /\ call[d].at \in {"create", "ask", "write"} => call'[d].stale = TRUE
  <2>1. ASSUME NEW d \in Call, d # c
        PROVE  /\ call'[d].op = call[d].op /\ call'[d].at = call[d].at
               /\ call'[d].copy = call[d].copy /\ call'[d].event = call[d].event
               /\ call'[d].seen = call[d].seen /\ call'[d].failed = call[d].failed
               /\ call[d].at \in {"create", "ask", "write"} => call'[d].stale = TRUE
    <3>1. next[d] = call[d]
      BY <1>2, <2>1
    <3>2. /\ call'[d].op = next[d].op /\ call'[d].at = next[d].at
          /\ call'[d].copy = next[d].copy /\ call'[d].event = next[d].event
          /\ call'[d].seen = next[d].seen /\ call'[d].failed = next[d].failed
          /\ next[d].at \in {"create", "ask", "write"} => call'[d].stale = TRUE
      BY <1>31, <2>1
    <3> QED BY ONLY <3>1, <3>2
  <2>2. call'[c] = rec
    BY <1>2, <1>31
  <2> QED BY <1>31, <2>1, <2>2
<1>5. \A d \in Call : ~FreshCopy(d)'
  BY <1>4 DEF FreshCopy
<1>6. odd'.payout = (odd.payout \/ call[c].stale) /\ odd' \in [active : BOOLEAN, payout : BOOLEAN]
  BY <1>1
<1>7. odd'.active = IF call[c].op \in People!Decision THEN FALSE
                    ELSE odd.active \/ (call[c].stale /\ call[c].copy.active)
  OBVIOUS
<1>8. AccountShape'
  <2>1. ASSUME NEW d \in Call, call'[d].op = "webhook"
        PROVE  /\ call'[d].at \in {"sync", "write", "record"}
               /\ \E e \in sent : e.id = call'[d].event
    <3>1. call[d].op = "webhook" /\ call'[d].event = call[d].event
      BY <1>4, <2>1
    <3>2. call'[d].at = call[d].at \/ call'[d].at = "record"
      BY <1>4, <2>1
    <3>3. call[d].at \in {"sync", "write", "record"} /\ \E e \in sent : e.id = call[d].event
      BY <1>1, <3>1 DEF AccountShape
    <3> QED BY <3>1, <3>2, <3>3
  <2>2. links' \subseteq {1, 2}
    <3>2. call[c].op = "onboard" => call[c].copy.acct \in {1, 2}
      BY <1>1 DEF PayoutInv, PayoutCopy, AccountUser
    <3> QED BY <1>1, <3>2 DEF AccountShape
  <2> QED BY <1>1, <1>4, <1>6, <2>1, <2>2 DEF AccountShape
<1>9. ActiveInv'
  <2>1. \A d \in Call : d # c /\ call[d].at = "write" /\ call[d].op \in {"suspend", "erase"} =>
          call[d].copy.active = FALSE
    BY <1>1 DEF ActiveInv, ActiveCopy
  <2>2. \A d \in Call : ActiveCopy(d)'
    BY <1>4, <1>5, <2>1 DEF ActiveCopy
  <2>3. decision' \in {"suspend", "erase"} /\ row'.active = TRUE => odd'.active = TRUE
    <3>1. CASE call[c].op \in People!Decision
      <4>1. decision' = call[c].op /\ (call[c].op \in {"suspend", "erase"} => call[c].copy.active = FALSE)
        BY <1>1, <3>1 DEF ActiveInv, ActiveCopy
      <4> QED BY <4>1
    <3>2. CASE call[c].op \notin People!Decision
      <4>1. decision' = decision /\ odd'.active = (odd.active \/ (call[c].stale /\ call[c].copy.active))
        BY <1>7, <3>2
      <4>2. call[c].stale = FALSE => call[c].copy.active = row.active
        BY <1>1, <3>2 DEF ActiveInv, ActiveCopy, FreshCopy, People!Decision
      <4>3. decision \in {"suspend", "erase"} /\ row.active = TRUE => odd.active = TRUE
        BY <1>1 DEF ActiveInv
      <4>4. row'.active = call[c].copy.active
        OBVIOUS
      <4> QED BY <1>1, <4>1, <4>2, <4>3, <4>4
    <3> QED BY <3>1, <3>2
  <2> QED BY <2>2, <2>3 DEF ActiveInv
<1>10. ProviderRight'
  BY <1>1 DEF ProviderRight, Latest
<1>11. \A d \in Call : PayoutCopy(d)'
  <2>1. ASSUME NEW d \in Call, d # c PROVE PayoutCopy(d)'
    <3>1. PayoutCopy(d)
      BY <1>1 DEF PayoutInv
    <3> QED BY <1>4, <1>5, <2>1, <3>1 DEF PayoutCopy
  <2>2. PayoutCopy(c)'
    BY <1>4, <1>5 DEF PayoutCopy
  <2> QED BY <2>1, <2>2
<1>12. ASSUME odd'.payout = FALSE PROVE FlagRight'
  <2>1. odd.payout = FALSE /\ call[c].stale = FALSE
    BY <1>1, <1>6, <1>12
  <2>2. FlagRight /\ PayoutCopy(c) /\ FreshCopy(c)
    BY <1>1, <2>1 DEF PayoutInv, FreshCopy
  <2>3. ASSUME NEW e \in sent, Latest(e, sent)
        PROVE  /\ e.answered = TRUE => row'.enabled = e.on
               /\ \A d \in Call : call[d].op = "webhook" /\ call[d].at = "record" /\ call[d].event = e.id =>
                    row'.enabled = e.on
               /\ call[c].op = "webhook" /\ call[c].event = e.id => row'.enabled = e.on
    BY <2>1, <2>3, CopySays
  <2>4. OneAccount'
    <3>1. CASE call[c].op = "onboard"
      <4>1. row.acct = 0 /\ call[c].copy.acct # 0
        BY <2>2, <3>1 DEF PayoutCopy
      <4>2. links = {} /\ sent = {}
        BY <2>2, <4>1 DEF FlagRight, OneAccount
      <4> QED BY <3>1, <4>1, <4>2 DEF OneAccount
    <3>2. CASE call[c].op # "onboard"
      <4>1. call[c].copy.acct = row.acct
        BY <2>2, <3>2 DEF PayoutCopy
      <4> QED BY <2>2, <3>2, <4>1 DEF FlagRight, OneAccount
    <3> QED BY <3>1, <3>2
  <2>5. ASSUME NEW d \in Call PROVE AnswerHolds(d)' /\ EventHolds(d)'
    <3>1. ~Answering(d)' /\ ~FreshCopy(d)'
      BY <1>5, <2>5 DEF Answering
    <3>2. ASSUME call'[d].op = "webhook", call'[d].at = "record",
                 NEW e \in sent, e.id = call'[d].event, Latest(e, sent)
          PROVE  row'.enabled = e.on
      <4>1. CASE d = c
        <5>1. call[c].op = "webhook" /\ call[c].event = e.id
          BY <1>4, <3>2, <4>1
        <5> QED BY <2>3, <3>2, <5>1
      <4>2. CASE d # c
        <5>1. call[d].op = "webhook" /\ call[d].at = "record" /\ call[d].event = e.id
          BY <1>4, <3>2, <4>2
        <5> QED BY <2>3, <3>2, <5>1
      <4> QED BY <4>1, <4>2
    <3>3. sent' = sent
      OBVIOUS
    <3>4. EventHolds(d)'
      BY <3>1, <3>2, <3>3 DEF EventHolds, Latest
    <3> QED BY <3>1, <3>4 DEF AnswerHolds
  <2>6. \A e \in sent : e.answered = TRUE /\ Latest(e, sent) => row'.enabled = e.on
    BY <2>3
  <2>7. sent = {} => row'.enabled = FALSE
    <3> SUFFICES ASSUME sent = {} PROVE call[c].copy.enabled = FALSE
      OBVIOUS
    <3>1. call[c].copy.enabled \in BOOLEAN /\ call[c].copy.acct \in {0, 1, 2}
      BY <1>1 DEF AccountUser
    <3>2. CASE call[c].op = "onboard"
      BY <1>1, <2>2, <3>2 DEF PayoutCopy
    <3>3. CASE call[c].op = "webhook"
      BY <1>1, <3>3 DEF AccountShape
    <3>4. CASE call[c].op = "refresh"
      <4>1. call[c].copy.acct \in {1, 2}
        BY <2>2, <3>1, <3>4 DEF PayoutCopy
      <4>2. provider[call[c].copy.acct] # "on"
        BY <1>1, <4>1 DEF ProviderRight
      <4>3. AnswerHolds(c)
        BY <2>2 DEF FlagRight
      <4> QED BY <1>1, <2>2, <3>1, <3>4, <4>2, <4>3 DEF AnswerHolds, Answering
    <3>5. CASE call[c].op \notin {"onboard", "refresh", "webhook"}
      <4>1. call[c].copy.enabled = row.enabled
        BY <2>2, <3>5 DEF PayoutCopy
      <4> QED BY <2>2, <4>1 DEF FlagRight
    <3> QED BY <3>2, <3>3, <3>4, <3>5
  <2>8. sent' = sent
    OBVIOUS
  <2> QED BY <2>4, <2>5, <2>6, <2>7, <2>8 DEF FlagRight, Latest
<1>13. CascadeInv'
  <2>1. \A d \in Call : KeepsCascade(d)
    BY <1>4 DEF KeepsCascade
  <2> QED BY <1>1, <2>1, CascadeStays
<1> QED BY <1>8, <1>9, <1>10, <1>11, <1>12, <1>13 DEF AccountInv, PayoutInv

LEMMA UpdateStep == ASSUME AccountInv, NEW c \in Call, People!Update(c) PROVE AccountInv'
<1> DEFINE next == IF People!Then(call[c].op) = "idle" THEN People!Done(c)
                   ELSE People!Goes(c, People!Then(call[c].op))
<1>1. /\ call[c].at = "write" /\ UNCHANGED <<provider, sent, listing, stay, cascade>>
      /\ \/ /\ row' = call[c].copy /\ call' = People!Outdates(c, next)
            /\ decision' = IF call[c].op \in People!Decision THEN call[c].op ELSE decision
            /\ odd' = [active |-> IF call[c].op \in People!Decision THEN FALSE
                                  ELSE odd.active \/ (call[c].stale /\ call[c].copy.active),
                       payout |-> odd.payout \/ call[c].stale]
            /\ links' = IF call[c].op = "onboard" THEN links \cup {call[c].copy.acct} ELSE links
         \/ /\ call' = People!Done(c) /\ UNCHANGED <<row, decision, odd, links>>
  BY DEF People!Update
<1>2. CASE call' = People!Done(c) /\ UNCHANGED <<row, decision, odd, links>>
  BY <1>1, <1>2, Ends
<1>3. CASE /\ row' = call[c].copy /\ call' = People!Outdates(c, next)
           /\ decision' = IF call[c].op \in People!Decision THEN call[c].op ELSE decision
           /\ odd' = [active |-> IF call[c].op \in People!Decision THEN FALSE
                                 ELSE odd.active \/ (call[c].stale /\ call[c].copy.active),
                      payout |-> odd.payout \/ call[c].stale]
           /\ links' = IF call[c].op = "onboard" THEN links \cup {call[c].copy.acct} ELSE links
  <2>1. call[c] \in AccountCall
    BY DEF AccountInv, AccountShape
  <2> DEFINE rec == IF People!Then(call[c].op) = "idle" THEN [People!Idle EXCEPT !.at = "over"]
                    ELSE [call[c] EXCEPT !.at = People!Then(call[c].op)]
  <2>2. next = [call EXCEPT ![c] = rec]
    BY DEF People!Done, People!Goes, AccountInv, AccountShape
  <2>3. /\ rec \in AccountCall /\ rec.at \in {"listings", "push", "record", "over"}
        /\ rec.op \notin {"refresh", "onboard"}
        /\ rec.op = "webhook" => /\ call[c].op = "webhook" /\ rec.at = "record"
                                 /\ rec.event = call[c].event
    <3>1. CASE call[c].op \in {"suspend", "email", "webhook"}
      <4>1. /\ People!Then(call[c].op) \in {"listings", "push", "record"}
            /\ call[c].op = "webhook" => People!Then(call[c].op) = "record"
        BY <3>1 DEF People!Then
      <4>2. rec = [call[c] EXCEPT !.at = People!Then(call[c].op)]
        BY <4>1
      <4> QED BY <2>1, <3>1, <4>1, <4>2 DEF AccountCall
    <3>2. CASE call[c].op \notin {"suspend", "email", "webhook"}
      <4>1. People!Then(call[c].op) = "idle"
        BY <3>2 DEF People!Then
      <4>2. rec = [People!Idle EXCEPT !.at = "over"]
        BY <4>1
      <4> QED BY <4>2, OverRecord
    <3> QED BY <3>1, <3>2
  <2> HIDE DEF rec, next
  <2>4. call' = People!Outdates(c, [call EXCEPT ![c] = rec])
    BY <1>3, <2>2
  <2> QED BY <1>1, <1>3, <2>3, <2>4, Written
<1> QED BY <1>1, <1>2, <1>3

-----------------------------------------------------------------------------
(* The cascade's steps.                                                      *)

LEMMA MovedRecord ==
  ASSUME NEW old \in AccountCall, NEW at \in {"bookings", "summary"},
         NEW v, v = [old EXCEPT !.at = at]
  PROVE  /\ v \in AccountCall /\ v.op = old.op /\ v.at = at /\ v.seen = old.seen
         /\ v.failed = old.failed
BY DEF AccountCall

NotedAs(old, at, f, v) ==
  v \in AccountCall /\ v.op = old.op /\ v.at = at /\ v.seen = old.seen /\ v.failed = f

LEMMA NotedRecord ==
  ASSUME NEW old \in AccountCall, NEW at \in {"bookings", "summary"},
         NEW f \in SUBSET {"listing", "stay"}, NEW v, v = [old EXCEPT !.at = at, !.failed = f]
  PROVE  NotedAs(old, at, f, v)
<1>1. v \in AccountCall
  BY DEF AccountCall
<1>2. v.op = old.op /\ v.at = at /\ v.seen = old.seen /\ v.failed = f
  BY DEF AccountCall
<1> QED BY <1>1, <1>2 DEF NotedAs

LEMMA CascadeSteps ==
  ASSUME AccountInv, NEW c \in Call,
         \/ People!SuspendListings(c) \/ People!ListConfirmed(c)
         \/ People!CancelBooking(c) \/ People!Summarise(c)
  PROVE  AccountInv'
<1>1. /\ AccountShape /\ CascadeInv /\ DOMAIN call = Call /\ call[c] \in AccountCall /\ Cascading(c)
      /\ stay \in {"none", "pending", "confirmed", "cancelled"}
      /\ \A w \in cascade : w \in cascade
  BY DEF AccountInv, AccountShape, CascadeInv
<1>2. UNCHANGED <<row, provider, sent, decision, odd, links>>
  BY DEF People!SuspendListings, People!ListConfirmed, People!CancelBooking, People!Summarise
<1>3. CASE People!SuspendListings(c)
  <2> DEFINE done == [call[c] EXCEPT !.at = "bookings"]
             noted == [call[c] EXCEPT !.at = "bookings", !.failed = {"listing"}]
  <2>1. /\ UNCHANGED <<stay, cascade>> /\ call[c].op = "suspend"
        /\ \/ listing' = "suspended" /\ call' = [call EXCEPT ![c] = done]
           \/ UNCHANGED listing /\ call' = [call EXCEPT ![c] = noted]
    BY <1>1, <1>3 DEF People!SuspendListings, People!Goes, People!At
  <2>2. /\ done \in AccountCall /\ done.op = call[c].op /\ done.at = "bookings"
        /\ noted \in AccountCall /\ noted.op = call[c].op /\ noted.at = "bookings"
        /\ noted.failed = {"listing"}
    <3>1. done \in AccountCall /\ done.op = call[c].op /\ done.at = "bookings"
      BY <1>1, MovedRecord
    <3>2. /\ noted \in AccountCall /\ noted.op = call[c].op /\ noted.at = "bookings"
          /\ noted.failed = {"listing"}
      <4>1. /\ "bookings" \in {"bookings", "summary"} /\ {"listing"} \in SUBSET {"listing", "stay"}
            /\ noted = [call[c] EXCEPT !.at = "bookings", !.failed = {"listing"}]
            /\ call[c] \in AccountCall
        BY <1>1
      <4> HIDE DEF noted
      <4>2. NotedAs(call[c], "bookings", {"listing"}, noted)
        BY <4>1, NotedRecord
      <4> QED BY <4>2, Zenon DEF NotedAs
    <3> QED BY <3>1, <3>2
  <2> HIDE DEF done, noted
  <2>3. PICK rec \in {done, noted} :
          /\ call' = [call EXCEPT ![c] = rec]
          /\ listing' = "suspended" \/ (UNCHANGED listing /\ rec = noted)
    BY <2>1
  <2>4. rec \in AccountCall /\ rec.op = "suspend" /\ rec.at = "bookings"
    BY <2>1, <2>2, <2>3
  <2>5. Cascading(c)'
    BY <1>1, <2>1, <2>2, <2>3, <2>4 DEF Cascading
  <2>6. CascadeInv'
    BY <1>1, <2>1, <2>3, <2>4, <2>5, CascadeMoves DEF CascadeInv, People!CascadeSwept
  <2>7. AccountShape' /\ ActiveInv' /\ PayoutInv'
    BY <1>1, <1>2, <2>1, <2>3, <2>4, Moves
  <2> QED BY <2>6, <2>7 DEF AccountInv
<1>4. CASE People!ListConfirmed(c)
  <2> DEFINE rec == [call[c] EXCEPT !.at = IF stay = "confirmed" THEN "cancel" ELSE "summary",
                                    !.seen = stay]
  <2>1. /\ call' = [call EXCEPT ![c] = rec] /\ UNCHANGED <<stay, listing, cascade>>
        /\ call[c].op = "suspend" /\ call[c].at = "bookings"
    BY <1>1, <1>4 DEF People!ListConfirmed, People!At
  <2>2. /\ rec \in AccountCall /\ rec.op = "suspend" /\ rec.seen = stay /\ rec.failed = call[c].failed
        /\ rec.at = IF stay = "confirmed" THEN "cancel" ELSE "summary"
    BY <1>1, <2>1 DEF AccountCall
  <2> HIDE DEF rec
  <2>3. Cascading(c)'
    BY <1>1, <2>1, <2>2 DEF Cascading
  <2>4. CascadeInv'
    BY <1>1, <2>1, <2>2, <2>3, CascadeMoves
  <2>5. AccountShape' /\ ActiveInv' /\ PayoutInv'
    BY <1>1, <1>2, <2>1, <2>2, Moves
  <2> QED BY <2>4, <2>5 DEF AccountInv
<1>5. CASE People!CancelBooking(c)
  <2> DEFINE done == [call[c] EXCEPT !.at = "summary"]
             noted == [call[c] EXCEPT !.at = "summary", !.failed = call[c].failed \cup {"stay"}]
  <2>1. /\ UNCHANGED <<listing, cascade>> /\ call[c].op = "suspend" /\ call[c].at = "cancel"
        /\ \/ /\ stay' = IF stay = "confirmed" THEN "cancelled" ELSE stay
              /\ call' = [call EXCEPT ![c] = done]
           \/ UNCHANGED stay /\ call' = [call EXCEPT ![c] = noted]
    BY <1>1, <1>5 DEF People!CancelBooking, People!Goes, People!At
  <2>2. call[c].failed \cup {"stay"} \in SUBSET {"listing", "stay"}
    BY <1>1 DEF AccountCall
  <2>3. /\ done \in AccountCall /\ done.op = call[c].op /\ done.at = "summary"
        /\ done.seen = call[c].seen /\ done.failed = call[c].failed
        /\ noted \in AccountCall /\ noted.op = call[c].op /\ noted.at = "summary"
        /\ noted.seen = call[c].seen /\ noted.failed = call[c].failed \cup {"stay"}
    <3>1. /\ done \in AccountCall /\ done.op = call[c].op /\ done.at = "summary"
          /\ done.seen = call[c].seen /\ done.failed = call[c].failed
      BY <1>1, MovedRecord
    <3>2. /\ noted \in AccountCall /\ noted.op = call[c].op /\ noted.at = "summary"
          /\ noted.seen = call[c].seen /\ noted.failed = call[c].failed \cup {"stay"}
      <4>1. /\ "summary" \in {"bookings", "summary"} /\ call[c].failed \cup {"stay"} \in SUBSET {"listing", "stay"}
            /\ noted = [call[c] EXCEPT !.at = "summary", !.failed = call[c].failed \cup {"stay"}]
            /\ call[c] \in AccountCall
        BY <1>1, <2>2
      <4> HIDE DEF noted
      <4>2. NotedAs(call[c], "summary", call[c].failed \cup {"stay"}, noted)
        BY <4>1, NotedRecord
      <4> QED BY <4>2, Zenon DEF NotedAs
    <3> QED BY <3>1, <3>2
  <2> HIDE DEF done, noted
  <2>4. PICK rec \in {done, noted} :
          /\ call' = [call EXCEPT ![c] = rec]
          /\ \/ stay' = IF stay = "confirmed" THEN "cancelled" ELSE stay
             \/ UNCHANGED stay /\ rec = noted
    BY <2>1
  <2>5. /\ rec \in AccountCall /\ rec.op = "suspend" /\ rec.at = "summary"
        /\ rec.seen = call[c].seen /\ ("listing" \in rec.failed <=> "listing" \in call[c].failed)
        /\ "stay" \notin rec.failed => stay' = IF stay = "confirmed" THEN "cancelled" ELSE stay
    BY <2>1, <2>3, <2>4
  <2>6. Cascading(c)'
    BY <1>1, <2>1, <2>4, <2>5 DEF Cascading
  <2>7. CascadeInv'
    BY <1>1, <2>1, <2>4, <2>5, <2>6, CascadeMoves
  <2>8. AccountShape' /\ ActiveInv' /\ PayoutInv'
    BY <1>1, <1>2, <2>1, <2>4, <2>5, Moves
  <2> QED BY <2>7, <2>8 DEF AccountInv
<1>6. CASE People!Summarise(c)
  <2> DEFINE rec == [People!Idle EXCEPT !.at = "over"]
             new == [seen |-> call[c].seen, failed |-> call[c].failed]
  <2>1. /\ call' = [call EXCEPT ![c] = rec] /\ UNCHANGED <<stay, listing>>
        /\ call[c].op = "suspend" /\ call[c].at = "summary" /\ cascade' = cascade \cup {new}
    BY <1>6 DEF People!Summarise, People!Done, People!At
  <2>2. rec \in AccountCall /\ rec.op = "none" /\ rec.at = "over"
    BY OverRecord
  <2> HIDE DEF rec
  <2>3. Cascading(c)'
    BY <1>1, <2>1, <2>2 DEF Cascading
  <2>4. /\ "listing" \notin new.failed => listing' = "suspended"
        /\ new.seen = "none" => stay' = "none" \/ "listing" \in new.failed
        /\ new.seen = "confirmed" /\ "stay" \notin new.failed => stay' = "cancelled"
    BY <1>1, <2>1 DEF Cascading
  <2> HIDE DEF new
  <2>5. CascadeInv'
    BY <1>1, <2>1, <2>2, <2>3, <2>4, CascadeMoves
  <2>6. AccountShape' /\ ActiveInv' /\ PayoutInv'
    BY <1>1, <1>2, <2>1, <2>2, Moves
  <2> QED BY <2>5, <2>6 DEF AccountInv
<1> QED BY <1>3, <1>4, <1>5, <1>6

\* Guests book what is published, and cancel.
LEMMA StaySteps ==
  ASSUME AccountInv, People!Book \/ People!ConfirmBooking \/ People!GuestCancels
  PROVE  AccountInv'
<1>1. UNCHANGED <<row, provider, sent, listing, call, decision, cascade, odd, links>>
  BY DEF People!Book, People!ConfirmBooking, People!GuestCancels
<1>2. \/ listing = "published" /\ stay = "none" /\ stay' = "pending"
      \/ stay = "pending" /\ stay' = "confirmed"
      \/ stay \in {"pending", "confirmed"} /\ stay' = "cancelled"
  BY DEF People!Book, People!ConfirmBooking, People!GuestCancels
<1>3. CascadeInv'
  BY <1>1, <1>2, StayMoves DEF AccountInv
<1>4. AccountShape' /\ ActiveInv' /\ ProviderRight'
  BY <1>1, <1>2 DEF AccountInv, AccountShape, ActiveInv, ActiveCopy, FreshCopy, PayoutInv, ProviderRight, Latest
<1>5. \A c \in Call : PayoutCopy(c)'
  BY <1>1 DEF AccountInv, PayoutInv, PayoutCopy, FreshCopy
<1>6. odd.payout = FALSE => FlagRight'
  <2> SUFFICES ASSUME odd.payout = FALSE PROVE FlagRight'
    OBVIOUS
  <2>1. FlagRight
    BY DEF AccountInv, PayoutInv
  <2>2. \A c \in Call : AnswerHolds(c)' /\ EventHolds(c)'
    BY <1>1, <2>1 DEF FlagRight, AnswerHolds, Answering, EventHolds, FreshCopy, Latest, Untold, PastSync
  <2> QED BY <1>1, <2>1, <2>2 DEF FlagRight, OneAccount, Latest
<1> QED BY <1>1, <1>3, <1>4, <1>5, <1>6 DEF AccountInv, PayoutInv

-----------------------------------------------------------------------------
(* Onboarding and the provider's account.                                    *)

LEMMA CreateStep ==
  ASSUME AccountInv, NEW c \in Call, NEW a \in {1, 2}, People!CreateAccount(c, a)
  PROVE  AccountInv'
<1> DEFINE rec == [call[c] EXCEPT !.at = "write", !.copy = People!LinkPayoutAccount(@, a)]
<1>1. /\ call[c].op = "onboard" /\ call[c].at = "create" /\ provider[a] = "none"
      /\ provider' = [provider EXCEPT ![a] = "off"] /\ call' = [call EXCEPT ![c] = rec]
      /\ UNCHANGED <<row, sent, listing, stay, decision, cascade, odd, links>>
  BY DEF People!CreateAccount, People!At, AccountInv, AccountShape
<1>2. /\ AccountShape /\ CascadeInv /\ call[c] \in AccountCall /\ call[c].copy \in AccountUser
      /\ ActiveCopy(c) /\ PayoutCopy(c)
  BY DEF AccountInv, AccountShape, ActiveInv, PayoutInv, AccountCall
<1>3. /\ People!LinkPayoutAccount(call[c].copy, a) \in AccountUser
      /\ People!LinkPayoutAccount(call[c].copy, a).acct = a
      /\ People!LinkPayoutAccount(call[c].copy, a).enabled = FALSE
      /\ People!LinkPayoutAccount(call[c].copy, a).active = call[c].copy.active
  BY <1>2, LinkedUser
<1>4. /\ rec \in AccountCall /\ rec.op = "onboard" /\ rec.at = "write" /\ rec.stale = call[c].stale
      /\ rec.copy.acct = a /\ rec.copy.enabled = FALSE /\ rec.copy.active = call[c].copy.active
  BY <1>1, <1>2, <1>3 DEF AccountCall
<1> HIDE DEF rec
<1>5. call'[c] = rec /\ \A d \in Call : d # c => call'[d] = call[d]
  BY <1>1, <1>2 DEF AccountShape
<1>6. /\ provider' \in [{1, 2} -> {"none", "off", "on"}]
      /\ \A b \in {1, 2} : provider'[b] = "on" <=> provider[b] = "on"
      /\ stay' \in {"none", "pending", "confirmed", "cancelled"}
  BY <1>1, <1>2 DEF AccountShape
<1>7. ActiveCopy(c)'
  BY <1>1, <1>2, <1>4, <1>5 DEF ActiveCopy, FreshCopy
<1>8. PayoutCopy(c)'
  BY <1>1, <1>2, <1>4, <1>5 DEF PayoutCopy, FreshCopy
<1>9. ~PastSync(c)' /\ AnswerHolds(c)' /\ EventHolds(c)'
  BY <1>4, <1>5 DEF PastSync, AnswerHolds, Answering, EventHolds
<1>10. rec.op # "webhook"
  BY <1>4
<1>11. AccountShape' /\ ActiveInv' /\ PayoutInv'
  BY <1>1, <1>4, <1>6, <1>7, <1>8, <1>9, <1>10, QuietCall
<1>12. CascadeInv'
  <2>1. \A d \in Call : KeepsCascade(d)
    BY <1>4, <1>5 DEF KeepsCascade
  <2> QED BY <1>1, <1>2, <2>1, CascadeStays
<1> QED BY <1>11, <1>12 DEF AccountInv

LEMMA GetStep == ASSUME AccountInv, NEW c \in Call, People!GetAccount(c) PROVE AccountInv'
<1> DEFINE on == provider[call[c].copy.acct] = "on"
           rec == [call[c] EXCEPT !.at = "write", !.copy = People!SetPayoutsEnabled(@, on)]
<1>1. /\ call[c].op = "refresh" /\ call[c].at = "ask"
      /\ call' = People!Done(c) \/ call' = [call EXCEPT ![c] = rec]
      /\ UNCHANGED <<row, provider, sent, listing, stay, decision, cascade, odd, links>>
  <2>1. call' = People!Done(c)
        \/ call' = [call EXCEPT ![c].at = "write", ![c].copy = People!SetPayoutsEnabled(@, on)]
    BY DEF People!GetAccount
  <2> QED BY <2>1 DEF People!GetAccount, People!At, AccountInv, AccountShape
<1>2. /\ AccountShape /\ CascadeInv /\ call[c] \in AccountCall /\ call[c].copy \in AccountUser
      /\ ActiveCopy(c) /\ PayoutCopy(c)
  BY DEF AccountInv, AccountShape, ActiveInv, PayoutInv, AccountCall
<1>3. CASE call' = People!Done(c)
  BY <1>1, <1>3, Ends
<1>4. CASE call' = [call EXCEPT ![c] = rec]
  <2>1. /\ People!SetPayoutsEnabled(call[c].copy, on) \in AccountUser
        /\ People!SetPayoutsEnabled(call[c].copy, on).acct = call[c].copy.acct
        /\ People!SetPayoutsEnabled(call[c].copy, on).enabled = on
        /\ People!SetPayoutsEnabled(call[c].copy, on).active = call[c].copy.active
    <3>1. on \in BOOLEAN
      OBVIOUS
    <3> HIDE DEF on
    <3> QED BY <1>2, <3>1, FlaggedUser
  <2>2. /\ rec \in AccountCall /\ rec.op = "refresh" /\ rec.at = "write" /\ rec.stale = call[c].stale
        /\ rec.copy.acct = call[c].copy.acct /\ rec.copy.enabled = on
        /\ rec.copy.active = call[c].copy.active
    BY <1>1, <1>2, <2>1 DEF AccountCall
  <2> HIDE DEF rec
  <2>3. call'[c] = rec /\ \A d \in Call : d # c => call'[d] = call[d]
    BY <1>2, <1>4 DEF AccountShape
  <2>4. ActiveCopy(c)'
    BY <1>1, <1>2, <2>2, <2>3 DEF ActiveCopy, FreshCopy
  <2>5. PayoutCopy(c)'
    BY <1>1, <1>2, <2>2, <2>3 DEF PayoutCopy, FreshCopy
  <2>6. ~PastSync(c)' /\ EventHolds(c)'
    BY <2>2, <2>3 DEF PastSync, EventHolds
  <2>7. AnswerHolds(c)'
    <3>1. call'[c].copy.enabled = TRUE <=> provider'[call'[c].copy.acct] = "on"
      BY <1>1, <2>2, <2>3
    <3> QED BY <3>1 DEF AnswerHolds
  <2>8. /\ provider' \in [{1, 2} -> {"none", "off", "on"}] /\ rec.op # "webhook"
        /\ stay' \in {"none", "pending", "confirmed", "cancelled"}
    BY <1>1, <1>2, <2>2 DEF AccountShape
  <2>9. AccountShape' /\ ActiveInv' /\ PayoutInv'
    BY <1>1, <1>4, <2>2, <2>4, <2>5, <2>6, <2>7, <2>8, QuietCall
  <2>10. CascadeInv'
    <3>1. \A d \in Call : KeepsCascade(d)
      BY <2>2, <2>3 DEF KeepsCascade
    <3> QED BY <1>1, <1>2, <3>1, CascadeStays
  <2> QED BY <2>9, <2>10 DEF AccountInv
<1> QED BY <1>1, <1>3, <1>4

LEMMA HandleStep == ASSUME AccountInv, NEW c \in Call, NEW e \in sent, People!Handle(c, e) PROVE AccountInv'
<1> DEFINE rec == [People!Idle EXCEPT !.op = "webhook", !.at = "sync", !.event = e.id]
<1>1. /\ call' = [call EXCEPT ![c] = rec]
      /\ UNCHANGED <<row, provider, sent, listing, stay, decision, cascade, odd, links>>
  BY DEF People!Handle
<1>2. AccountShape /\ CascadeInv /\ e \in AccountEvent
  BY DEF AccountInv, AccountShape
<1>3. /\ rec \in AccountCall /\ rec.op = "webhook" /\ rec.at = "sync" /\ rec.event = e.id
  <2>1. People!NewUser \in AccountUser /\ e.id \in Nat
    BY <1>2 DEF People!NewUser, AccountUser, AccountEvent
  <2> QED BY <2>1 DEF People!Idle, AccountCall
<1> HIDE DEF rec
<1>4. call'[c] = rec /\ \A d \in Call : d # c => call'[d] = call[d]
  BY <1>1, <1>2 DEF AccountShape
<1>5. /\ ActiveCopy(c)' /\ PayoutCopy(c)' /\ ~PastSync(c)' /\ AnswerHolds(c)' /\ EventHolds(c)'
  BY <1>3, <1>4 DEF ActiveCopy, PayoutCopy, FreshCopy, PastSync, AnswerHolds, Answering, EventHolds
<1>6. /\ provider' \in [{1, 2} -> {"none", "off", "on"}]
      /\ stay' \in {"none", "pending", "confirmed", "cancelled"}
      /\ \E f \in sent : f.id = rec.event
  BY <1>1, <1>2, <1>3 DEF AccountShape
<1>7. rec.op = "webhook" => /\ rec.at \in {"sync", "write", "record"}
                            /\ \E f \in sent : f.id = rec.event
  BY <1>3, <1>6
<1>8. AccountShape' /\ ActiveInv' /\ PayoutInv'
  BY <1>1, <1>3, <1>5, <1>6, <1>7, QuietCall
<1>9. CascadeInv'
  <2>1. \A d \in Call : KeepsCascade(d)
    BY <1>3, <1>4 DEF KeepsCascade
  <2> QED BY <1>1, <1>2, <2>1, CascadeStays
<1> QED BY <1>8, <1>9 DEF AccountInv

\* The provider's new event is the last one, and nobody has seen it.
LEMMA ProviderStep == ASSUME AccountInv, NEW a \in {1, 2}, People!ProviderChanges(a) PROVE AccountInv'
<1>1. PICK n \in 1..MaxEvents :
        /\ \A i \in {e.id : e \in sent} : i < n
        /\ provider' = [provider EXCEPT ![a] = IF provider[a] # "on" THEN "on" ELSE "off"]
        /\ sent' = sent \cup {[id |-> n, acct |-> a, on |-> provider[a] # "on", answered |-> FALSE]}
  BY DEF People!ProviderChanges
<1>0. PICK new : new = [id |-> n, acct |-> a, on |-> provider[a] # "on", answered |-> FALSE]
  OBVIOUS
<1>2. /\ a \in links /\ sent' = sent \cup {new}
      /\ UNCHANGED <<row, listing, stay, call, decision, cascade, odd, links>>
  BY <1>0, <1>1 DEF People!ProviderChanges
<1>3. /\ AccountShape /\ CascadeInv /\ ActiveInv /\ PayoutInv /\ ProviderRight
      /\ \A e \in sent : e \in AccountEvent /\ e.id \in Nat /\ e.id < n
      /\ n \in Nat
  BY <1>1 DEF AccountInv, AccountShape, PayoutInv, AccountEvent
<1>4. /\ new \in AccountEvent /\ new.id = n /\ new.acct = a /\ new.answered = FALSE
      /\ new.on = (provider[a] # "on")
  BY <1>0, <1>3 DEF AccountEvent
<1>5. provider'[a] = "on" <=> new.on = TRUE
  BY <1>1, <1>3, <1>4 DEF AccountShape
<1>6. \A b \in {1, 2} : b # a => provider'[b] = provider[b]
  BY <1>1, <1>3 DEF AccountShape
<1>7. provider' \in [{1, 2} -> {"none", "off", "on"}]
  BY <1>1, <1>3 DEF AccountShape
<1>8. AccountShape'
  <2>1. \A e, f \in sent' : e.id = f.id => e = f
    BY <1>2, <1>3, <1>4 DEF AccountShape
  <2>2. \A e \in sent' : e \in AccountEvent
    BY <1>2, <1>3, <1>4
  <2>3. \A c \in Call : call'[c].op = "webhook" =>
          /\ call'[c].at \in {"sync", "write", "record"}
          /\ \E e \in sent' : e.id = call'[c].event
    BY <1>2, <1>3 DEF AccountShape
  <2> QED BY <1>2, <1>3, <1>7, <2>1, <2>2, <2>3 DEF AccountShape
<1>9. CascadeInv'
  BY <1>2, <1>3, CascadeStays DEF KeepsCascade
<1>10. ActiveInv'
  BY <1>2, <1>3 DEF ActiveInv, ActiveCopy, FreshCopy
<1>11. \A e \in sent : Latest(e, sent') => e.acct # a /\ Latest(e, sent)
  BY <1>2, <1>3, <1>4 DEF Latest
<1>12. ProviderRight'
  <2>1. \A e \in sent' : e.id <= new.id
    BY <1>2, <1>3, <1>4
  <2>2. ASSUME NEW e \in sent', Latest(e, sent') PROVE provider'[e.acct] = "on" <=> e.on = TRUE
    <3>1. CASE e = new
      BY <1>4, <1>5, <3>1
    <3>2. CASE e \in sent
      <4>1. e.acct # a /\ Latest(e, sent) /\ e.acct \in {1, 2}
        BY <1>3, <1>11, <2>2, <3>2 DEF AccountEvent
      <4>2. provider'[e.acct] = provider[e.acct]
        BY <1>6, <4>1
      <4> QED BY <1>3, <3>2, <4>1, <4>2 DEF ProviderRight
    <3> QED BY <1>2, <3>1, <3>2
  <2>3. ASSUME NEW b \in {1, 2}, \A e \in sent' : e.acct # b PROVE provider'[b] # "on"
    <3>1. b # a /\ \A e \in sent : e.acct # b
      BY <1>2, <1>4, <2>3
    <3> QED BY <1>3, <1>6, <3>1 DEF ProviderRight
  <2>4. new \in sent'
    BY <1>2
  <2> QED BY <2>1, <2>2, <2>3, <2>4 DEF ProviderRight
<1>13. \A c \in Call : PayoutCopy(c)'
  BY <1>2, <1>3 DEF PayoutInv, PayoutCopy, FreshCopy
<1>14. ASSUME odd'.payout = FALSE PROVE FlagRight'
  <2>1. FlagRight /\ row.acct = a
    BY <1>2, <1>3, <1>14 DEF PayoutInv, FlagRight, OneAccount
  <2>2. \A e \in sent : Untold(e) => Untold(e)'
    BY <1>2 DEF Untold, PastSync
  <2>3. Untold(new)'
    <3>1. \A c \in Call : call[c].op = "webhook" => call[c].event # n
      BY <1>3 DEF AccountShape
    <3> QED BY <1>2, <1>4, <3>1 DEF Untold, PastSync
  <2>4. Latest(new, sent')
    BY <1>2, <1>3, <1>4 DEF Latest
  <2>5. \A e \in sent : e.acct = a /\ ~Latest(e, sent')
    BY <1>11, <2>1 DEF FlagRight, OneAccount
  <2>6. ASSUME NEW c \in Call PROVE AnswerHolds(c)' /\ EventHolds(c)'
    <3>1. EventHolds(c)
      BY <2>1 DEF FlagRight
    <3>2. AnswerHolds(c)'
      BY <1>2, <2>3, <2>4 DEF AnswerHolds
    <3>3. ASSUME FreshCopy(c), call[c].op = "webhook", call[c].at = "write", NEW e \in sent'
          PROVE  /\ e.id = call[c].event => call[c].copy.enabled = e.on
                 /\ e.id > call[c].event => Untold(e)'
      <4>1. CASE e = new
        <5>1. call[c].event # n
          BY <1>3, <3>3 DEF AccountShape
        <5> QED BY <1>4, <2>3, <4>1, <5>1
      <4>2. CASE e \in sent
        <5>1. \A f \in sent : f.id = call[c].event => call[c].copy.enabled = f.on
          BY <3>1, <3>3 DEF EventHolds
        <5>2. \A f \in sent : f.id > call[c].event => Untold(f)
          BY <3>1, <3>3 DEF EventHolds
        <5>3. e.id = call[c].event => call[c].copy.enabled = e.on
          BY <4>2, <5>1, Zenon
        <5> QED BY <2>2, <4>2, <5>2, <5>3
      <4> QED BY <1>2, <4>1, <4>2
    <3>4. ASSUME call[c].op = "webhook", call[c].at = "record", NEW e \in sent',
                 e.id = call[c].event, Latest(e, sent')
          PROVE  row'.enabled = e.on
      <4>1. e # new
        <5>1. call[c].event # n
          BY <1>3, <3>4 DEF AccountShape
        <5> QED BY <1>4, <3>4, <5>1
      <4> QED BY <1>2, <2>5, <3>4, <4>1
    <3>5. EventHolds(c)'
      BY <1>2, <3>3, <3>4 DEF EventHolds, FreshCopy
    <3> QED BY <3>2, <3>5
  <2>7. OneAccount'
    BY <1>2, <1>4, <2>1 DEF FlagRight, OneAccount
  <2>8. \A e \in sent' : e.answered = TRUE /\ Latest(e, sent') => row'.enabled = e.on
    BY <1>2, <1>4, <2>5
  <2>9. sent' # {}
    BY <1>2
  <2> QED BY <2>6, <2>7, <2>8, <2>9 DEF FlagRight
<1> QED BY <1>8, <1>9, <1>10, <1>12, <1>13, <1>14 DEF AccountInv, PayoutInv

-----------------------------------------------------------------------------
(* The events.                                                               *)

LEMMA EventFound ==
  ASSUME AccountInv, NEW c \in Call, call[c].op = "webhook"
  PROVE  /\ People!Event(c) \in sent /\ People!Event(c).id = call[c].event
         /\ \A f \in sent : f.id = call[c].event => f = People!Event(c)
<1>1. \E e \in sent : e.id = call[c].event
  BY DEF AccountInv, AccountShape
<1>2. People!Event(c) \in sent /\ People!Event(c).id = call[c].event
  BY <1>1 DEF People!Event
<1> QED BY <1>2 DEF AccountInv, AccountShape

\* An event is recorded: it has been written, or the row said so already.
LEMMA RecordStep == ASSUME AccountInv, NEW c \in Call, People!RecordEvent(c) PROVE AccountInv'
<1> DEFINE e == People!Event(c)
           new == [e EXCEPT !.answered = TRUE]
           rec == [People!Idle EXCEPT !.at = "over"]
<1>1. /\ call[c].op = "webhook" /\ call[c].at = "record"
      /\ sent' = (sent \ {e}) \cup {new} /\ call' = [call EXCEPT ![c] = rec]
      /\ UNCHANGED <<row, provider, listing, stay, decision, cascade, odd, links>>
  BY DEF People!RecordEvent, People!Recordable, People!Done
<1>2. /\ e \in sent /\ e.id = call[c].event
  BY <1>1, EventFound
<1>3. rec \in AccountCall /\ rec.op = "none" /\ rec.at = "over"
  BY OverRecord
<1> HIDE DEF e, rec
<1>4. /\ AccountShape /\ CascadeInv /\ ActiveInv /\ PayoutInv /\ ProviderRight
      /\ \A f \in sent : f \in AccountEvent /\ f.id \in Nat
  BY DEF AccountInv, AccountShape, PayoutInv, AccountEvent
<1>5. /\ new \in AccountEvent /\ new.id = e.id /\ new.acct = e.acct /\ new.on = e.on
      /\ new.answered = TRUE
  BY <1>2, <1>4 DEF AccountEvent
<1> HIDE DEF new
<1>6. /\ call'[c] = rec /\ \A d \in Call : d # c => call'[d] = call[d]
      /\ call' \in [Call -> AccountCall]
  BY <1>1, <1>3, <1>4 DEF AccountShape
<1>7. \A f \in sent' : f = new \/ (f \in sent /\ f # e /\ f.id # e.id)
  BY <1>1, <1>2, <1>4 DEF AccountShape
<1>8. \A f \in sent : f # e => f \in sent'
  BY <1>1
<1>9. new \in sent'
  BY <1>1
<1>10. AccountShape'
  <2>1. \A f, g \in sent' : f.id = g.id => f = g
    BY <1>4, <1>5, <1>7 DEF AccountShape
  <2>2. \A f \in sent' : f \in AccountEvent
    BY <1>4, <1>5, <1>7
  <2>3. ASSUME NEW d \in Call, call'[d].op = "webhook"
        PROVE  /\ call'[d].at \in {"sync", "write", "record"}
               /\ \E f \in sent' : f.id = call'[d].event
    <3>1. d # c
      BY <1>3, <1>6, <2>3
    <3>2. call'[d] = call[d]
      BY <1>6, <3>1
    <3>3. call[d].at \in {"sync", "write", "record"} /\ \E f \in sent : f.id = call[d].event
      BY <1>4, <2>3, <3>2 DEF AccountShape
    <3>4. \E f \in sent' : f.id = call[d].event
      BY <1>5, <1>8, <1>9, <3>3
    <3> QED BY <3>2, <3>3, <3>4
  <2> QED BY <1>1, <1>4, <1>6, <2>1, <2>2, <2>3 DEF AccountShape
<1>11. CascadeInv'
  <2>1. \A d \in Call : KeepsCascade(d)
    BY <1>3, <1>6 DEF KeepsCascade
  <2> QED BY <1>1, <1>4, <2>1, CascadeStays
<1>12. ActiveInv'
  BY <1>1, <1>3, <1>4, <1>6 DEF ActiveInv, ActiveCopy, FreshCopy
<1>13. \A f \in sent : f # e => (Latest(f, sent') <=> Latest(f, sent))
  BY <1>1, <1>2, <1>5 DEF Latest
<1>14. Latest(new, sent') => Latest(e, sent)
  BY <1>1, <1>2, <1>5 DEF Latest
<1>15. ProviderRight'
  <2>1. \E f \in sent' : \A g \in sent' : g.id <= f.id
    <3>1. PICK f \in sent : \A g \in sent : g.id <= f.id
      BY <1>2, <1>4 DEF ProviderRight
    <3>2. CASE f = e
      BY <1>2, <1>5, <1>7, <1>9, <3>1, <3>2
    <3>3. CASE f # e
      BY <1>2, <1>5, <1>7, <1>8, <3>1, <3>3
    <3> QED BY <3>2, <3>3
  <2>2. ASSUME NEW f \in sent', Latest(f, sent') PROVE provider'[f.acct] = "on" <=> f.on = TRUE
    <3>1. CASE f = new
      BY <1>1, <1>2, <1>4, <1>5, <1>14, <2>2, <3>1 DEF ProviderRight
    <3>2. CASE f \in sent /\ f # e
      BY <1>1, <1>4, <1>13, <2>2, <3>2 DEF ProviderRight
    <3> QED BY <1>7, <3>1, <3>2
  <2>3. ASSUME NEW b \in {1, 2}, \A f \in sent' : f.acct # b PROVE provider'[b] # "on"
    <3>1. \A f \in sent : f.acct # b
      BY <1>5, <1>8, <1>9, <2>3
    <3> QED BY <1>1, <1>4, <3>1 DEF ProviderRight
  <2> QED BY <2>1, <2>2, <2>3 DEF ProviderRight
<1>16. \A d \in Call : PayoutCopy(d)'
  BY <1>1, <1>3, <1>4, <1>6 DEF PayoutInv, PayoutCopy, FreshCopy
<1>17. ASSUME odd'.payout = FALSE PROVE FlagRight'
  <2>1. FlagRight /\ row.acct = e.acct /\ row.acct # 0
    BY <1>1, <1>2, <1>4, <1>17 DEF PayoutInv, FlagRight, OneAccount
  <2>2. ~Untold(e)
    BY <1>1, <1>2 DEF Untold, PastSync
  <2>3. \A f \in sent : Untold(f) => f # e /\ Untold(f)'
    <3>1. \A d \in Call : PastSync(d)' => PastSync(d) /\ call'[d].event = call[d].event
      BY <1>3, <1>6 DEF PastSync
    <3> QED BY <2>2, <3>1 DEF Untold
  <2>4. Latest(e, sent) => row.enabled = e.on
    BY <1>1, <1>2, <2>1 DEF FlagRight, EventHolds
  <2>5. ASSUME NEW d \in Call PROVE AnswerHolds(d)' /\ EventHolds(d)'
    <3>1. CASE d = c
      BY <1>3, <1>6, <3>1 DEF AnswerHolds, Answering, EventHolds
    <3>2. CASE d # c
      <4>1. call'[d] = call[d] /\ AnswerHolds(d) /\ EventHolds(d)
        BY <1>6, <2>1, <3>2 DEF FlagRight
      <4>2. AnswerHolds(d)'
        <5>1. (\E f \in sent : Latest(f, sent) /\ Untold(f)) =>
                \E f \in sent' : Latest(f, sent') /\ Untold(f)'
          BY <1>8, <1>13, <2>3
        <5> QED BY <1>1, <4>1, <5>1 DEF AnswerHolds, Answering, FreshCopy
      <4>3. ASSUME FreshCopy(d), call[d].op = "webhook", call[d].at = "write", NEW f \in sent'
            PROVE  /\ f.id = call[d].event => call[d].copy.enabled = f.on
                   /\ f.id > call[d].event => Untold(f)'
        <5>1. \A g \in sent : g.id = call[d].event => call[d].copy.enabled = g.on
          BY <4>1, <4>3 DEF EventHolds
        <5>2. \A g \in sent : g.id > call[d].event => Untold(g)
          BY <4>1, <4>3 DEF EventHolds
        <5>3. CASE f = new
          <6>1. e.id = call[d].event => call[d].copy.enabled = e.on
            BY <1>2, <5>1, Zenon
          <6>2. ~(e.id > call[d].event)
            BY <1>2, <2>2, <5>2
          <6> QED BY <1>5, <5>3, <6>1, <6>2
        <5>4. CASE f \in sent /\ f # e
          <6>1. f.id = call[d].event => call[d].copy.enabled = f.on
            BY <5>1, <5>4, Zenon
          <6> QED BY <2>3, <5>2, <5>4, <6>1
        <5> QED BY <1>7, <5>3, <5>4
      <4>4. ASSUME call[d].op = "webhook", call[d].at = "record", NEW f \in sent',
                   f.id = call[d].event, Latest(f, sent')
            PROVE  row'.enabled = f.on
        <5>1. CASE f = new
          BY <1>1, <1>5, <1>14, <2>4, <4>4, <5>1
        <5>2. CASE f \in sent /\ f # e
          BY <1>1, <1>13, <4>1, <4>4, <5>2 DEF EventHolds
        <5> QED BY <1>7, <5>1, <5>2
      <4>5. EventHolds(d)'
        BY <4>1, <4>3, <4>4 DEF EventHolds, FreshCopy
      <4> QED BY <4>2, <4>5
    <3> QED BY <3>1, <3>2
  <2>6. OneAccount'
    BY <1>1, <1>5, <1>7, <2>1 DEF FlagRight, OneAccount
  <2>7. ASSUME NEW f \in sent', f.answered = TRUE, Latest(f, sent') PROVE row'.enabled = f.on
    <3>1. CASE f = new
      BY <1>1, <1>5, <1>14, <2>4, <2>7, <3>1
    <3>2. CASE f \in sent /\ f # e
      BY <1>1, <1>13, <2>1, <2>7, <3>2 DEF FlagRight
    <3> QED BY <1>7, <3>1, <3>2
  <2>8. sent' # {}
    BY <1>9
  <2> QED BY <2>5, <2>6, <2>7, <2>8 DEF FlagRight
<1> QED BY <1>10, <1>11, <1>12, <1>15, <1>16, <1>17 DEF AccountInv, PayoutInv

LEMMA AlreadyStep == ASSUME AccountInv, NEW c \in Call, People!AlreadyRecorded(c) PROVE AccountInv'
<1>1. /\ call' = People!Done(c)
      /\ UNCHANGED <<row, provider, sent, listing, stay, decision, cascade, odd, links>>
  BY DEF People!AlreadyRecorded
<1> QED BY <1>1, Ends

\* The handler of an event loads the row: to write the event's flag, or to find it there.
LEMMA SyncStep == ASSUME AccountInv, NEW c \in Call, People!SyncAccountFromWebhook(c) PROVE AccountInv'
<1>0. PICK e : e = People!Event(c)
  OBVIOUS
<1> DEFINE differs == row.acct = e.acct /\ row.enabled # e.on
           new == People!SetPayoutsEnabled(row, e.on)
           rec == IF differs
                  THEN [call[c] EXCEPT !.at = "write", !.copy = new, !.stale = FALSE]
                  ELSE [call[c] EXCEPT !.at = "record"]
           next == [call EXCEPT ![c] = rec]
<1>1. /\ AccountShape /\ CascadeInv /\ ActiveInv /\ PayoutInv /\ ProviderRight
      /\ call \in [Call -> AccountCall] /\ call[c] \in AccountCall /\ row \in AccountUser
      /\ odd \in [active : BOOLEAN, payout : BOOLEAN]
  BY DEF AccountInv, AccountShape, PayoutInv
<1>2. /\ call[c].op = "webhook" /\ call[c].at = "sync"
      /\ call' = People!Outdates(c, next)
      /\ odd' = [odd EXCEPT !.payout = @ \/ People!Overtaken(e)]
      /\ UNCHANGED <<row, provider, sent, listing, stay, decision, cascade, links>>
  <2>1. next = IF differs
               THEN [call EXCEPT ![c].at = "write", ![c].copy = new, ![c].stale = FALSE]
               ELSE People!Goes(c, "record")
    BY <1>1 DEF People!Goes
  <2> HIDE DEF next
  <2>2. call' = People!Outdates(c, IF differs
               THEN [call EXCEPT ![c].at = "write", ![c].copy = new, ![c].stale = FALSE]
               ELSE People!Goes(c, "record"))
    BY <1>0 DEF People!SyncAccountFromWebhook
  <2>3. call' = People!Outdates(c, next)
    BY <2>1, <2>2
  <2> QED BY <1>0, <2>3 DEF People!SyncAccountFromWebhook, People!At
<1>3. /\ e \in sent /\ e.id = call[c].event /\ e \in AccountEvent /\ e.on \in BOOLEAN
      /\ \A f \in sent : f.id = call[c].event => f = e
  BY <1>0, <1>1, <1>2, EventFound DEF AccountShape, AccountEvent
<1>4. /\ new \in AccountUser /\ new.acct = row.acct /\ new.enabled = e.on /\ new.active = row.active
  BY <1>1, <1>3, FlaggedUser
<1> HIDE DEF new
<1>5. /\ rec \in AccountCall /\ rec.op = "webhook" /\ rec.event = e.id
      /\ differs => rec.at = "write" /\ rec.copy = new /\ rec.stale = FALSE
      /\ ~differs => rec.at = "record"
  <2>1. CASE differs
    <3>1. rec = [call[c] EXCEPT !.at = "write", !.copy = new, !.stale = FALSE]
      BY <2>1
    <3> QED BY <1>1, <1>2, <1>3, <1>4, <2>1, <3>1 DEF AccountCall
  <2>2. CASE ~differs
    <3>1. rec = [call[c] EXCEPT !.at = "record"]
      BY <2>2
    <3> QED BY <1>1, <1>2, <1>3, <2>2, <3>1 DEF AccountCall
  <2> QED BY <2>1, <2>2
<1> HIDE DEF rec
<1>6. next \in [Call -> AccountCall] /\ next[c] = rec /\ \A d \in Call : d # c => next[d] = call[d]
  BY <1>1, <1>5
<1> HIDE DEF next
<1>7. /\ call' \in [Call -> AccountCall] /\ call'[c] = next[c]
      /\ \A d \in Call : /\ call'[d].op = next[d].op /\ call'[d].at = next[d].at
                         /\ call'[d].copy = next[d].copy /\ call'[d].event = next[d].event
                         /\ call'[d].seen = next[d].seen /\ call'[d].failed = next[d].failed
                         /\ d # c /\ next[d].at \in {"create", "ask", "write"} =>
                              call'[d].stale = TRUE
  <2>1. call' = People!Outdates(c, next) /\ next \in [Call -> AccountCall]
    BY <1>2, <1>6
  <2>2. Outdated(c, next, call')
    BY <2>1, OutdatesCall
  <2> QED BY <2>2, Zenon DEF Outdated
<1>8. ASSUME NEW d \in Call, d # c
      PROVE  /\ call'[d].op = call[d].op /\ call'[d].at = call[d].at
             /\ call'[d].copy = call[d].copy /\ call'[d].event = call[d].event
             /\ call'[d].seen = call[d].seen /\ call'[d].failed = call[d].failed
             /\ call[d].at \in {"create", "ask", "write"} => call'[d].stale = TRUE
  <2>1. next[d] = call[d]
    BY <1>6, <1>8
  <2>2. /\ call'[d].op = next[d].op /\ call'[d].at = next[d].at
        /\ call'[d].copy = next[d].copy /\ call'[d].event = next[d].event
        /\ call'[d].seen = next[d].seen /\ call'[d].failed = next[d].failed
        /\ next[d].at \in {"create", "ask", "write"} => call'[d].stale = TRUE
    BY <1>7, <1>8
  <2> QED BY ONLY <2>1, <2>2
<1>9. call'[c] = rec
  BY <1>6, <1>7
<1>10. ASSUME NEW d \in Call, FreshCopy(d)' PROVE d = c /\ differs
  <2>1. d = c
    BY <1>8, <1>10 DEF FreshCopy
  <2> QED BY <1>5, <1>9, <1>10, <2>1 DEF FreshCopy
<1>11. /\ odd' \in [active : BOOLEAN, payout : BOOLEAN] /\ odd'.active = odd.active
       /\ odd'.payout = (odd.payout \/ People!Overtaken(e))
  BY <1>1, <1>2 DEF People!Overtaken
<1>12. AccountShape'
  <2>1. ASSUME NEW d \in Call, call'[d].op = "webhook"
        PROVE  /\ call'[d].at \in {"sync", "write", "record"}
               /\ \E f \in sent : f.id = call'[d].event
    <3>1. CASE d = c
      BY <1>3, <1>5, <1>9, <3>1
    <3>2. CASE d # c
      <4>1. call[d].op = "webhook" /\ call'[d].at = call[d].at /\ call'[d].event = call[d].event
        BY <1>8, <2>1, <3>2
      <4>2. call[d].at \in {"sync", "write", "record"} /\ \E f \in sent : f.id = call[d].event
        BY <1>1, <4>1 DEF AccountShape
      <4> QED BY <4>1, <4>2
    <3> QED BY <3>1, <3>2
  <2> QED BY <1>1, <1>2, <1>7, <1>11, <2>1 DEF AccountShape
<1>13. CascadeInv'
  <2>1. \A d \in Call : KeepsCascade(d)
    BY <1>5, <1>8, <1>9 DEF KeepsCascade
  <2> QED BY <1>1, <1>2, <2>1, CascadeStays
<1>14. ActiveInv'
  <2>1. ASSUME NEW d \in Call PROVE ActiveCopy(d)'
    <3>1. CASE d = c
      BY <1>2, <1>4, <1>5, <1>9, <1>10, <3>1 DEF ActiveCopy
    <3>2. CASE d # c
      <4>1. ActiveCopy(d)
        BY <1>1 DEF ActiveInv
      <4> QED BY <1>8, <1>10, <3>2, <4>1 DEF ActiveCopy
    <3> QED BY <3>1, <3>2
  <2> QED BY <1>1, <1>2, <1>11, <2>1 DEF ActiveInv
<1>15. ProviderRight'
  BY <1>1, <1>2 DEF ProviderRight, Latest
<1>16. ASSUME NEW d \in Call PROVE PayoutCopy(d)'
  <2>1. CASE d = c
    BY <1>2, <1>4, <1>5, <1>9, <1>10, <2>1 DEF PayoutCopy
  <2>2. CASE d # c
    <3>1. PayoutCopy(d)
      BY <1>1 DEF PayoutInv
    <3> QED BY <1>8, <1>10, <2>2, <3>1 DEF PayoutCopy
  <2> QED BY <2>1, <2>2
<1>17. ASSUME odd'.payout = FALSE PROVE FlagRight'
  <2>1. odd.payout = FALSE /\ ~People!Overtaken(e)
    BY <1>1, <1>11, <1>17 DEF People!Overtaken
  <2>2. FlagRight /\ row.acct = e.acct /\ \A f \in sent : f.acct = e.acct
    BY <1>1, <1>3, <2>1 DEF PayoutInv, FlagRight, OneAccount
  <2>3. \A f \in sent : ~(f.id > e.id)
    BY <2>1, <2>2 DEF People!Overtaken
  <2>4. ASSUME NEW d \in Call PROVE AnswerHolds(d)' /\ EventHolds(d)'
    <3>1. AnswerHolds(d)'
      BY <1>5, <1>9, <1>10 DEF AnswerHolds, Answering
    <3>2. ASSUME FreshCopy(d)', NEW f \in sent
          PROVE  /\ f.id = call'[d].event => call'[d].copy.enabled = f.on
                 /\ ~(f.id > call'[d].event)
      <4>1. call'[d].event = e.id /\ call'[d].copy.enabled = e.on
        BY <1>4, <1>5, <1>9, <1>10, <3>2
      <4>2. f.id = e.id => f = e
        BY <1>3
      <4> QED BY <2>3, <4>1, <4>2
    <3>3. ASSUME call'[d].op = "webhook", call'[d].at = "record", NEW f \in sent,
                 f.id = call'[d].event, Latest(f, sent)
          PROVE  row.enabled = f.on
      <4>1. CASE d = c
        <5>1. ~differs /\ f = e
          BY <1>3, <1>5, <1>9, <3>3, <4>1
        <5> QED BY <2>2, <5>1
      <4>2. CASE d # c
        <5>1. call[d].op = "webhook" /\ call[d].at = "record" /\ f.id = call[d].event
          BY <1>8, <3>3, <4>2
        <5> QED BY <2>2, <3>3, <5>1 DEF FlagRight, EventHolds
      <4> QED BY <4>1, <4>2
    <3>4. EventHolds(d)'
      <4>1. sent' = sent /\ row' = row
        BY <1>2
      <4> QED BY <3>2, <3>3, <4>1 DEF EventHolds, Latest
    <3> QED BY <3>1, <3>4
  <2>5. OneAccount'
    BY <1>2, <2>2 DEF FlagRight, OneAccount
  <2> QED BY <1>2, <2>2, <2>4, <2>5 DEF FlagRight, Latest
<1> QED BY <1>12, <1>13, <1>14, <1>15, <1>16, <1>17 DEF AccountInv, PayoutInv

-----------------------------------------------------------------------------
LEMMA AccountStutter == ASSUME AccountInv, UNCHANGED People!accountVars PROVE AccountInv'
<1>1. UNCHANGED <<row, provider, sent, listing, stay, call, decision, cascade, odd, links>>
  BY DEF People!accountVars
<1>2. AccountShape' /\ ProviderRight'
  BY <1>1 DEF AccountInv, AccountShape, PayoutInv, ProviderRight, Latest
<1>3. CascadeInv' /\ ActiveInv'
  BY <1>1 DEF AccountInv, CascadeInv, Cascading, People!CascadeSwept, ActiveInv, ActiveCopy, FreshCopy
<1>4. \A c \in Call : PayoutCopy(c)'
  BY <1>1 DEF AccountInv, PayoutInv, PayoutCopy, FreshCopy
<1>5. ASSUME odd.payout = FALSE PROVE FlagRight'
  <2>1. FlagRight
    BY <1>5 DEF AccountInv, PayoutInv
  <2>2. \A c \in Call : AnswerHolds(c)' /\ EventHolds(c)'
    BY <1>1, <2>1 DEF FlagRight, AnswerHolds, Answering, EventHolds, FreshCopy, Latest, Untold, PastSync
  <2> QED BY <1>1, <2>1, <2>2 DEF FlagRight, OneAccount, Latest
<1> QED BY <1>1, <1>2, <1>3, <1>4, <1>5 DEF AccountInv, PayoutInv

LEMMA AccountStep == ASSUME AccountInv, [People!Next]_(People!accountVars) PROVE AccountInv'
<1>1. CASE UNCHANGED People!accountVars
  BY <1>1, AccountStutter
<1>2. CASE People!Next
  <2>1. CASE People!Book \/ People!ConfirmBooking \/ People!GuestCancels
    BY <2>1, StaySteps
  <2>2. ASSUME NEW a \in {1, 2}, People!ProviderChanges(a) PROVE AccountInv'
    BY <2>2, ProviderStep
  <2>3. ASSUME NEW c \in Call,
               \/ People!SyncFromIdentity(c) \/ People!UpdateProfile(c) \/ People!BecomeHost(c)
               \/ People!UpdateEmailPreferences(c) \/ People!UpdatePushPreferences(c)
               \/ People!Suspend(c) \/ People!Unsuspend(c) \/ People!Erase(c)
               \/ People!StartOnboarding(c) \/ People!RefreshAccountStatus(c)
        PROVE AccountInv'
    BY <2>3, LoadSteps
  <2>4. ASSUME NEW c \in Call, People!Update(c) PROVE AccountInv'
    BY <2>4, UpdateStep
  <2>5. ASSUME NEW c \in Call,
               \/ People!SuspendListings(c) \/ People!ListConfirmed(c)
               \/ People!CancelBooking(c) \/ People!Summarise(c)
        PROVE AccountInv'
    BY <2>5, CascadeSteps
  <2>6. ASSUME NEW c \in Call, NEW a \in {1, 2}, People!CreateAccount(c, a) PROVE AccountInv'
    BY <2>6, CreateStep
  <2>7. ASSUME NEW c \in Call, People!GetAccount(c) PROVE AccountInv'
    BY <2>7, GetStep
  <2>8. ASSUME NEW c \in Call, NEW e \in sent, People!Handle(c, e) PROVE AccountInv'
    BY <2>8, HandleStep
  <2>9. ASSUME NEW c \in Call, People!SyncAccountFromWebhook(c) PROVE AccountInv'
    BY <2>9, SyncStep
  <2>10. ASSUME NEW c \in Call, People!RecordEvent(c) PROVE AccountInv'
    BY <2>10, RecordStep
  <2>11. ASSUME NEW c \in Call, People!AlreadyRecorded(c) PROVE AccountInv'
    BY <2>11, AlreadyStep
  <2> QED BY <1>2, <2>1, <2>2, <2>3, <2>4, <2>5, <2>6, <2>7, <2>8, <2>9, <2>10, <2>11
      DEF People!Next, People!Account
<1> QED BY <1>1, <1>2

-----------------------------------------------------------------------------
(* Administrators' decisions: Moderation. *)

LEMMA DeskCard == \A S : Desk!Cardinality(S) = Cardinality(S)
BY DEF Desk!Cardinality, Cardinality

\* The requests of a kind are numbered as they come, and a number names one.
RowFields == {"kind", "n", "status", "by"}
Numbered ==
  /\ \A r \in rows : DOMAIN r = RowFields
  /\ \A r \in rows : r.kind \in Desk!Kind /\ r.n \in Nat
  /\ \A k \in Desk!Kind :
       /\ IsFiniteSet(Desk!Of(k)) /\ Cardinality(Desk!Of(k)) \in Nat
       /\ \A r \in Desk!Of(k) : r.n <= Cardinality(Desk!Of(k))
  /\ \A r, s \in rows : r.kind = s.kind /\ r.n = s.n => r = s

HoldsRow(c) == call[c].op \in {"write", "audit"}
Inserts(c, k) == call[c].op = "insert" /\ call[c].kind = k
Settles(c, op, k, n) == call[c].op = op /\ call[c].kind = k /\ call[c].n = n
IsLast(r) == \A s \in rows : s.kind = r.kind => s.n <= r.n
DeskCalls(c) ==
  /\ DOMAIN call[c] = DOMAIN Desk!Idle
  /\ call[c].op = "insert" => call[c].n = 0 /\ call[c].kind \in Desk!Kind
  /\ HoldsRow(c) => /\ call[c].verdict # "pending"
                    /\ call[c].verdict = "approved" => call[c].kind = "kyc"

\* The request that waits is the last one, and none is on its way beside it.
Waiting(k) ==
  /\ \A r \in rows : r.kind = k /\ r.status = "pending" =>
       IsLast(r) /\ \A c \in Call : ~Inserts(c, k)
  /\ \A c, d \in Call : Inserts(c, k) /\ Inserts(d, k) => c = d

\* A decision that nobody made beside it is the first on its row, and has no entry yet.
Deciding(c) ==
  call[c].op = "write" =>
    \E r \in rows :
      /\ r.kind = call[c].kind /\ r.n = call[c].n
      /\ \/ <<r.kind, r.n>> \in contested
         \/ r.status = "pending" /\ \A d \in Call \ {c} : ~Settles(d, "write", r.kind, r.n)
Auditing(c) ==
  call[c].op = "audit" =>
    \E r \in rows :
      /\ r.kind = call[c].kind /\ r.n = call[c].n /\ r.status # "pending"
      /\ \/ <<r.kind, r.n>> \in contested
         \/ /\ \A d \in Call \ {c} : ~Settles(d, "audit", r.kind, r.n)
            /\ \A t \in trail : t.kind = r.kind => t.n # r.n

Trailed(t) == \E r \in rows : r.kind = t.kind /\ r.n = t.n /\ r.status # "pending"
ToldOf(n) ==
  \/ "kyc" \in crowded \/ <<"kyc", n>> \in contested
  \/ \E r \in rows : /\ r.kind = "kyc" /\ r.n = n /\ r.status = "approved" /\ IsLast(r)
                     /\ \A c \in Call : ~Inserts(c, "kyc")
Recorded(r) ==
  r.status # "pending" =>
    \/ faulted > 0
    \/ \E t \in trail : t.kind = r.kind /\ t.n = r.n /\ t.verdict = r.status /\ t.by = r.by
    \/ r.by \in Call /\ Settles(r.by, "audit", r.kind, r.n) /\ call[r.by].verdict = r.status

DeskInv ==
  /\ faulted \in Nat /\ DOMAIN call = Call /\ Numbered
  /\ \A c \in Call : DeskCalls(c) /\ Deciding(c) /\ Auditing(c)
  /\ \A k \in Desk!Kind \ crowded : Waiting(k)
  /\ \A t \in trail : Trailed(t)
  /\ \A n \in announced : ToldOf(n)
  /\ \A r \in rows : Recorded(r)
  /\ Desk!DecidedOnce

LEMMA DeskInit == ASSUME Desk!Init PROVE DeskInv
<1>1. /\ rows = {} /\ announced = {} /\ trail = {} /\ call = [c \in Call |-> Desk!Idle]
      /\ faulted = 0
  BY DEF Desk!Init
<1>2. \A k : Desk!Of(k) = {}
  BY <1>1 DEF Desk!Of
<1>3. Numbered
  BY <1>1, <1>2, FS_EmptySet DEF Numbered
<1>4. Desk!Idle.op = "new"
  BY DEF Desk!Idle
<1>5. \A c \in Call : DeskCalls(c) /\ Deciding(c) /\ Auditing(c) /\ \A k : ~Inserts(c, k)
  BY <1>1, <1>4 DEF DeskCalls, Deciding, Auditing, HoldsRow, Inserts
<1> QED BY <1>1, <1>3, <1>5 DEF DeskInv, Waiting, Desk!DecidedOnce

-----------------------------------------------------------------------------
\* The last row of a kind is the one that the look-up finds.
LEMMA LatestIsLast ==
  ASSUME Numbered, NEW r \in rows, IsLast(r)
  PROVE Desk!Of(r.kind) # {} /\ Desk!Latest(r.kind) = r
<1> DEFINE k == r.kind
<1>1. r \in Desk!Of(k) /\ \A s \in Desk!Of(k) : s \in rows /\ s.kind = k /\ s.n <= r.n
  BY DEF Desk!Of, IsLast
<1>2. ASSUME NEW s \in Desk!Of(k), \A x \in Desk!Of(k) : x.n <= s.n PROVE s = r
  BY <1>1, <1>2 DEF Numbered
<1> HIDE DEF k
<1> QED BY <1>1, <1>2 DEF Desk!Latest, k

\* A call that goes on.
LEMMA DeskCallTo ==
  ASSUME DeskInv, NEW c \in Call, NEW rec, Desk!Goes(c, rec)
  PROVE DOMAIN call' = Call /\ call'[c] = rec /\ \A d \in Call : d # c => call'[d] = call[d]
BY DEF DeskInv, Desk!Goes

\* A step that leaves the tables alone and ends a call or lets it score.
LEMMA DeskQuiet ==
  ASSUME DeskInv, UNCHANGED <<rows, announced, trail, crowded, contested>>,
         faulted' \in Nat, faulted > 0 => faulted' > 0, DOMAIN call' = Call,
         \A d \in Call : \/ call'[d] = call[d]
                         \/ /\ DOMAIN call'[d] = DOMAIN Desk!Idle
                            /\ call'[d].op \notin {"insert", "write", "audit"}
                            /\ call[d].op = "audit" => faulted' > 0
  PROVE DeskInv'
<1>1. Numbered'
  BY DEF DeskInv, Numbered, Desk!Of
<1>2. ASSUME NEW d \in Call PROVE (DeskCalls(d) /\ Deciding(d) /\ Auditing(d))'
  <2>1. DeskCalls(d) /\ Deciding(d) /\ Auditing(d)
    BY DEF DeskInv
  <2>2. DeskCalls(d)'
    BY <2>1 DEF DeskCalls, HoldsRow, Desk!Idle
  <2>3. Deciding(d)'
    BY <2>1 DEF Deciding, Settles
  <2>4. Auditing(d)'
    BY <2>1 DEF Auditing, Settles
  <2> QED BY <2>2, <2>3, <2>4
<1>3. \A d \in Call : \A k : Inserts(d, k)' => Inserts(d, k)
  BY DEF Inserts
<1>4. \A k \in Desk!Kind \ crowded' : Waiting(k)'
  BY <1>3 DEF DeskInv, Waiting, IsLast
<1>5. \A t \in trail' : Trailed(t)'
  BY DEF DeskInv, Trailed
<1>6. \A n \in announced' : ToldOf(n)'
  BY <1>3 DEF DeskInv, ToldOf, IsLast
<1>7. \A r \in rows' : Recorded(r)'
  BY DEF DeskInv, Recorded, Settles
<1>8. Desk!DecidedOnce'
  BY DEF DeskInv, Desk!DecidedOnce
<1> QED BY <1>1, <1>2, <1>4, <1>5, <1>6, <1>7, <1>8 DEF DeskInv

LEMMA DeskOver ==
  ASSUME DeskInv, NEW c \in Call, Desk!Goes(c, Desk!Over), Desk!Fault,
         UNCHANGED <<rows, announced, trail, crowded, contested>>
  PROVE DeskInv'
<1>1. DOMAIN Desk!Over = DOMAIN Desk!Idle /\ Desk!Over.op = "over"
  BY DEF Desk!Over, Desk!Idle
<1>2. DOMAIN call' = Call /\ call'[c] = Desk!Over /\ \A d \in Call : d # c => call'[d] = call[d]
  BY DeskCallTo
<1>3. faulted' \in Nat /\ faulted' > 0
  BY DEF DeskInv, Desk!Fault
<1> QED BY <1>1, <1>2, <1>3, DeskQuiet

LEMMA DeskLookUp ==
  ASSUME DeskInv, NEW c \in Call, NEW kind \in Desk!Kind, Desk!LookUp(c, kind) PROVE DeskInv'
<1> DEFINE rec == [Desk!Idle EXCEPT !.op = "insert", !.kind = kind]
<1>1. /\ call[c].op = "new" /\ ~Desk!Refused(kind) /\ Desk!Goes(c, rec)
      /\ crowded' = IF Desk!Beside(c, "insert", kind, 0) THEN crowded \cup {kind} ELSE crowded
      /\ UNCHANGED <<rows, announced, trail, contested, faulted>>
  BY DEF Desk!LookUp, Desk!At
<1>2. rec.op = "insert" /\ rec.kind = kind /\ rec.n = 0 /\ DOMAIN rec = DOMAIN Desk!Idle
  BY DEF Desk!Idle
<1> HIDE DEF rec
<1>3. DOMAIN call' = Call /\ call'[c] = rec /\ \A d \in Call : d # c => call'[d] = call[d]
  BY <1>1, DeskCallTo
<1>4. Numbered'
  BY <1>1 DEF DeskInv, Numbered, Desk!Of
<1>0. \A d \in Call : \A op \in {"write", "audit"} : \A k, n : Settles(d, op, k, n)' => Settles(d, op, k, n)
  BY <1>2, <1>3 DEF Settles
<1>5. ASSUME NEW d \in Call PROVE (DeskCalls(d) /\ Deciding(d) /\ Auditing(d))'
  <2>1. DeskCalls(d) /\ Deciding(d) /\ Auditing(d)
    BY DEF DeskInv
  <2>2. DeskCalls(d)'
    BY <2>1, <1>2, <1>3 DEF DeskCalls, HoldsRow, Desk!Idle
  <2>3. Deciding(d)'
    BY <2>1, <1>1, <1>2, <1>3, <1>0 DEF Deciding
  <2>4. Auditing(d)'
    BY <2>1, <1>1, <1>2, <1>3, <1>0 DEF Auditing
  <2> QED BY <2>2, <2>3, <2>4
<1>6. \A d \in Call : \A k : Inserts(d, k)' => Inserts(d, k) \/ (d = c /\ k = kind)
  BY <1>2, <1>3 DEF Inserts
<1>7. kind \notin crowded' => \A d \in Call \ {c} : ~Inserts(d, kind)
  BY <1>1 DEF Desk!Beside, DeskInv, DeskCalls, Inserts
<1>8. crowded \subseteq crowded' /\ crowded' \subseteq crowded \cup {kind}
  BY <1>1
<1>9. \A r \in rows : r.kind = kind /\ kind \notin crowded' =>
        r.status # "pending" /\ (kind = "kyc" /\ r.status = "approved" => ~IsLast(r))
  <2> SUFFICES ASSUME NEW r \in rows, r.kind = kind, kind \notin crowded', 
                      \/ r.status = "pending"
                      \/ kind = "kyc" /\ r.status = "approved" /\ IsLast(r)
               PROVE FALSE
    OBVIOUS
  <2>1. IsLast(r)
    BY <1>8 DEF DeskInv, Waiting
  <2>2. Desk!Of(kind) # {} /\ Desk!Latest(kind) = r /\ r \in Desk!Of(kind)
    BY <2>1, LatestIsLast DEF DeskInv, Desk!Of
  <2> QED BY <1>1, <2>2 DEF Desk!Refused
<1>10. ASSUME NEW k \in Desk!Kind \ crowded' PROVE Waiting(k)'
  <2>1. Waiting(k)
    BY <1>8 DEF DeskInv
  <2>2. CASE k = kind
    BY <2>1, <2>2, <1>1, <1>6, <1>7, <1>9 DEF Waiting, IsLast
  <2>3. CASE k # kind
    BY <2>1, <2>3, <1>1, <1>6 DEF Waiting, IsLast
  <2> QED BY <2>2, <2>3
<1>11. \A t \in trail' : Trailed(t)'
  BY <1>1 DEF DeskInv, Trailed
<1>12. ASSUME NEW n \in announced' PROVE ToldOf(n)'
  <2>1. ToldOf(n)
    BY <1>1 DEF DeskInv
  <2>2. CASE "kyc" \in crowded \/ <<"kyc", n>> \in contested
    BY <2>2, <1>1, <1>8 DEF ToldOf
  <2>3. CASE \E r \in rows : /\ r.kind = "kyc" /\ r.n = n /\ r.status = "approved" /\ IsLast(r)
                             /\ \A d \in Call : ~Inserts(d, "kyc")
    BY <2>3, <1>1, <1>6, <1>8, <1>9 DEF ToldOf, IsLast
  <2> QED BY <2>1, <2>2, <2>3 DEF ToldOf
<1>13. \A r \in rows' : Recorded(r)'
  BY <1>1, <1>3 DEF DeskInv, Recorded, Settles
<1>14. Desk!DecidedOnce'
  BY <1>1 DEF DeskInv, Desk!DecidedOnce
<1> QED BY <1>1, <1>3, <1>4, <1>5, <1>10, <1>11, <1>12, <1>13, <1>14 DEF DeskInv

-----------------------------------------------------------------------------
LEMMA DeskInsert == ASSUME DeskInv, NEW c \in Call, Desk!Insert(c) PROVE DeskInv'
<1> PICK kind : kind = call[c].kind
  OBVIOUS
<1> PICK m : m = Desk!Cardinality(Desk!Of(kind)) + 1
  OBVIOUS
<1> PICK new : new = [kind |-> kind, n |-> m, status |-> "pending", by |-> "none"]
  OBVIOUS
<1>1. /\ call[c].op = "insert" /\ Desk!Goes(c, Desk!Over)
      /\ UNCHANGED <<announced, trail, crowded, contested>>
      /\ \/ rows' = rows \cup {new} /\ UNCHANGED faulted
         \/ UNCHANGED rows /\ Desk!Fault
  BY DEF Desk!Insert, Desk!At
<1>2. CASE UNCHANGED rows /\ Desk!Fault
  BY <1>1, <1>2, DeskOver
<1>3. CASE rows' = rows \cup {new} /\ UNCHANGED faulted
  <2>0. Inserts(c, kind) /\ kind \in Desk!Kind
    BY <1>1 DEF Inserts, DeskInv, DeskCalls
  <2>1. DOMAIN call' = Call /\ call'[c] = Desk!Over /\ \A d \in Call : d # c => call'[d] = call[d]
    BY <1>1, DeskCallTo
  <2>2. DOMAIN Desk!Over = DOMAIN Desk!Idle /\ Desk!Over.op = "over"
    BY DEF Desk!Over, Desk!Idle
  <2>3. /\ m \in Nat /\ m = Cardinality(Desk!Of(kind)) + 1 /\ \A r \in rows : r.kind = kind => r.n < m
        /\ IsFiniteSet(Desk!Of(kind)) /\ new \notin Desk!Of(kind)
    <3>1. /\ m = Cardinality(Desk!Of(kind)) + 1 /\ IsFiniteSet(Desk!Of(kind))
          /\ Cardinality(Desk!Of(kind)) \in Nat
          /\ \A r \in Desk!Of(kind) : r.n \in Nat /\ r.n <= Cardinality(Desk!Of(kind))
      BY <2>0, DeskCard DEF DeskInv, Numbered, Desk!Of
    <3>2. \A r \in Desk!Of(kind) : r.n < m
      BY <3>1
    <3> QED BY <3>1, <3>2 DEF Desk!Of
  <2>4. new.kind = kind /\ new.n = m /\ new.status = "pending"
        /\ DOMAIN new = RowFields
    BY DEF RowFields
  <2>5. Numbered'
    <3>0. Numbered
      BY DEF DeskInv
    <3>1. \A k : Desk!Of(k)' = IF k = kind THEN Desk!Of(k) \cup {new} ELSE Desk!Of(k)
      BY <1>3, <2>4 DEF Desk!Of
    <3>2. IsFiniteSet(Desk!Of(kind)') /\ Cardinality(Desk!Of(kind)') = m
      BY <3>1, <2>3, FS_AddElement
    <3>3. ASSUME NEW k \in Desk!Kind
          PROVE /\ IsFiniteSet(Desk!Of(k)') /\ Cardinality(Desk!Of(k)') \in Nat
                /\ \A r \in Desk!Of(k)' : r.n <= Cardinality(Desk!Of(k)')
      <4>1. CASE k = kind
        <5>1. \A r \in Desk!Of(k)' : r = new \/ r \in Desk!Of(kind)
          BY <4>1, <3>1
        <5>2. \A r \in Desk!Of(kind) : r.n < m /\ r.n \in Nat
          BY <2>3, <3>0 DEF Numbered, Desk!Of
        <5> QED BY <4>1, <3>2, <5>1, <5>2, <2>3, <2>4
      <4>2. CASE k # kind
        BY <4>2, <3>0, <3>1 DEF Numbered
      <4> QED BY <4>1, <4>2
    <3>4. \A r \in rows' : r.kind \in Desk!Kind /\ r.n \in Nat
      BY <3>0, <1>3, <2>0, <2>3, <2>4 DEF Numbered
    <3>5. \A r \in rows' : DOMAIN r = RowFields
      BY <3>0, <1>3, <2>4 DEF Numbered
    <3>6. \A r, s \in rows' : r.kind = s.kind /\ r.n = s.n => r = s
      BY <3>0, <1>3, <2>3, <2>4 DEF Numbered
    <3> QED BY <3>3, <3>4, <3>5, <3>6 DEF Numbered
  <2>6. \A d \in Call : \A op \in {"write", "audit"} : \A k, n : Settles(d, op, k, n)' => Settles(d, op, k, n)
    BY <2>1, <2>2 DEF Settles
  <2>7. ASSUME NEW d \in Call PROVE (DeskCalls(d) /\ Deciding(d) /\ Auditing(d))'
    <3>1. DeskCalls(d) /\ Deciding(d) /\ Auditing(d)
      BY DEF DeskInv
    <3>2. DeskCalls(d)'
      BY <3>1, <2>1, <2>2 DEF DeskCalls, HoldsRow
    <3>3. Deciding(d)'
      BY <3>1, <1>1, <1>3, <2>1, <2>2, <2>6 DEF Deciding
    <3>4. Auditing(d)'
      BY <3>1, <1>1, <1>3, <2>1, <2>2, <2>6 DEF Auditing
    <3> QED BY <3>2, <3>3, <3>4
  <2>8. \A d \in Call : \A k : Inserts(d, k)' => Inserts(d, k) /\ d # c
    BY <2>1, <2>2 DEF Inserts
  <2>9. \A r \in rows : IsLast(r) /\ r.kind # kind => IsLast(r)'
    BY <1>3, <2>4 DEF IsLast
  <2>10. ASSUME NEW k \in Desk!Kind \ crowded' PROVE Waiting(k)'
    <3>1. Waiting(k)
      BY <1>1 DEF DeskInv
    <3>2. CASE k = kind
      <4>1. \A d \in Call : ~Inserts(d, k)'
        BY <3>1, <3>2, <2>0, <2>8 DEF Waiting
      <4>2. IsLast(new)'
        BY <1>3, <2>3, <2>4 DEF IsLast, DeskInv, Numbered
      <4>3. \A r \in rows : r.kind = k => r.status # "pending"
        BY <3>1, <3>2, <2>0 DEF Waiting
      <4> QED BY <4>1, <4>2, <4>3, <1>3, <2>4 DEF Waiting
    <3>3. CASE k # kind
      BY <3>1, <3>3, <1>3, <2>4, <2>8, <2>9 DEF Waiting
    <3> QED BY <3>2, <3>3
  <2>11. \A t \in trail' : Trailed(t)'
    BY <1>1, <1>3 DEF DeskInv, Trailed
  <2>12. ASSUME NEW n \in announced' PROVE ToldOf(n)'
    <3>1. ToldOf(n)
      BY <1>1 DEF DeskInv
    <3>2. CASE "kyc" \in crowded \/ <<"kyc", n>> \in contested
      BY <3>2, <1>1 DEF ToldOf
    <3>3. CASE \E r \in rows : /\ r.kind = "kyc" /\ r.n = n /\ r.status = "approved" /\ IsLast(r)
                               /\ \A d \in Call : ~Inserts(d, "kyc")
      BY <3>3, <1>3, <2>0, <2>8, <2>9 DEF ToldOf
    <3> QED BY <3>1, <3>2, <3>3 DEF ToldOf
  <2>13. \A r \in rows' : Recorded(r)'
    <3>1. \A r \in rows : Recorded(r)
      BY DEF DeskInv
    <3>2. \A d \in Call : call[d].op = "audit" => call'[d] = call[d]
      BY <1>1, <2>1
    <3>3. \A r \in rows : Recorded(r)'
      BY <3>1, <3>2, <1>1, <1>3 DEF Recorded, Settles
    <3>4. Recorded(new)'
      BY <2>4 DEF Recorded
    <3> QED BY <3>3, <3>4, <1>3
  <2>14. Desk!DecidedOnce'
    BY <1>1 DEF DeskInv, Desk!DecidedOnce
  <2>15. faulted' \in Nat
    BY <1>3 DEF DeskInv
  <2> QED BY <2>1, <2>5, <2>7, <2>10, <2>11, <2>12, <2>13, <2>14, <2>15 DEF DeskInv
<1> QED BY <1>1, <1>2, <1>3

LEMMA DeskDecide ==
  ASSUME DeskInv, NEW c \in Call, NEW r \in rows, NEW verdict \in {"approved", "rejected", "resolved", "dismissed"},
         Desk!Decide(c, r, verdict)
  PROVE DeskInv'
<1> DEFINE rec == [Desk!Idle EXCEPT !.op = "write", !.kind = r.kind, !.n = r.n, !.verdict = verdict]
<1>1. /\ call[c].op = "new" /\ r.status = "pending" /\ Desk!Goes(c, rec)
      /\ contested' = IF Desk!Beside(c, "write", r.kind, r.n) THEN contested \cup {<<r.kind, r.n>>}
                      ELSE contested
      /\ UNCHANGED <<rows, announced, trail, crowded, faulted>>
  BY DEF Desk!Decide, Desk!At, Desk!Decidable
<1>0. verdict = "approved" => r.kind = "kyc"
  <2>1. r.kind \in Desk!Kind /\ verdict \in Desk!Verdict[r.kind]
    BY DEF Desk!Decide, DeskInv, Numbered
  <2> QED BY <2>1 DEF Desk!Verdict, Desk!Kind
<1>2. /\ rec.op = "write" /\ rec.kind = r.kind /\ rec.n = r.n /\ rec.verdict = verdict
      /\ DOMAIN rec = DOMAIN Desk!Idle
  BY DEF Desk!Idle
<1> HIDE DEF rec
<1>3. DOMAIN call' = Call /\ call'[c] = rec /\ \A d \in Call : d # c => call'[d] = call[d]
  BY <1>1, DeskCallTo
<1>4. /\ contested \subseteq contested'
      /\ \A x : x \in contested' => x \in contested \/ x = <<r.kind, r.n>>
      /\ <<r.kind, r.n>> \notin contested' => \A d \in Call \ {c} : ~Settles(d, "write", r.kind, r.n)
  BY <1>1 DEF Desk!Beside, Settles
<1>5. \A d \in Call : \A k, n : /\ Settles(d, "audit", k, n)' <=> Settles(d, "audit", k, n)
                                /\ d # c => (Settles(d, "write", k, n)' <=> Settles(d, "write", k, n))
  BY <1>1, <1>2, <1>3 DEF Settles
<1>6. \A k, n : Settles(c, "write", k, n)' <=> k = r.kind /\ n = r.n
  BY <1>2, <1>3 DEF Settles
<1>7. Numbered /\ Numbered'
  BY <1>1 DEF DeskInv, Numbered, Desk!Of
<1>8. ASSUME NEW d \in Call PROVE (DeskCalls(d) /\ Deciding(d) /\ Auditing(d))'
  <2>1. DeskCalls(d) /\ Deciding(d) /\ Auditing(d)
    BY DEF DeskInv
  <2>2. DeskCalls(d)'
    BY <2>1, <1>2, <1>3, <1>0 DEF DeskCalls, HoldsRow
  <2>3. Deciding(d)'
    <3>1. CASE d = c
      BY <3>1, <1>1, <1>2, <1>3, <1>4, <1>5 DEF Deciding
    <3>2. CASE d # c
      <4> SUFFICES ASSUME call[d].op = "write" PROVE Deciding(d)'
        BY <3>2, <1>3 DEF Deciding
      <4>1. PICK s \in rows :
              /\ s.kind = call[d].kind /\ s.n = call[d].n
              /\ \/ <<s.kind, s.n>> \in contested
                 \/ s.status = "pending" /\ \A e \in Call \ {d} : ~Settles(e, "write", s.kind, s.n)
        BY <2>1 DEF Deciding
      <4>2. Settles(d, "write", s.kind, s.n)
        BY <4>1 DEF Settles
      <4>3. <<s.kind, s.n>> \in contested' \/ s.kind # r.kind \/ s.n # r.n
        BY <4>2, <1>4, <3>2
      <4>4. \/ <<s.kind, s.n>> \in contested'
            \/ s.status = "pending" /\ \A e \in Call \ {d} : ~Settles(e, "write", s.kind, s.n)'
        BY <4>1, <4>3, <1>4, <1>5, <1>6
      <4> QED BY <4>1, <4>4, <3>2, <1>1, <1>3 DEF Deciding
    <3> QED BY <3>1, <3>2
  <2>4. Auditing(d)'
    <3>1. CASE d = c
      BY <3>1, <1>2, <1>3 DEF Auditing
    <3>2. CASE d # c
      BY <3>2, <2>1, <1>1, <1>3, <1>4, <1>5 DEF Auditing
    <3> QED BY <3>1, <3>2
  <2> QED BY <2>2, <2>3, <2>4
<1>9. \A d \in Call : \A k : Inserts(d, k)' => Inserts(d, k)
  BY <1>2, <1>3 DEF Inserts
<1>10. \A k \in Desk!Kind \ crowded' : Waiting(k)'
  BY <1>1, <1>9 DEF DeskInv, Waiting, IsLast
<1>11. \A t \in trail' : Trailed(t)'
  BY <1>1 DEF DeskInv, Trailed
<1>12. \A n \in announced' : ToldOf(n)'
  BY <1>1, <1>4, <1>9 DEF DeskInv, ToldOf, IsLast
<1>13. \A s \in rows' : Recorded(s)'
  <2>1. \A d \in Call : call[d].op = "audit" => call'[d] = call[d]
    BY <1>1, <1>3
  <2> QED BY <2>1, <1>1, <1>3 DEF DeskInv, Recorded, Settles
<1>14. Desk!DecidedOnce'
  BY <1>1, <1>4 DEF DeskInv, Desk!DecidedOnce
<1>15. faulted' \in Nat
  BY <1>1 DEF DeskInv
<1> QED BY <1>3, <1>7, <1>8, <1>10, <1>11, <1>12, <1>13, <1>14, <1>15 DEF DeskInv

\* The row is written from a copy: it is decided, whoever decided it before.
LEMMA DeskWrite == ASSUME DeskInv, NEW c \in Call, Desk!WriteDecision(c) PROVE DeskInv'
<1> PICK kind, n, verdict : kind = call[c].kind /\ n = call[c].n /\ verdict = call[c].verdict
  OBVIOUS
<1> PICK rec : rec = [call[c] EXCEPT !.op = "audit"]
  OBVIOUS
<1>1. /\ call[c].op = "write" /\ UNCHANGED <<trail, crowded, contested>>
      /\ \/ /\ rows' = {Desk!Updated(c, r) : r \in rows} /\ Desk!Goes(c, rec) /\ UNCHANGED faulted
            /\ announced' = IF verdict = "approved" THEN announced \cup {n} ELSE announced
         \/ Desk!Goes(c, Desk!Over) /\ Desk!Fault /\ UNCHANGED <<rows, announced>>
  BY DEF Desk!WriteDecision, Desk!At
<1>2. CASE Desk!Goes(c, Desk!Over) /\ Desk!Fault /\ UNCHANGED <<rows, announced>>
  BY <1>1, <1>2, DeskOver
<1>3. CASE /\ rows' = {Desk!Updated(c, r) : r \in rows} /\ Desk!Goes(c, rec) /\ UNCHANGED faulted
           /\ announced' = IF verdict = "approved" THEN announced \cup {n} ELSE announced
  <2>1. DOMAIN call' = Call /\ call'[c] = rec /\ \A d \in Call : d # c => call'[d] = call[d]
    BY <1>3, DeskCallTo
  <2>2. /\ rec.op = "audit" /\ rec.kind = kind /\ rec.n = n /\ rec.verdict = verdict
        /\ DOMAIN rec = DOMAIN Desk!Idle /\ verdict # "pending" /\ (verdict = "approved" => kind = "kyc")
    BY <1>1 DEF DeskInv, DeskCalls, HoldsRow, Desk!Idle
  <2>3. PICK old \in rows :
          /\ old.kind = kind /\ old.n = n
          /\ \/ <<kind, n>> \in contested
             \/ old.status = "pending" /\ \A d \in Call \ {c} : ~Settles(d, "write", kind, n)
    BY <1>1 DEF DeskInv, Deciding
  <2>5. Numbered /\ kind \in Desk!Kind
    BY <2>3 DEF DeskInv, Numbered
  <2>0. PICK new : new = [old EXCEPT !.status = verdict, !.by = c]
    OBVIOUS
  <2>4. /\ new.kind = kind /\ new.n = n /\ new.status = verdict /\ new.by = c
        /\ DOMAIN new = RowFields
    BY <2>0, <2>3, <2>5 DEF Numbered, RowFields
  <2>6. /\ Desk!Updated(c, old) = new
        /\ \A r \in rows : r # old => Desk!Updated(c, r) = r
    <3>1. \A r \in rows : r # old => ~(r.kind = kind /\ r.n = n)
      BY <2>3, <2>5 DEF Numbered
    <3> QED BY <3>1, <2>0, <2>3 DEF Desk!Updated
  <2>7. rows' = (rows \ {old}) \cup {new}
    BY <1>3, <2>3, <2>6
  <2>8. Numbered'
    <3>1. \A k : Desk!Of(k)' = IF k = kind THEN (Desk!Of(k) \ {old}) \cup {new} ELSE Desk!Of(k)
      BY <2>3, <2>4, <2>7 DEF Desk!Of
    <3>2. /\ IsFiniteSet(Desk!Of(kind)) /\ Cardinality(Desk!Of(kind)) \in Nat /\ old \in Desk!Of(kind)
          /\ \A r \in Desk!Of(kind) : r.n \in Nat /\ r.n <= Cardinality(Desk!Of(kind))
      BY <2>3, <2>5 DEF Numbered, Desk!Of
    <3>3. /\ IsFiniteSet(Desk!Of(kind) \ {old})
          /\ Cardinality(Desk!Of(kind) \ {old}) = Cardinality(Desk!Of(kind)) - 1
      BY <3>2, FS_RemoveElement
    <3>4. new \notin Desk!Of(kind) \ {old}
      BY <2>3, <2>4, <2>5 DEF Numbered, Desk!Of
    <3>5. /\ IsFiniteSet(Desk!Of(kind)') /\ Cardinality(Desk!Of(kind)') = Cardinality(Desk!Of(kind))
      <4> PICK others : others = Desk!Of(kind) \ {old}
        OBVIOUS
      <4>1. IsFiniteSet(others) /\ Cardinality(others) = Cardinality(Desk!Of(kind)) - 1 /\ new \notin others
        BY <3>3, <3>4
      <4>2. IsFiniteSet(others \cup {new}) /\ Cardinality(others \cup {new}) = Cardinality(others) + 1
        BY <4>1, FS_AddElement
      <4>3. Cardinality(others \cup {new}) = Cardinality(Desk!Of(kind))
        BY <4>1, <4>2, <3>2
      <4>4. Desk!Of(kind)' = others \cup {new}
        BY <3>1
      <4> QED BY <4>2, <4>3, <4>4
    <3>6. ASSUME NEW k \in Desk!Kind
          PROVE /\ IsFiniteSet(Desk!Of(k)') /\ Cardinality(Desk!Of(k)') \in Nat
                /\ \A r \in Desk!Of(k)' : r.n <= Cardinality(Desk!Of(k)')
      <4>1. CASE k = kind
        BY <4>1, <3>1, <3>2, <3>5, <2>3, <2>4
      <4>2. CASE k # kind
        BY <4>2, <3>1, <2>5 DEF Numbered
      <4> QED BY <4>1, <4>2
    <3>7. \A r \in rows' : r.kind \in Desk!Kind /\ r.n \in Nat
      BY <2>3, <2>4, <2>5, <2>7 DEF Numbered
    <3>8. \A r \in rows' : DOMAIN r = RowFields
      BY <2>4, <2>5, <2>7 DEF Numbered
    <3>9. \A r, s \in rows' : r.kind = s.kind /\ r.n = s.n => r = s
      BY <2>3, <2>4, <2>5, <2>7 DEF Numbered
    <3> QED BY <3>6, <3>7, <3>8, <3>9 DEF Numbered
  <2>9. \A d \in Call : \A k, m : /\ Settles(d, "write", k, m)' <=> d # c /\ Settles(d, "write", k, m)
                                  /\ d # c => (Settles(d, "audit", k, m)' <=> Settles(d, "audit", k, m))
    BY <1>1, <2>1, <2>2 DEF Settles
  <2>10. /\ Settles(c, "write", kind, n)
         /\ \A k, m : Settles(c, "audit", k, m)' <=> k = kind /\ m = n
    BY <1>1, <2>1, <2>2 DEF Settles
  <2>11. \A r \in rows : r # old => r \in rows' /\ ~(r.kind = kind /\ r.n = n)
    BY <2>3, <2>5, <2>7 DEF Numbered
  <2>12. new \in rows' /\ \A r \in rows' : r = new \/ (r \in rows /\ r # old)
    BY <2>7
  <2>13. ASSUME NEW d \in Call PROVE DeskCalls(d)' /\ Deciding(d)'
    <3>1. DeskCalls(d) /\ Deciding(d)
      BY DEF DeskInv
    <3>2. DeskCalls(d)'
      <4>1. CASE d = c
        BY <4>1, <2>1, <2>2 DEF DeskCalls, HoldsRow
      <4>2. CASE d # c
        BY <4>2, <3>1, <2>1 DEF DeskCalls, HoldsRow
      <4> QED BY <4>1, <4>2
    <3>3. Deciding(d)'
      <4> SUFFICES ASSUME call'[d].op = "write" PROVE Deciding(d)'
        BY DEF Deciding
      <4>0. d # c /\ call'[d] = call[d] /\ call[d].op = "write"
        BY <2>1, <2>2
      <4>1. PICK r \in rows :
              /\ r.kind = call[d].kind /\ r.n = call[d].n
              /\ \/ <<r.kind, r.n>> \in contested
                 \/ r.status = "pending" /\ \A e \in Call \ {d} : ~Settles(e, "write", r.kind, r.n)
        BY <3>1, <4>0 DEF Deciding
      <4>2. CASE r = old
        <5>1. <<kind, n>> \in contested
          BY <4>0, <4>1, <4>2, <2>3, <2>10
        <5> QED BY <5>1, <4>0, <4>1, <4>2, <2>3, <2>4, <2>12, <1>1 DEF Deciding
      <4>3. CASE r # old
        BY <4>0, <4>1, <4>3, <2>9, <2>11, <1>1 DEF Deciding
      <4> QED BY <4>2, <4>3
    <3> QED BY <3>2, <3>3
  <2>14. ASSUME NEW d \in Call PROVE Auditing(d)'
    <3>1. Auditing(d) /\ \A t \in trail : Trailed(t)
      BY DEF DeskInv
    <3>2. CASE d = c
      <4>1. <<kind, n>> \in contested \/ old.status = "pending"
        BY <2>3
      <4>2. old.status = "pending" => \A t \in trail : t.kind = kind => t.n # n
        BY <3>1, <2>3, <2>5 DEF Trailed, Numbered
      <4>3. old.status = "pending" => \A e \in Call \ {c} : ~Settles(e, "audit", kind, n)
        <5> SUFFICES ASSUME NEW e \in Call \ {c}, Settles(e, "audit", kind, n) PROVE old.status # "pending"
          OBVIOUS
        <5>1. PICK r \in rows : r.kind = kind /\ r.n = n /\ r.status # "pending"
          <6>1. Auditing(e) /\ call[e].op = "audit" /\ call[e].kind = kind /\ call[e].n = n
            BY DEF DeskInv, Settles
          <6> QED BY <6>1 DEF Auditing
        <5> QED BY <5>1, <2>3, <2>5 DEF Numbered
      <4>4. \/ <<new.kind, new.n>> \in contested'
            \/ /\ \A e \in Call \ {c} : ~Settles(e, "audit", new.kind, new.n)'
               /\ \A t \in trail' : t.kind = new.kind => t.n # new.n
        BY <4>1, <4>2, <4>3, <2>4, <2>9, <1>1
      <4>5. call'[c].kind = new.kind /\ call'[c].n = new.n /\ new \in rows' /\ new.status # "pending"
        BY <2>1, <2>2, <2>4, <2>12
      <4> QED BY <4>4, <4>5, <3>2 DEF Auditing
    <3>3. CASE d # c
      <4> SUFFICES ASSUME call'[d].op = "audit" PROVE Auditing(d)'
        BY DEF Auditing
      <4>0. call'[d] = call[d] /\ call[d].op = "audit" /\ Settles(d, "audit", call[d].kind, call[d].n)
        BY <3>3, <2>1 DEF Settles
      <4>1. PICK r \in rows :
              /\ r.kind = call[d].kind /\ r.n = call[d].n /\ r.status # "pending"
              /\ \/ <<r.kind, r.n>> \in contested
                 \/ /\ \A e \in Call \ {d} : ~Settles(e, "audit", r.kind, r.n)
                    /\ \A t \in trail : t.kind = r.kind => t.n # r.n
        BY <3>1, <4>0 DEF Auditing
      <4>2. CASE r = old
        <5>1. <<kind, n>> \in contested
          BY <4>1, <4>2, <2>3
        <5>2. new \in rows' /\ new.kind = call'[d].kind /\ new.n = call'[d].n /\ new.status # "pending"
          BY <4>0, <4>1, <4>2, <2>2, <2>3, <2>4, <2>12
        <5>3. <<new.kind, new.n>> \in contested'
          BY <5>1, <2>4, <1>1
        <5> QED BY <5>2, <5>3 DEF Auditing
      <4>3. CASE r # old
        <5>1. r \in rows' /\ ~(r.kind = kind /\ r.n = n)
          BY <4>3, <2>11
        <5>2. \/ <<r.kind, r.n>> \in contested'
              \/ /\ \A e \in Call \ {d} : ~Settles(e, "audit", r.kind, r.n)'
                 /\ \A t \in trail' : t.kind = r.kind => t.n # r.n
          BY <5>1, <4>1, <2>9, <2>10, <1>1
        <5> QED BY <5>1, <5>2, <4>0, <4>1 DEF Auditing
      <4> QED BY <4>2, <4>3
    <3> QED BY <3>2, <3>3
  <2>15. \A d \in Call : \A k : Inserts(d, k)' => Inserts(d, k)
    BY <2>1, <2>2 DEF Inserts
  <2>16. /\ \A r \in rows : r # old /\ IsLast(r) => IsLast(r)'
         /\ IsLast(old) => IsLast(new)'
    <3>1. \A s \in rows' : \E r \in rows : r.kind = s.kind /\ r.n = s.n
      BY <2>3, <2>4, <2>12
    <3> QED BY <3>1, <2>3, <2>4 DEF IsLast
  <2>17. ASSUME NEW k \in Desk!Kind \ crowded' PROVE Waiting(k)'
    <3>1. Waiting(k)
      BY <1>1 DEF DeskInv
    <3> QED BY <3>1, <2>2, <2>4, <2>12, <2>15, <2>16 DEF Waiting
  <2>18. ASSUME NEW t \in trail' PROVE Trailed(t)'
    <3>1. PICK r \in rows : r.kind = t.kind /\ r.n = t.n /\ r.status # "pending"
      BY <1>1 DEF DeskInv, Trailed
    <3>2. CASE r = old
      BY <3>1, <3>2, <2>2, <2>3, <2>4, <2>12 DEF Trailed
    <3>3. CASE r # old
      BY <3>1, <3>3, <2>11 DEF Trailed
    <3> QED BY <3>2, <3>3
  <2>19. ASSUME NEW m \in announced' PROVE ToldOf(m)'
    <3> SUFFICES ASSUME "kyc" \notin crowded, <<"kyc", m>> \notin contested PROVE ToldOf(m)'
      BY <1>1 DEF ToldOf
    <3>1. Waiting("kyc")
      BY DEF DeskInv, Desk!Kind
    <3>2. CASE m \in announced
      <4>1. PICK r \in rows : /\ r.kind = "kyc" /\ r.n = m /\ r.status = "approved" /\ IsLast(r)
                              /\ \A d \in Call : ~Inserts(d, "kyc")
        BY <3>2 DEF DeskInv, ToldOf
      <4>2. r # old
        <5>1. r = old => old.status = "pending"
          BY <4>1, <2>3
        <5> QED BY <5>1, <4>1
      <4> QED BY <4>1, <4>2, <2>11, <2>15, <2>16 DEF ToldOf
    <3>3. CASE m \notin announced
      <4>1. verdict = "approved" /\ m = n
        BY <3>3, <1>3
      <4>2. kind = "kyc"
        BY <4>1, <1>1 DEF DeskInv, DeskCalls, HoldsRow
      <4>3. IsLast(old) /\ \A d \in Call : ~Inserts(d, "kyc")
        BY <3>1, <4>1, <4>2, <2>3 DEF Waiting
      <4> QED BY <4>1, <4>2, <4>3, <2>4, <2>12, <2>15, <2>16 DEF ToldOf
    <3> QED BY <3>2, <3>3
  <2>20. ASSUME NEW r \in rows' PROVE Recorded(r)'
    <3>1. CASE r = new
      BY <3>1, <2>1, <2>2, <2>4, <2>10 DEF Recorded
    <3>2. CASE r # new
      <4>1. Recorded(r)
        BY <3>2, <2>12 DEF DeskInv
      <4>2. call[c].op # "audit" /\ \A d \in Call : call[d].op = "audit" => call'[d] = call[d]
        BY <1>1, <2>1
      <4> QED BY <4>1, <4>2, <1>1, <1>3 DEF Recorded, Settles
    <3> QED BY <3>1, <3>2
  <2>21. Desk!DecidedOnce'
    BY <1>1 DEF DeskInv, Desk!DecidedOnce
  <2>22. faulted' \in Nat
    BY <1>3 DEF DeskInv
  <2> QED BY <2>1, <2>8, <2>13, <2>14, <2>17, <2>18, <2>19, <2>20, <2>21, <2>22 DEF DeskInv
<1> QED BY <1>1, <1>2, <1>3

LEMMA DeskRecord == ASSUME DeskInv, NEW c \in Call, Desk!Record(c) PROVE DeskInv'
<1> PICK kind, n, verdict : kind = call[c].kind /\ n = call[c].n /\ verdict = call[c].verdict
  OBVIOUS
<1> PICK new : new = [kind |-> kind, n |-> n, verdict |-> verdict, by |-> c]
  OBVIOUS
<1>1. /\ call[c].op = "audit" /\ Desk!Goes(c, Desk!Over)
      /\ UNCHANGED <<rows, announced, crowded, contested>>
      /\ \/ trail' = trail \cup {new} /\ UNCHANGED faulted
         \/ UNCHANGED trail /\ Desk!Fault
  BY DEF Desk!Record, Desk!At
<1>2. CASE UNCHANGED trail /\ Desk!Fault
  BY <1>1, <1>2, DeskOver
<1>3. CASE trail' = trail \cup {new} /\ UNCHANGED faulted
  <2>1. DOMAIN call' = Call /\ call'[c] = Desk!Over /\ \A d \in Call : d # c => call'[d] = call[d]
    BY <1>1, DeskCallTo
  <2>2. DOMAIN Desk!Over = DOMAIN Desk!Idle /\ Desk!Over.op = "over"
    BY DEF Desk!Over, Desk!Idle
  <2>3. new.kind = kind /\ new.n = n /\ new.verdict = verdict /\ new.by = c
    OBVIOUS
  <2>4. Numbered /\ Numbered'
    BY <1>1 DEF DeskInv, Numbered, Desk!Of
  <2>5. PICK old \in rows :
          /\ old.kind = kind /\ old.n = n /\ old.status # "pending"
          /\ \/ <<kind, n>> \in contested
             \/ /\ \A d \in Call \ {c} : ~Settles(d, "audit", kind, n)
                /\ \A t \in trail : t.kind = kind => t.n # n
    BY <1>1 DEF DeskInv, Auditing
  <2>6. \A d \in Call : \A op \in {"write", "audit"} :
          \A k, m : Settles(d, op, k, m)' <=> d # c /\ Settles(d, op, k, m)
    BY <2>1, <2>2 DEF Settles
  <2>7. ASSUME NEW d \in Call PROVE (DeskCalls(d) /\ Deciding(d) /\ Auditing(d))'
    <3>1. DeskCalls(d) /\ Deciding(d) /\ Auditing(d)
      BY DEF DeskInv
    <3>2. DeskCalls(d)'
      BY <3>1, <2>1, <2>2 DEF DeskCalls, HoldsRow
    <3>3. Deciding(d)'
      BY <3>1, <1>1, <2>1, <2>2, <2>6 DEF Deciding
    <3>4. Auditing(d)'
      <4> SUFFICES ASSUME call'[d].op = "audit" PROVE Auditing(d)'
        BY DEF Auditing
      <4>0. d # c /\ call'[d] = call[d] /\ call[d].op = "audit" /\ Settles(d, "audit", call[d].kind, call[d].n)
        BY <2>1, <2>2 DEF Settles
      <4>1. PICK r \in rows :
              /\ r.kind = call[d].kind /\ r.n = call[d].n /\ r.status # "pending"
              /\ \/ <<r.kind, r.n>> \in contested
                 \/ /\ \A e \in Call \ {d} : ~Settles(e, "audit", r.kind, r.n)
                    /\ \A t \in trail : t.kind = r.kind => t.n # r.n
        BY <3>1, <4>0 DEF Auditing
      <4>2. Settles(c, "audit", kind, n)
        BY <1>1 DEF Settles
      <4>3. \/ <<r.kind, r.n>> \in contested
            \/ ~(r.kind = kind /\ r.n = n)
        BY <4>0, <4>1, <4>2
      <4>4. \/ <<r.kind, r.n>> \in contested'
            \/ /\ \A e \in Call \ {d} : ~Settles(e, "audit", r.kind, r.n)'
               /\ \A t \in trail' : t.kind = r.kind => t.n # r.n
        BY <4>1, <4>3, <2>3, <2>6, <1>1, <1>3
      <4> QED BY <4>0, <4>1, <4>4, <1>1 DEF Auditing
    <3> QED BY <3>2, <3>3, <3>4
  <2>8. \A d \in Call : \A k : Inserts(d, k)' => Inserts(d, k)
    BY <2>1, <2>2 DEF Inserts
  <2>9. \A k \in Desk!Kind \ crowded' : Waiting(k)'
    BY <1>1, <2>8 DEF DeskInv, Waiting, IsLast
  <2>10. \A t \in trail' : Trailed(t)'
    BY <1>1, <1>3, <2>3, <2>5 DEF DeskInv, Trailed
  <2>11. \A m \in announced' : ToldOf(m)'
    BY <1>1, <2>8 DEF DeskInv, ToldOf, IsLast
  <2>12. ASSUME NEW r \in rows' PROVE Recorded(r)'
    <3>1. Recorded(r)
      BY <1>1 DEF DeskInv
    <3> SUFFICES ASSUME r.status # "pending", faulted = 0 PROVE Recorded(r)'
      BY <1>3 DEF Recorded, DeskInv
    <3>2. CASE \E t \in trail : t.kind = r.kind /\ t.n = r.n /\ t.verdict = r.status /\ t.by = r.by
      BY <3>2, <1>3 DEF Recorded
    <3>3. CASE r.by \in Call /\ Settles(r.by, "audit", r.kind, r.n) /\ call[r.by].verdict = r.status
      <4>1. CASE r.by = c
        BY <3>3, <4>1, <1>3, <2>3 DEF Recorded, Settles
      <4>2. CASE r.by # c
        BY <3>3, <4>2, <2>1 DEF Recorded, Settles
      <4> QED BY <4>1, <4>2
    <3> QED BY <3>1, <3>2, <3>3 DEF Recorded, DeskInv
  <2>13. Desk!DecidedOnce'
    <3> SUFFICES ASSUME NEW t \in trail', NEW u \in trail', t.kind = u.kind, t.n = u.n
                 PROVE t = u \/ <<t.kind, t.n>> \in contested'
      BY DEF Desk!DecidedOnce
    <3>1. CASE t \in trail /\ u \in trail
      BY <3>1, <1>1 DEF DeskInv, Desk!DecidedOnce
    <3>2. CASE t = new \/ u = new
      BY <3>2, <1>1, <1>3, <2>3, <2>5
    <3> QED BY <3>1, <3>2, <1>3
  <2>14. faulted' \in Nat
    BY <1>3 DEF DeskInv
  <2> QED BY <2>1, <2>4, <2>7, <2>9, <2>10, <2>11, <2>12, <2>13, <2>14 DEF DeskInv
<1> QED BY <1>1, <1>2, <1>3

\* The score reads the requests and writes its own row.
LEMMA DeskScore ==
  ASSUME DeskInv, \/ Desk!SuspendGuest
                  \/ \E c \in Call : Desk!Assess(c) \/ Desk!Save(c)
  PROVE DeskInv'
<1>1. CASE Desk!SuspendGuest
  BY <1>1, DeskQuiet DEF Desk!SuspendGuest, DeskInv
<1>2. ASSUME NEW c \in Call, Desk!Assess(c) PROVE DeskInv'
  <2> PICK rec : rec = [Desk!Idle EXCEPT !.op = "save", !.signals = Desk!Signals]
    OBVIOUS
  <2>1. rec.op = "save" /\ DOMAIN rec = DOMAIN Desk!Idle
    BY DEF Desk!Idle
  <2>2. /\ Desk!Goes(c, rec) /\ UNCHANGED <<rows, announced, trail, crowded, contested, faulted>>
        /\ call[c].op = "new"
    BY <1>2 DEF Desk!Assess, Desk!At
  <2>3. DOMAIN call' = Call /\ call'[c] = rec /\ \A d \in Call : d # c => call'[d] = call[d]
    BY <2>2, DeskCallTo
  <2>4. faulted' \in Nat
    BY <2>2 DEF DeskInv
  <2> QED BY <2>1, <2>2, <2>3, <2>4, DeskQuiet
<1>3. ASSUME NEW c \in Call, Desk!Save(c) PROVE DeskInv'
  <2>1. /\ Desk!Goes(c, Desk!Over) /\ call[c].op = "save"
        /\ UNCHANGED <<rows, announced, trail, crowded, contested>>
        /\ UNCHANGED faulted \/ Desk!Fault
    BY <1>3 DEF Desk!Save, Desk!At
  <2>2. DOMAIN Desk!Over = DOMAIN Desk!Idle /\ Desk!Over.op = "over"
    BY DEF Desk!Over, Desk!Idle
  <2>3. DOMAIN call' = Call /\ call'[c] = Desk!Over /\ \A d \in Call : d # c => call'[d] = call[d]
    BY <2>1, DeskCallTo
  <2>4. faulted' \in Nat /\ (faulted > 0 => faulted' > 0)
    BY <2>1 DEF DeskInv, Desk!Fault
  <2> QED BY <2>1, <2>2, <2>3, <2>4, DeskQuiet
<1> QED BY <1>1, <1>2, <1>3

LEMMA DeskStep == ASSUME DeskInv, [Desk!Next]_(Desk!moderationVars) PROVE DeskInv'
<1>1. CASE UNCHANGED Desk!moderationVars
  BY <1>1, DeskQuiet DEF Desk!moderationVars, DeskInv
<1>2. ASSUME NEW c \in Call, Desk!SubmitVerification(c) \/ Desk!FileReport(c) PROVE DeskInv'
  BY <1>2, DeskLookUp DEF Desk!SubmitVerification, Desk!FileReport, Desk!Kind
<1>3. ASSUME NEW c \in Call, NEW r \in rows,
             Desk!Approve(c, r) \/ Desk!Reject(c, r) \/ Desk!Resolve(c, r) \/ Desk!Dismiss(c, r)
      PROVE DeskInv'
  BY <1>3, DeskDecide DEF Desk!Approve, Desk!Reject, Desk!Resolve, Desk!Dismiss
<1> QED BY <1>1, <1>2, <1>3, DeskInsert, DeskWrite, DeskRecord, DeskScore DEF Desk!Next

LEMMA DeskMeans == ASSUME DeskInv PROVE Desk!ModerationIsExplained
<1>1. Desk!OneWaits
  <2> SUFFICES ASSUME NEW k \in Desk!Kind \ crowded
               PROVE Desk!Cardinality({r \in Desk!Of(k) : r.status = "pending"}) <= 1
    BY DEF Desk!OneWaits
  <2> PICK waits : waits = {r \in Desk!Of(k) : r.status = "pending"}
    OBVIOUS
  <2>1. \A r, s \in waits : r = s
    <3>1. ASSUME NEW r \in waits, NEW s \in waits PROVE r = s
      <4>1. r \in rows /\ s \in rows /\ r.kind = k /\ s.kind = k /\ IsLast(r) /\ IsLast(s) /\ Numbered
        BY DEF DeskInv, Waiting, Desk!Of
      <4>2. r.n = s.n
        BY <4>1 DEF IsLast, Numbered
      <4> QED BY <4>1, <4>2 DEF Numbered
    <3> QED BY <3>1
  <2>2. waits = {} \/ \E r : waits = {r}
    BY <2>1
  <2>3. Cardinality(waits) <= 1
    <3>1. CASE waits = {}
      BY <3>1, FS_EmptySet
    <3>2. ASSUME NEW r, waits = {r} PROVE Cardinality(waits) <= 1
      <4>1. Cardinality({r}) = 1
        BY FS_Singleton
      <4> QED BY <4>1, <3>2
    <3> QED BY <3>1, <3>2, <2>2
  <2> QED BY <2>3, DeskCard
<1>2. Desk!AnnouncedIsVerified
  <2> SUFFICES ASSUME NEW n \in announced, "kyc" \notin crowded, <<"kyc", n>> \notin contested
               PROVE Desk!IsVerified
    BY DEF Desk!AnnouncedIsVerified
  <2>1. PICK r \in rows : r.kind = "kyc" /\ r.status = "approved" /\ IsLast(r)
    BY DEF DeskInv, ToldOf
  <2>2. Desk!Of("kyc") # {} /\ Desk!Latest("kyc") = r
    BY <2>1, LatestIsLast DEF DeskInv
  <2> QED BY <2>1, <2>2 DEF Desk!IsVerified
<1>3. Desk!TrailAgrees
  BY DEF DeskInv, Recorded, Settles, Desk!TrailAgrees
<1> QED BY <1>1, <1>2, <1>3 DEF DeskInv, Desk!ModerationIsExplained

-----------------------------------------------------------------------------
(* Threads and unread counts: Messaging. *)

Side == Threads!Party
Writer == Side \cup {"cohost"}
ThreadFields == {"last", "host", "guest"}
CallFields == {"at", "who", "copy", "now"}
Underway == {"mark", "persist"}

ThreadType ==
  /\ DOMAIN call = Call /\ DOMAIN conv = ThreadFields
  /\ DOMAIN shown = Side /\ DOMAIN marked = Side
  /\ clock \in Nat \ {0} /\ faulted \in Nat
  /\ \A p \in Side : shown[p] \subseteq messages /\ marked[p] \in Nat /\ marked[p] < clock

\* A message has the time at which it was made, and its own side has seen it.
Delivered(m) ==
  /\ m.at \in Nat \ {0} /\ m.at < clock /\ m.from \in Writer
  /\ m \in shown[Threads!SideOf(m.from)]

\* A marker is a time at which its side marked.  A message made at that time is its own.
Marker(v, p) ==
  /\ v \in Nat /\ v <= marked[p]
  /\ \A m \in messages : m.at = v => Threads!SideOf(m.from) = p
  /\ \A d \in Call : call[d].at = "persist" /\ call[d].now = v => Threads!SideOf(call[d].who) = p

ThreadCall(c) ==
  /\ DOMAIN call[c] = CallFields /\ DOMAIN call[c].copy = ThreadFields
  /\ call[c].at \in {"upload", "post", "persist"} => call[c].who \in Writer
  /\ call[c].at = "persist" =>
       /\ call[c].now \in Nat \ {0} /\ call[c].now < clock
       /\ call[c].who = "cohost" => call[c].copy["host"] = call[c].now

\* A message that a side was shown is read, or will be.
ReadBy(p, m) ==
  \/ m.from = p \/ m \notin shown[p] \/ m.at <= conv[p]
  \/ p \in reverted \/ faulted > 0
  \/ \E c \in Call : call[c].at \in Underway /\ m.at <= call[c].copy[p]

ThreadInv ==
  /\ ThreadType
  /\ \A m \in messages : Delivered(m)
  /\ \A c \in Call : ThreadCall(c)
  /\ \A p \in Side : /\ Marker(conv[p], p) /\ \A c \in Call : Marker(call[c].copy[p], p)
                     /\ \A m \in messages : ReadBy(p, m)

LEMMA ThreadRecords ==
  /\ DOMAIN Threads!Idle = CallFields /\ Threads!Idle.at = "new" /\ Threads!Idle.copy = Threads!NoThread
  /\ DOMAIN Threads!Over = CallFields /\ Threads!Over.at = "over" /\ Threads!Over.copy = Threads!NoThread
  /\ DOMAIN Threads!NoThread = ThreadFields /\ \A p \in Side : Threads!NoThread[p] = 0
  /\ Side \subseteq ThreadFields
  /\ \A who \in Writer : Threads!SideOf(who) \in Side
BY DEF Threads!Idle, Threads!Over, Threads!NoThread, CallFields, ThreadFields, Side, Threads!Party,
       Writer, Threads!SideOf

LEMMA ThreadInit == ASSUME Threads!Init PROVE ThreadInv
<1>1. /\ conv = Threads!NoThread /\ messages = {} /\ call = [c \in Call |-> Threads!Idle] /\ clock = 1
      /\ shown = [p \in Side |-> {}] /\ marked = [p \in Side |-> 0] /\ faulted = 0
  BY DEF Threads!Init, Side
<1>2. ThreadType
  BY <1>1, ThreadRecords DEF ThreadType
<1>3. \A p \in Side : Marker(0, p)
  BY <1>1, ThreadRecords DEF Marker
<1>4. \A c \in Call : ThreadCall(c)
  BY <1>1, ThreadRecords DEF ThreadCall
<1> QED BY <1>1, <1>2, <1>3, <1>4, ThreadRecords DEF ThreadInv

-----------------------------------------------------------------------------
\* A marker stays one while nothing else is made at its time.
LEMMA MarkerStays ==
  ASSUME ThreadInv, NEW p \in Side, NEW v, Marker(v, p), v < clock,
         marked'[p] \in Nat, marked[p] <= marked'[p],
         \A m \in messages' :
           \/ m \in messages
           \/ \E d \in Call : /\ call[d].at = "persist" /\ call[d].now = m.at
                              /\ call[d].who = m.from,
         \A d \in Call : call'[d].at = "persist" =>
           call'[d].now >= clock \/ call'[d] = call[d]
  PROVE Marker(v, p)'
<1>1. v \in Nat /\ clock \in Nat /\ marked[p] \in Nat
  BY DEF ThreadInv, ThreadType, Marker
<1>2. v <= marked'[p]
  BY <1>1 DEF Marker
<1>3. ASSUME NEW m \in messages', m.at = v PROVE Threads!SideOf(m.from) = p
  BY <1>3 DEF Marker
<1>4. ASSUME NEW d \in Call, call'[d].at = "persist", call'[d].now = v
      PROVE Threads!SideOf(call'[d].who) = p
  BY <1>1, <1>4 DEF Marker
<1> QED BY <1>1, <1>2, <1>3, <1>4 DEF Marker

\* A call that goes on with what it loaded, or ends.
LEMMA ThreadGoes ==
  ASSUME ThreadInv, NEW c \in Call, NEW rec, Threads!Goes(c, rec),
         UNCHANGED <<messages, shown, marked, reverted>>, clock' \in Nat, clock <= clock',
         DOMAIN conv' = ThreadFields, \A p \in Side : conv'[p] = conv[p],
         faulted' \in Nat, faulted > 0 => faulted' > 0,
         DOMAIN rec = CallFields, DOMAIN rec.copy = ThreadFields, rec.at # "persist",
         rec.at \in {"upload", "post"} => rec.who \in Writer,
         \A p \in Side : Marker(rec.copy[p], p),
         call[c].at \in Underway => faulted' > 0
  PROVE ThreadInv'
<1>1. DOMAIN call' = Call /\ call'[c] = rec /\ \A d \in Call : d # c => call'[d] = call[d]
  BY DEF Threads!Goes, ThreadInv, ThreadType
<1>2. ThreadType'
  BY <1>1 DEF ThreadInv, ThreadType
<1>3. \A m \in messages' : Delivered(m)'
  BY DEF ThreadInv, ThreadType, Delivered
<1>4. ASSUME NEW d \in Call PROVE ThreadCall(d)'
  <2>1. ThreadCall(d) /\ clock \in Nat /\ clock' \in Nat
    BY DEF ThreadInv, ThreadType
  <2>2. CASE d = c
    BY <2>2, <1>1 DEF ThreadCall
  <2>3. CASE d # c
    BY <2>1, <2>3, <1>1 DEF ThreadCall
  <2> QED BY <2>2, <2>3
<1>5. ASSUME NEW p \in Side, NEW v, Marker(v, p) PROVE Marker(v, p)'
  <2>1. v < clock /\ marked'[p] \in Nat /\ marked[p] <= marked'[p]
    BY <1>5 DEF ThreadInv, ThreadType, Marker
  <2> QED BY <2>1, <1>1, <1>5, MarkerStays
<1>6. ASSUME NEW p \in Side PROVE Marker(conv[p], p)' /\ \A d \in Call : Marker(call[d].copy[p], p)'
  <2>1. Marker(conv[p], p) /\ \A d \in Call : Marker(call[d].copy[p], p)
    BY DEF ThreadInv
  <2>2. Marker(conv'[p], p) /\ \A d \in Call : Marker(call'[d].copy[p], p)
    BY <2>1, <1>1
  <2>3. \A v : Marker(v, p) => Marker(v, p)'
    BY <1>5
  <2> QED BY <2>2, <1>5 DEF Marker
<1>7. ASSUME NEW p \in Side, NEW m \in messages' PROVE ReadBy(p, m)'
  <2>1. ReadBy(p, m)
    BY DEF ThreadInv
  <2>2. \A d \in Call : call[d].at \in Underway => call'[d] = call[d] \/ faulted' > 0
    BY <1>1
  <2> QED BY <2>1, <2>2 DEF ReadBy
<1> QED BY <1>2, <1>3, <1>4, <1>6, <1>7 DEF ThreadInv

\* A mark, a message or both are made at the time it is now, over what is in the table.
Stamps(rec, S) ==
  /\ \A p \in Side : IF p \in S THEN rec.copy[p] = clock ELSE Marker(rec.copy[p], p)
  /\ rec.at = "persist" => /\ rec.who \in Writer /\ rec.now = clock
                           /\ rec.who = "cohost" => rec.copy["host"] = clock
                           /\ \A p \in S : Threads!SideOf(rec.who) = p
  /\ DOMAIN shown' = Side /\ DOMAIN marked' = Side
  /\ \A p \in Side : /\ shown'[p] = IF p \in S THEN shown[p] \cup messages ELSE shown[p]
                     /\ marked'[p] = IF p \in S THEN clock ELSE marked[p]

LEMMA ThreadStamp ==
  ASSUME ThreadInv, NEW c \in Call, NEW rec, Threads!Goes(c, rec), NEW S \in SUBSET Side,
         Stamps(rec, S), UNCHANGED <<conv, messages, reverted, faulted>>, clock' = clock + 1,
         call[c].at \notin Underway, rec.at \in Underway,
         DOMAIN rec = CallFields, DOMAIN rec.copy = ThreadFields
  PROVE ThreadInv'
<1>0. /\ \A p \in Side : IF p \in S THEN rec.copy[p] = clock ELSE Marker(rec.copy[p], p)
      /\ rec.at = "persist" => /\ rec.who \in Writer /\ rec.now = clock
                               /\ rec.who = "cohost" => rec.copy["host"] = clock
                               /\ \A p \in S : Threads!SideOf(rec.who) = p
      /\ DOMAIN shown' = Side /\ DOMAIN marked' = Side
      /\ \A p \in Side : /\ shown'[p] = IF p \in S THEN shown[p] \cup messages ELSE shown[p]
                         /\ marked'[p] = IF p \in S THEN clock ELSE marked[p]
  BY DEF Stamps
<1>1. DOMAIN call' = Call /\ call'[c] = rec /\ \A d \in Call : d # c => call'[d] = call[d]
  BY DEF Threads!Goes, ThreadInv, ThreadType
<1>2. clock \in Nat \ {0} /\ \A p \in Side : marked[p] \in Nat /\ marked[p] < clock
  BY DEF ThreadInv, ThreadType
<1>3. ThreadType'
  <2>1. \A p \in Side : shown'[p] \subseteq messages /\ marked'[p] \in Nat /\ marked'[p] < clock'
    BY <1>0, <1>2 DEF ThreadInv, ThreadType
  <2>2. clock' \in Nat \ {0}
    BY <1>0, <1>2
  <2> QED BY <1>0, <2>1, <2>2, <1>1 DEF ThreadInv, ThreadType
<1>4. ASSUME NEW m \in messages PROVE Delivered(m)' /\ m.at \in Nat /\ m.at < clock
  <2>1. Delivered(m) /\ Threads!SideOf(m.from) \in Side
    BY ThreadRecords DEF ThreadInv, Delivered
  <2> QED BY <1>0, <2>1, <1>2 DEF Delivered
<1>5. ASSUME NEW d \in Call PROVE ThreadCall(d)'
  <2>1. ThreadCall(d)
    BY DEF ThreadInv
  <2>2. CASE d = c
    BY <1>0, <2>2, <1>1, <1>2 DEF ThreadCall, Underway
  <2>3. CASE d # c
    BY <1>0, <2>1, <2>3, <1>1, <1>2 DEF ThreadCall
  <2> QED BY <1>0, <2>2, <2>3
<1>6. ASSUME NEW p \in Side, NEW v, Marker(v, p) PROVE Marker(v, p)'
  <2>1. v < clock /\ marked'[p] \in Nat /\ marked[p] <= marked'[p]
    BY <1>0, <1>2, <1>6 DEF Marker
  <2>2. \A d \in Call : call'[d].at = "persist" => call'[d].now >= clock \/ call'[d] = call[d]
    BY <1>0, <1>1, <1>2
  <2> QED BY <1>0, <2>1, <2>2, <1>6, MarkerStays
<1> PICK now : now = clock
  OBVIOUS
<1>7. ASSUME NEW p \in S PROVE Marker(now, p)'
  <2>1. \A d \in Call : call'[d].at = "persist" /\ call'[d].now = clock => Threads!SideOf(call'[d].who) = p
    <3>1. \A d \in Call : d # c => ~(call[d].at = "persist" /\ call[d].now = clock)
      BY <1>0, <1>2 DEF ThreadInv, ThreadCall
    <3> QED BY <1>0, <3>1, <1>1
  <2>2. \A m \in messages : m.at # clock
    BY <1>2, <1>4
  <2> QED BY <1>0, <2>1, <2>2, <1>2 DEF Marker
<1>8. ASSUME NEW p \in Side PROVE Marker(conv[p], p)' /\ \A d \in Call : Marker(call[d].copy[p], p)'
  <2>1. Marker(conv[p], p) /\ \A d \in Call : Marker(call[d].copy[p], p)
    BY DEF ThreadInv
  <2>2. Marker(conv[p], p)'
    BY <1>0, <2>1, <1>6 DEF Marker
  <2>3. ASSUME NEW d \in Call, d # c PROVE Marker(call[d].copy[p], p)'
    BY <1>0, <2>1, <2>3, <1>1, <1>6 DEF Marker
  <2>4. Marker(call[c].copy[p], p)'
    <3>1. CASE p \in S
      BY <1>0, <3>1, <1>1, <1>7 DEF Marker
    <3>2. CASE p \notin S
      BY <1>0, <3>2, <1>1, <1>6 DEF Marker
    <3> QED BY <1>0, <3>1, <3>2
  <2> QED BY <1>0, <2>2, <2>3, <2>4
<1>9. ASSUME NEW p \in Side, NEW m \in messages' PROVE ReadBy(p, m)'
  <2>1. ReadBy(p, m) /\ m.at \in Nat /\ m.at < clock
    BY <1>0, <1>4 DEF ThreadInv
  <2>2. \A d \in Call : call[d].at \in Underway => call'[d] = call[d]
    BY <1>0, <1>1
  <2>3. CASE p \in S
    <3>1. call'[c].at \in Underway /\ m.at <= call'[c].copy[p]
      BY <1>0, <2>1, <2>3, <1>1, <1>2
    <3> QED BY <1>0, <3>1 DEF ReadBy
  <2>4. CASE p \notin S
    BY <1>0, <2>1, <2>2, <2>4 DEF ReadBy
  <2> QED BY <1>0, <2>3, <2>4
<1> QED BY <1>0, <1>3, <1>4, <1>5, <1>8, <1>9 DEF ThreadInv

\* A thread is written back, with its message if it has one.
LEMMA ThreadWrite ==
  ASSUME ThreadInv, NEW c \in Call, Threads!Goes(c, Threads!Over), NEW new,
         Threads!UpdateConversation(c), UNCHANGED <<clock, marked, faulted>>,
         messages' = messages \cup new,
         call[c].at \in Underway, new # {} => call[c].at = "persist",
         \A m \in new : m.from = call[c].who /\ m.at = call[c].now,
         DOMAIN shown' = Side,
         \A p \in Side : shown'[p] = shown[p] \cup {m \in new : Threads!SideOf(m.from) = p}
  PROVE ThreadInv'
<1>1. DOMAIN call' = Call /\ call'[c] = Threads!Over /\ \A d \in Call : d # c => call'[d] = call[d]
  BY DEF Threads!Goes, ThreadInv, ThreadType
<1>2. /\ conv' = call[c].copy
      /\ \A p \in Side : p \in reverted' <=> p \in reverted \/ call[c].copy[p] < conv[p]
  BY DEF Threads!UpdateConversation, Side
<1>3. /\ clock \in Nat \ {0} /\ ThreadCall(c)
      /\ \A p \in Side : marked[p] \in Nat /\ marked[p] < clock /\ conv[p] \in Nat /\ call[c].copy[p] \in Nat
  BY DEF ThreadInv, ThreadType, Marker
<1>4. ASSUME NEW m \in new
      PROVE /\ m.at \in Nat \ {0} /\ m.at < clock /\ m.from \in Writer
            /\ Threads!SideOf(m.from) \in Side /\ m \in shown'[Threads!SideOf(m.from)]
            /\ m.from = "cohost" => conv'["host"] = m.at
  <2>1. /\ m.at \in Nat \ {0} /\ m.at < clock /\ m.from \in Writer
        /\ m.from = "cohost" => conv'["host"] = m.at
    BY <1>2, <1>3 DEF ThreadCall
  <2>2. Threads!SideOf(m.from) \in Side
    BY <2>1, ThreadRecords
  <2> QED BY <2>1, <2>2
<1>5. ThreadType'
  <2>1. \A p \in Side : shown'[p] \subseteq messages'
    BY DEF ThreadInv, ThreadType
  <2>2. DOMAIN conv' = ThreadFields
    BY <1>2, <1>3 DEF ThreadCall
  <2> QED BY <2>1, <2>2, <1>1 DEF ThreadInv, ThreadType
<1>6. ASSUME NEW m \in messages' PROVE Delivered(m)'
  <2>1. CASE m \in new
    BY <2>1, <1>4 DEF Delivered
  <2>2. CASE m \in messages
    <3>1. Delivered(m) /\ Threads!SideOf(m.from) \in Side
      BY <2>2, ThreadRecords DEF ThreadInv, Delivered
    <3> QED BY <3>1 DEF Delivered
  <2> QED BY <2>1, <2>2
<1>7. ASSUME NEW d \in Call PROVE ThreadCall(d)'
  <2>1. ThreadCall(d)
    BY DEF ThreadInv
  <2>2. CASE d = c
    BY <2>2, <1>1, ThreadRecords DEF ThreadCall
  <2>3. CASE d # c
    BY <2>1, <2>3, <1>1 DEF ThreadCall
  <2> QED BY <2>2, <2>3
<1>8. ASSUME NEW p \in Side, NEW v, Marker(v, p) PROVE Marker(v, p)'
  <2>1. v < clock /\ marked'[p] \in Nat /\ marked[p] <= marked'[p]
    BY <1>3, <1>8 DEF Marker
  <2>2. \A m \in messages' :
          \/ m \in messages
          \/ \E d \in Call : call[d].at = "persist" /\ call[d].now = m.at /\ call[d].who = m.from
    OBVIOUS
  <2>3. \A d \in Call : call'[d].at = "persist" => call'[d].now >= clock \/ call'[d] = call[d]
    BY <1>1, ThreadRecords
  <2> QED BY <2>1, <2>2, <2>3, <1>8, MarkerStays
<1>9. ASSUME NEW p \in Side PROVE Marker(conv[p], p)' /\ \A d \in Call : Marker(call[d].copy[p], p)'
  <2>1. Marker(conv[p], p) /\ \A d \in Call : Marker(call[d].copy[p], p)
    BY DEF ThreadInv
  <2>2. \A d \in Call : Marker(call[d].copy[p], p) /\ call'[d].copy[p] = call[d].copy[p] => Marker(call[d].copy[p], p)'
    BY <1>8 DEF Marker
  <2>3. Marker(conv[p], p)'
    BY <2>1, <1>2, <1>8 DEF Marker
  <2>4. ASSUME NEW d \in Call, d # c PROVE Marker(call[d].copy[p], p)'
    BY <2>1, <2>2, <2>4, <1>1
  <2>5. Marker(call[c].copy[p], p)'
    <3>1. Marker(0, p)
      <4>1. \A m \in messages : m.at # 0
        BY DEF ThreadInv, Delivered
      <4>2. \A d \in Call : call[d].at = "persist" => call[d].now # 0
        BY DEF ThreadInv, ThreadCall
      <4> QED BY <4>1, <4>2, <1>3 DEF Marker
    <3> QED BY <3>1, <1>1, <1>8, ThreadRecords DEF Marker
  <2> QED BY <2>3, <2>4, <2>5
<1>10. ASSUME NEW p \in Side, NEW m \in messages' PROVE ReadBy(p, m)'
  <2> SUFFICES ASSUME m.from # p, m \in shown'[p], conv'[p] < m.at, p \notin reverted', ~(faulted > 0)
               PROVE \E d \in Call : call'[d].at \in Underway /\ m.at <= call'[d].copy[p]
    <3>1. m.at \in Nat /\ conv'[p] \in Nat
      BY <1>2, <1>3, <1>6 DEF Delivered
    <3> QED BY <3>1 DEF ReadBy
  <2>1. m \notin new \/ m \in messages
    <3> SUFFICES ASSUME m \in new, m \notin messages PROVE FALSE
      OBVIOUS
    <3>1. Threads!SideOf(m.from) = p
      BY DEF ThreadInv, ThreadType
    <3>2. m.from = "cohost" /\ p = "host"
      BY <3>1, <1>4 DEF Threads!SideOf, Writer, Side, Threads!Party
    <3> QED BY <3>2, <1>2, <1>3, <1>4
  <2>2. m \in messages /\ ReadBy(p, m) /\ Delivered(m)
    BY <2>1 DEF ThreadInv
  <2>3. conv[p] <= conv'[p] /\ p \notin reverted
    BY <1>2, <1>3
  <2>4. m.at \in Nat /\ ~(m.at <= conv[p])
    BY <2>2, <2>3, <1>2, <1>3 DEF Delivered
  <2>5. CASE m \in shown[p]
    <3>1. PICK d \in Call : call[d].at \in Underway /\ m.at <= call[d].copy[p]
      BY <2>2, <2>3, <2>4, <2>5 DEF ReadBy
    <3>2. d # c
      BY <3>1, <2>2, <1>2, <1>3 DEF Delivered
    <3> QED BY <3>1, <3>2, <1>1
  <2>6. CASE m \notin shown[p]
    <3>1. m \in new /\ Threads!SideOf(m.from) = p
      BY <2>6
    <3>2. m.from = "cohost" /\ p = "host"
      BY <3>1, <1>4 DEF Threads!SideOf, Writer, Side, Threads!Party
    <3> QED BY <3>1, <3>2, <1>2, <1>3, <1>4
  <2> QED BY <2>5, <2>6
<1> QED BY <1>5, <1>6, <1>7, <1>9, <1>10 DEF ThreadInv

-----------------------------------------------------------------------------
LEMMA ThreadStart ==
  ASSUME ThreadInv, NEW c \in Call, Threads!StartConversation(c) \/ Threads!CreateConversation(c)
  PROVE ThreadInv'
<1>1. \A p \in Side : Marker(0, p)
  <2>1. \A m \in messages : m.at # 0
    BY DEF ThreadInv, Delivered
  <2>2. \A d \in Call : call[d].at = "persist" => call[d].now # 0
    BY DEF ThreadInv, ThreadCall
  <2> QED BY <2>1, <2>2 DEF Marker, ThreadInv, ThreadType
<1>2. clock \in Nat /\ faulted \in Nat /\ DOMAIN conv = ThreadFields
  BY DEF ThreadInv, ThreadType
<1>3. CASE Threads!StartConversation(c)
  <2>0. PICK rec : rec = [Threads!Idle EXCEPT !.at = "create"]
    OBVIOUS
  <2>1. /\ Threads!Goes(c, rec) /\ call[c].at = "new"
        /\ UNCHANGED <<conv, messages, clock, shown, marked, reverted, faulted>>
    BY <1>3, <2>0 DEF Threads!StartConversation, Threads!At
  <2>2. DOMAIN rec = CallFields /\ rec.at = "create" /\ rec.copy = Threads!NoThread
    BY <2>0 DEF Threads!Idle, CallFields
  <2> QED BY <1>1, <1>2, <2>1, <2>2, ThreadRecords, ThreadGoes DEF Underway
<1>4. CASE Threads!CreateConversation(c)
  <2>1. /\ Threads!Goes(c, Threads!Over) /\ call[c].at = "create"
        /\ UNCHANGED <<messages, shown, marked, reverted, faulted>>
        /\ conv' = IF Threads!Started THEN conv ELSE [Threads!NoThread EXCEPT !.last = clock]
        /\ clock' = IF Threads!Started THEN clock ELSE clock + 1
    BY <1>4 DEF Threads!CreateConversation, Threads!At
  <2>2. DOMAIN conv' = ThreadFields /\ \A p \in Side : conv'[p] = conv[p]
    <3>1. CASE Threads!Started
      BY <3>1, <2>1, <1>2
    <3>2. CASE ~Threads!Started
      <4>1. conv = Threads!NoThread /\ conv' = [Threads!NoThread EXCEPT !.last = clock]
        BY <3>2, <2>1 DEF Threads!Started
      <4>2. "last" \notin Side
        BY DEF Side, Threads!Party
      <4> QED BY <4>1, <4>2, ThreadRecords
    <3> QED BY <3>1, <3>2
  <2>3. clock' \in Nat /\ clock <= clock'
    BY <2>1, <1>2
  <2> QED BY <1>1, <1>2, <2>1, <2>2, <2>3, ThreadRecords, ThreadGoes DEF Underway
<1> QED BY <1>3, <1>4

LEMMA ThreadOpen ==
  ASSUME ThreadInv, NEW c \in Call,
         \/ \E who \in Writer : Threads!SendMessage(c, who) \/ Threads!SendAttachment(c, who)
         \/ Threads!Upload(c)
  PROVE ThreadInv'
<1>1. clock \in Nat /\ faulted \in Nat /\ DOMAIN conv = ThreadFields
  BY DEF ThreadInv, ThreadType
<1>2. ASSUME NEW who \in Writer, NEW at \in {"post", "upload"}, Threads!Open(c, who, at) PROVE ThreadInv'
  <2>0. PICK rec : rec = [Threads!Idle EXCEPT !.at = at, !.who = who, !.copy = conv]
    OBVIOUS
  <2>1. /\ Threads!Goes(c, rec) /\ call[c].at = "new"
        /\ UNCHANGED <<conv, messages, clock, shown, marked, reverted, faulted>>
    BY <1>2, <2>0 DEF Threads!Open, Threads!At
  <2>2. DOMAIN rec = CallFields /\ rec.at = at /\ rec.who = who /\ rec.copy = conv
    BY <2>0 DEF Threads!Idle, CallFields
  <2>3. \A p \in Side : Marker(rec.copy[p], p)
    BY <2>2 DEF ThreadInv
  <2> QED BY <1>1, <2>1, <2>2, <2>3, ThreadGoes DEF Underway
<1>3. CASE Threads!Upload(c)
  <2>0. PICK rec : rec = [call[c] EXCEPT !.at = "post"]
    OBVIOUS
  <2>1. /\ Threads!Goes(c, rec) /\ call[c].at = "upload"
        /\ UNCHANGED <<conv, messages, clock, shown, marked, reverted, faulted>>
    BY <1>3, <2>0 DEF Threads!Upload, Threads!At
  <2>2. /\ DOMAIN rec = CallFields /\ rec.at = "post" /\ rec.who = call[c].who /\ rec.copy = call[c].copy
        /\ rec.who \in Writer /\ DOMAIN rec.copy = ThreadFields
    BY <2>0, <2>1 DEF ThreadInv, ThreadCall, CallFields
  <2>3. \A p \in Side : Marker(rec.copy[p], p)
    BY <2>2 DEF ThreadInv
  <2> QED BY <1>1, <2>1, <2>2, <2>3, ThreadGoes DEF Underway
<1> QED BY <1>2, <1>3 DEF Threads!SendMessage, Threads!SendAttachment

LEMMA ThreadPost == ASSUME ThreadInv, NEW c \in Call, Threads!Post(c) PROVE ThreadInv'
<1>1. DOMAIN call[c] = CallFields /\ DOMAIN call[c].copy = ThreadFields
  BY DEF ThreadInv, ThreadCall
<1> PICK who, copied, now : who = call[c].who /\ copied = call[c].copy /\ now = clock
  OBVIOUS
<1> PICK posted : posted = [copied EXCEPT !.last = now]
  OBVIOUS
<1> PICK draft : draft = IF who = "cohost" THEN [posted EXCEPT !.host = now] ELSE posted
  OBVIOUS
<1> PICK rec : rec = [call[c] EXCEPT !.at = "persist", !.now = now, !.copy = draft]
  OBVIOUS
<1>2. /\ call[c].at = "post" /\ clock' = clock + 1 /\ Threads!Goes(c, rec)
      /\ IF who = "cohost" THEN Threads!Marks("host") ELSE UNCHANGED <<shown, marked>>
      /\ UNCHANGED <<conv, messages, reverted, faulted>>
  BY DEF Threads!Post, Threads!At, Threads!Posted, Threads!OnBehalf
<1>3. rec.at = "persist" /\ rec.now = clock /\ rec.copy = draft /\ rec.who = who /\ DOMAIN rec = CallFields
  BY <1>1 DEF CallFields
<1>4. who \in Writer
  BY <1>2 DEF ThreadInv, ThreadCall
<1> PICK S : S = IF who = "cohost" THEN {"host"} ELSE {}
  OBVIOUS
<1>5. /\ DOMAIN draft = ThreadFields
      /\ who = "cohost" => draft["host"] = clock
      /\ \A p \in Side : draft[p] = IF p \in S THEN clock ELSE copied[p]
  <2>1. "last" \notin Side
    BY DEF Side, Threads!Party
  <2>2. DOMAIN posted = ThreadFields /\ \A p \in Side : posted[p] = copied[p]
    BY <1>1, <2>1, ThreadRecords
  <2>3. CASE who = "cohost"
    BY <2>2, <2>3, ThreadRecords DEF ThreadFields
  <2>4. CASE who # "cohost"
    BY <2>2, <2>4
  <2> QED BY <2>3, <2>4
<1>6. S \in SUBSET Side /\ \A p \in S : Threads!SideOf(who) = p
  BY DEF Side, Threads!Party, Threads!SideOf
<1>7. /\ DOMAIN shown' = Side /\ DOMAIN marked' = Side
      /\ \A p \in Side : /\ shown'[p] = IF p \in S THEN shown[p] \cup messages ELSE shown[p]
                         /\ marked'[p] = IF p \in S THEN clock ELSE marked[p]
  <2>1. DOMAIN shown = Side /\ DOMAIN marked = Side
    BY DEF ThreadInv, ThreadType
  <2>2. CASE who = "cohost"
    BY <2>1, <2>2, <1>2 DEF Threads!Marks
  <2>3. CASE who # "cohost"
    BY <2>1, <2>3, <1>2
  <2> QED BY <2>2, <2>3
<1>8. \A p \in Side : IF p \in S THEN rec.copy[p] = clock ELSE Marker(rec.copy[p], p)
  BY <1>3, <1>5 DEF ThreadInv
<1>9. Stamps(rec, S)
  BY <1>3, <1>4, <1>5, <1>6, <1>7, <1>8 DEF Stamps
<1>10. /\ Threads!Goes(c, rec) /\ S \in SUBSET Side /\ UNCHANGED <<conv, messages, reverted, faulted>>
       /\ clock' = clock + 1 /\ call[c].at \notin Underway /\ rec.at \in Underway
       /\ DOMAIN rec = CallFields /\ DOMAIN rec.copy = ThreadFields
  BY <1>2, <1>3, <1>5, <1>6 DEF Underway
<1> QED BY ONLY ThreadInv, c \in Call, <1>9, <1>10, ThreadStamp

LEMMA ThreadMarkRead ==
  ASSUME ThreadInv, NEW c \in Call, NEW who \in Writer, Threads!MarkRead(c, who) PROVE ThreadInv'
<1> PICK p, now : p = Threads!SideOf(who) /\ now = clock
  OBVIOUS
<1> PICK draft : draft = [conv EXCEPT ![p] = now]
  OBVIOUS
<1> PICK rec : rec = [Threads!Idle EXCEPT !.at = "mark", !.who = who, !.copy = draft]
  OBVIOUS
<1>1. /\ call[c].at = "new" /\ clock' = clock + 1 /\ Threads!Goes(c, rec) /\ Threads!Marks(p)
      /\ UNCHANGED <<conv, messages, reverted, faulted>>
  BY DEF Threads!MarkRead, Threads!At, Threads!MarkReadBy
<1>2. rec.at = "mark" /\ rec.copy = draft /\ DOMAIN rec = CallFields
  BY DEF Threads!Idle, CallFields
<1>3. p \in Side /\ p \in ThreadFields /\ {p} \in SUBSET Side
  BY ThreadRecords
<1>4. DOMAIN draft = ThreadFields /\ \A q \in Side : draft[q] = IF q \in {p} THEN clock ELSE conv[q]
  BY <1>3, ThreadRecords DEF ThreadInv, ThreadType
<1>5. /\ DOMAIN shown' = Side /\ DOMAIN marked' = Side
      /\ \A q \in Side : /\ shown'[q] = IF q \in {p} THEN shown[q] \cup messages ELSE shown[q]
                         /\ marked'[q] = IF q \in {p} THEN clock ELSE marked[q]
  BY <1>1 DEF ThreadInv, ThreadType, Threads!Marks
<1>6. \A q \in Side : IF q \in {p} THEN rec.copy[q] = clock ELSE Marker(rec.copy[q], q)
  BY <1>2, <1>4 DEF ThreadInv
<1>7. Stamps(rec, {p})
  BY <1>2, <1>5, <1>6 DEF Stamps
<1> QED BY ONLY ThreadInv, c \in Call, <1>1, <1>2, <1>3, <1>4, <1>7, ThreadStamp DEF Underway

LEMMA ThreadSaves ==
  ASSUME ThreadInv, NEW c \in Call, Threads!Persist(c) \/ Threads!WriteMark(c) PROVE ThreadInv'
<1>1. /\ call[c].at \in Underway /\ Threads!Goes(c, Threads!Over) /\ UNCHANGED <<clock, marked>>
  BY DEF Threads!Persist, Threads!WriteMark, Threads!At, Underway
<1>2. CASE Threads!Fault /\ UNCHANGED <<messages, conv, shown, reverted>>
  <2>1. clock \in Nat /\ faulted' \in Nat /\ faulted' > 0 /\ DOMAIN conv = ThreadFields /\ clock <= clock
    BY <1>2 DEF ThreadInv, ThreadType, Threads!Fault
  <2>2. \A p \in Side : Marker(0, p)
    <3>1. \A m \in messages : m.at # 0
      BY DEF ThreadInv, Delivered
    <3>2. \A d \in Call : call[d].at = "persist" => call[d].now # 0
      BY DEF ThreadInv, ThreadCall
    <3> QED BY <3>1, <3>2 DEF Marker, ThreadInv, ThreadType
  <2> QED BY <1>1, <1>2, <2>1, <2>2, ThreadRecords, ThreadGoes
<1>3. CASE Threads!Persist(c) /\ ~(Threads!Fault /\ UNCHANGED <<messages, conv, shown, reverted>>)
  <2> PICK new : new = {[id |-> c, from |-> call[c].who, at |-> call[c].now]}
    OBVIOUS
  <2>1. /\ call[c].at = "persist" /\ messages' = messages \cup new /\ Threads!UpdateConversation(c)
        /\ shown' = [shown EXCEPT ![Threads!SideOf(call[c].who)] = @ \cup new] /\ UNCHANGED faulted
    BY <1>3 DEF Threads!Persist, Threads!At, Threads!AddMessage
  <2>2. \A m \in new : m.from = call[c].who /\ m.at = call[c].now
    OBVIOUS
  <2>3. call[c].who \in Writer
    BY <2>1 DEF ThreadInv, ThreadCall
  <2>4. /\ DOMAIN shown' = Side
        /\ \A p \in Side : shown'[p] = shown[p] \cup {m \in new : Threads!SideOf(m.from) = p}
    BY <2>1, <2>2, <2>3, ThreadRecords DEF ThreadInv, ThreadType
  <2> QED BY ONLY ThreadInv, c \in Call, <1>1, <2>1, <2>2, <2>4, ThreadWrite
<1>4. CASE Threads!WriteMark(c) /\ ~(Threads!Fault /\ UNCHANGED <<messages, conv, shown, reverted>>)
  <2>1. /\ call[c].at = "mark" /\ Threads!UpdateConversation(c) /\ UNCHANGED <<messages, shown, faulted>>
    BY <1>4 DEF Threads!WriteMark, Threads!At
  <2>2. messages' = messages \cup {} /\ DOMAIN shown' = Side
    BY <2>1 DEF ThreadInv, ThreadType
  <2>3. \A p \in Side : shown'[p] = shown[p] \cup {m \in {} : Threads!SideOf(m.from) = p}
    BY <2>1
  <2> QED BY ONLY ThreadInv, c \in Call, <1>1, <2>1, <2>2, <2>3, ThreadWrite
<1> QED BY <1>2, <1>3, <1>4

\* Blocks, the grant and templates leave the thread alone.
LEMMA ThreadAside ==
  ASSUME ThreadInv, UNCHANGED <<conv, messages, clock, shown, marked, reverted, faulted, call>>
  PROVE ThreadInv'
<1>1. \A m \in messages : Delivered(m)'
  BY DEF ThreadInv, Delivered
<1>2. \A c \in Call : ThreadCall(c)'
  BY DEF ThreadInv, ThreadCall
<1>3. \A p \in Side : \A v : Marker(v, p) => Marker(v, p)'
  BY DEF Marker
<1>4. \A p \in Side : Marker(conv[p], p)' /\ \A c \in Call : Marker(call[c].copy[p], p)'
  BY <1>3 DEF ThreadInv, Marker
<1>5. \A p \in Side : \A m \in messages : ReadBy(p, m)'
  BY DEF ThreadInv, ReadBy
<1> QED BY <1>1, <1>2, <1>4, <1>5 DEF ThreadInv, ThreadType

LEMMA ThreadTemplates ==
  ASSUME ThreadInv, NEW c \in Call, Threads!UpdateTemplate(c) \/ Threads!SaveTemplate(c) PROVE ThreadInv'
<1>0. PICK rec : rec = [Threads!Idle EXCEPT !.at = "template"]
  OBVIOUS
<1>1. /\ Threads!Goes(c, rec) \/ Threads!Goes(c, Threads!Over)
      /\ call[c].at \in {"new", "template"}
      /\ UNCHANGED <<conv, messages, clock, shown, marked, reverted, faulted>>
  BY <1>0 DEF Threads!UpdateTemplate, Threads!SaveTemplate, Threads!At
<1>2. DOMAIN rec = CallFields /\ rec.at = "template" /\ rec.copy = Threads!NoThread
  BY <1>0 DEF Threads!Idle, CallFields
<1>3. \A p \in Side : Marker(0, p)
  <2>1. \A m \in messages : m.at # 0
    BY DEF ThreadInv, Delivered
  <2>2. \A d \in Call : call[d].at = "persist" => call[d].now # 0
    BY DEF ThreadInv, ThreadCall
  <2> QED BY <2>1, <2>2 DEF Marker, ThreadInv, ThreadType
<1>4. clock \in Nat /\ clock <= clock /\ faulted \in Nat /\ DOMAIN conv = ThreadFields
  BY DEF ThreadInv, ThreadType
<1> QED BY <1>1, <1>2, <1>3, <1>4, ThreadRecords, ThreadGoes DEF Underway

LEMMA ThreadStep == ASSUME ThreadInv, [Threads!Next]_(Threads!messagingVars) PROVE ThreadInv'
<1>1. CASE UNCHANGED Threads!messagingVars
  BY <1>1, ThreadAside DEF Threads!messagingVars
<1>2. CASE \/ Threads!SetTeam \/ Threads!CreateTemplate \/ Threads!DeleteTemplate
           \/ \E p \in Threads!Party : Threads!Block(p) \/ Threads!Unblock(p)
  BY <1>2, ThreadAside DEF Threads!SetTeam, Threads!CreateTemplate, Threads!DeleteTemplate,
                           Threads!Block, Threads!Unblock
<1>3. Writer = Threads!Party \cup {"cohost"}
  BY DEF Writer, Side
<1> QED BY <1>1, <1>2, <1>3, ThreadStart, ThreadOpen, ThreadPost, ThreadMarkRead, ThreadSaves,
           ThreadTemplates DEF Threads!Next

LEMMA ThreadMeans == ASSUME ThreadInv PROVE Threads!UnreadIsExplained
<1> SUFFICES ASSUME NEW p \in Side, NEW m \in messages, m.from # p
             PROVE /\ m \notin Threads!Unread(p) /\ m \notin shown[p] => m.at < marked[p]
                   /\ m \in Threads!Unread(p) /\ m \in shown[p] =>
                        \/ p \in reverted \/ faulted > 0
                        \/ \E c \in Call : call[c].at \in Underway /\ call[c].copy[p] >= m.at
  BY DEF Threads!UnreadIsExplained, Side, Underway
<1>1. m \in Threads!Unread(p) <=> m.at > conv[p]
  BY DEF Threads!Unread
<1>2. /\ Delivered(m) /\ Marker(conv[p], p) /\ ReadBy(p, m) /\ marked[p] \in Nat
      /\ \A c \in Call : Marker(call[c].copy[p], p)
  BY DEF ThreadInv, ThreadType
<1>3. m.at = conv[p] => m \in shown[p]
  BY <1>2 DEF Delivered, Marker
<1>4. m.at \in Nat /\ conv[p] \in Nat /\ conv[p] <= marked[p] /\ \A c \in Call : call[c].copy[p] \in Nat
  BY <1>2 DEF Delivered, Marker
<1>5. ASSUME m \notin Threads!Unread(p), m \notin shown[p] PROVE m.at < marked[p]
  BY <1>1, <1>2, <1>3, <1>4, <1>5
<1>6. ASSUME m \in Threads!Unread(p), m \in shown[p]
      PROVE \/ p \in reverted \/ faulted > 0
            \/ \E c \in Call : call[c].at \in Underway /\ call[c].copy[p] >= m.at
  <2>1. ~(m.at <= conv[p])
    BY <1>1, <1>4, <1>6
  <2>2. \/ p \in reverted \/ faulted > 0
        \/ \E c \in Call : call[c].at \in Underway /\ m.at <= call[c].copy[p]
    BY <2>1, <1>2, <1>6 DEF ReadBy
  <2> QED BY <2>2, <1>4
<1> QED BY <1>5, <1>6

-----------------------------------------------------------------------------
(* Inboxes, pushes and open pages: Notifications. *)

\* Every event of the instance is one that somebody is told of.
NotificationsAssumption ==
  EventKinds \subseteq Inboxes!ToHost \cup Inboxes!ToGuest \cup Inboxes!ToOther \cup Inboxes!ToBoth
                       \cup Inboxes!OfShare \cup {"CohostInvited", "SplitPaymentCompleted"}

Stages == {"new", "row", "devices", "push", "mail", "ping", "over"}
ToTell(todo) == IF "guest" \in todo THEN "guest" ELSE CHOOSE u \in todo : TRUE
InboxTask(t) ==
  /\ DOMAIN t = {"at", "todo", "devices"} /\ t.at \in Stages
  /\ t.at \in {"row", "devices", "push"} => t.todo \subseteq Inboxes!InApp(event)
  /\ t.at \in {"devices", "push"} => t.todo # {}

\* A delivery that has yet to tell a page, and one that has made the row of a user.
OwesPage(t, u) == t.at \in {"row", "devices", "push", "mail"} \/ (t.at = "ping" /\ u \in t.todo)
MadeRow(t, u) ==
  \/ t.at \in {"mail", "ping", "over"}
  \/ t.at \in {"row", "devices", "push"} /\ u \notin t.todo
  \/ t.at \in {"devices", "push"} /\ u = ToTell(t.todo)

\* The devices that a push goes to are of its user, unless they have moved.
Listed(t) ==
  t.at = "push" => \A d \in t.devices : owner[d] \in {ToTell(t.todo), "none"} \/ d \in moved

PageKnown(u) ==
  page[u].open /\ page[u].buffer = 0 /\ page[u].shown # rows[u] =>
    \/ page[u].dropped \/ u \notin Inboxes!PingTo(event) \/ faulted > 0
    \/ \E w \in Worker : OwesPage(task[w], u)
RowsMade ==
  faulted = 0 => \A u \in Inboxes!InApp(event), w, v \in Worker :
    MadeRow(task[w], u) => rows[u] >= 1 /\ (w # v /\ MadeRow(task[v], u) => rows[u] >= 2)

PageFields == {"open", "buffer", "shown", "dropped"}
InboxType ==
  /\ event.kind \in EventKinds /\ faulted \in Nat /\ DOMAIN task = Worker
  /\ DOMAIN rows = Inboxes!User /\ \A u \in Inboxes!User : rows[u] \in Nat
  /\ DOMAIN page = Online
  /\ \A u \in Online : DOMAIN page[u] = PageFields /\ page[u].buffer \in Nat
  /\ DOMAIN owner = Device /\ \A w \in Worker : task[w].at = "push" => task[w].devices \subseteq Device

InboxInv ==
  /\ InboxType
  /\ \A w \in Worker : InboxTask(task[w]) /\ Listed(task[w])
  /\ \A u \in Online : PageKnown(u)
  /\ RowsMade
  /\ \A s \in screen : s.owner \notin {s.to, "none"} => s.device \in moved

LEMMA InAppUsers ==
  ASSUME NotificationsAssumption, event.kind \in EventKinds
  PROVE Inboxes!InApp(event) \subseteq Inboxes!User
<1>1. \/ event.kind \in Inboxes!ToHost \/ event.kind \in Inboxes!ToGuest \/ event.kind \in Inboxes!ToOther
      \/ event.kind \in Inboxes!ToBoth \/ event.kind \in Inboxes!OfShare
      \/ event.kind = "CohostInvited" \/ event.kind = "SplitPaymentCompleted"
  BY DEF NotificationsAssumption
<1> USE DEF Inboxes!InApp, Inboxes!User, Inboxes!ToHost, Inboxes!ToGuest, Inboxes!ToOther,
            Inboxes!ToBoth, Inboxes!OfShare
<1>2. CASE event.kind \in Inboxes!ToHost
  BY <1>2
<1>3. CASE event.kind \in Inboxes!ToGuest
  BY <1>3
<1>4. CASE event.kind \in Inboxes!ToOther
  BY <1>4
<1>5. CASE event.kind \in Inboxes!ToBoth
  BY <1>5
<1>6. CASE event.kind \in Inboxes!OfShare
  BY <1>6
<1>7. CASE event.kind = "CohostInvited"
  BY <1>7
<1>8. CASE event.kind = "SplitPaymentCompleted"
  BY <1>8
<1> QED BY <1>1, <1>2, <1>3, <1>4, <1>5, <1>6, <1>7, <1>8

LEMMA InboxInit == ASSUME Inboxes!Init PROVE InboxInv
<1>1. /\ event.kind \in EventKinds /\ rows = [u \in Inboxes!User |-> 0] /\ screen = {} /\ faulted = 0
      /\ page = [u \in Online |-> [open |-> FALSE, buffer |-> 0, shown |-> 0, dropped |-> FALSE]]
      /\ task = [w \in Worker |-> Inboxes!Idle] /\ DOMAIN owner = Device
  BY DEF Inboxes!Init
<1>2. Inboxes!Idle.at = "new" /\ DOMAIN Inboxes!Idle = {"at", "todo", "devices"}
  BY DEF Inboxes!Idle
<1>3. InboxType
  BY <1>1, <1>2 DEF InboxType, PageFields
<1>4. \A w \in Worker : InboxTask(task[w]) /\ Listed(task[w]) /\ \A u : ~MadeRow(task[w], u)
  BY <1>1, <1>2 DEF InboxTask, Listed, MadeRow, Stages
<1>5. \A u \in Online : PageKnown(u)
  BY <1>1 DEF PageKnown
<1> QED BY <1>1, <1>3, <1>4, <1>5 DEF InboxInv, RowsMade

\* The recipient is one of those that are still to be told.
LEMMA Recipients ==
  /\ \A w : Inboxes!Recipient(w) = ToTell(task[w].todo)
  /\ \A todo : todo # {} => ToTell(todo) \in todo
BY DEF Inboxes!Recipient, ToTell

-----------------------------------------------------------------------------
\* A delivery that goes on, and leaves rows, pages and devices alone.
LEMMA InboxGoes ==
  ASSUME InboxInv, NEW w \in Worker, NEW rec, Inboxes!Goes(w, rec),
         UNCHANGED <<event, rows, page, screen, owner, moved>>,
         InboxTask(rec), Listed(rec), rec.at = "push" => rec.devices \subseteq Device,
         faulted' \in Nat, faulted > 0 => faulted' > 0,
         \/ faulted' > 0
         \/ /\ \A u \in Inboxes!PingTo(event) : OwesPage(task[w], u) => OwesPage(rec, u)
            /\ \A u \in Inboxes!InApp(event) : MadeRow(rec, u) => MadeRow(task[w], u)
  PROVE InboxInv'
<1>1. DOMAIN task' = Worker /\ task'[w] = rec /\ \A v \in Worker : v # w => task'[v] = task[v]
  BY DEF Inboxes!Goes, InboxInv, InboxType
<1>2. Inboxes!PingTo(event)' = Inboxes!PingTo(event) /\ Inboxes!InApp(event)' = Inboxes!InApp(event)
  BY DEF Inboxes!PingTo, Inboxes!InApp
<1>3. InboxType'
  BY <1>1 DEF InboxInv, InboxType
<1>4. ASSUME NEW v \in Worker PROVE (InboxTask(task[v]) /\ Listed(task[v]))'
  <2>1. InboxTask(task'[v]) /\ Listed(task'[v])
    BY <1>1 DEF InboxInv
  <2> QED BY <2>1, <1>2 DEF InboxTask, Listed
<1>5. ASSUME NEW u \in Online PROVE PageKnown(u)'
  <2>1. PageKnown(u)
    BY DEF InboxInv
  <2>2. ASSUME NEW v \in Worker, OwesPage(task[v], u), ~(faulted' > 0), u \in Inboxes!PingTo(event)
        PROVE OwesPage(task[v], u)'
    BY <2>2, <1>1 DEF OwesPage
  <2> QED BY <2>1, <2>2, <1>2 DEF PageKnown
<1>6. RowsMade'
  <2> SUFFICES ASSUME faulted' = 0, NEW u \in Inboxes!InApp(event), NEW v \in Worker, NEW x \in Worker,
                      MadeRow(task'[v], u)
               PROVE rows[u] >= 1 /\ (v # x /\ MadeRow(task'[x], u) => rows[u] >= 2)
    BY <1>2 DEF RowsMade, MadeRow
  <2>1. faulted = 0
    BY DEF InboxInv, InboxType
  <2>2. \A y \in Worker : MadeRow(task'[y], u) => MadeRow(task[y], u)
    BY <1>1
  <2> QED BY <2>1, <2>2 DEF InboxInv, RowsMade
<1> QED BY <1>3, <1>4, <1>5, <1>6 DEF InboxInv

LEMMA AfterHandlers ==
  /\ \A handler \in {"first", "row", "mail", "ping"} :
       /\ DOMAIN Inboxes!After(handler) = {"at", "todo", "devices"}
       /\ Inboxes!After(handler).at = Inboxes!Handlers[handler]
       /\ Inboxes!After(handler).todo = Inboxes!Audience(Inboxes!Handlers[handler])
  /\ Inboxes!Handlers["first"] = "row" /\ Inboxes!Handlers["row"] = "mail"
  /\ Inboxes!Handlers["mail"] = "ping" /\ Inboxes!Handlers["ping"] = "over"
  /\ Inboxes!Audience("row") = Inboxes!InApp(event) /\ Inboxes!Audience("ping") = Inboxes!PingTo(event)
BY DEF Inboxes!After, Inboxes!At3, Inboxes!Handlers, Inboxes!Audience

LEMMA InboxHandlers ==
  ASSUME InboxInv, NEW w \in Worker, Inboxes!Deliver(w) \/ Inboxes!NextHandler(w) PROVE InboxInv'
<1>0. InboxTask(task[w]) /\ faulted \in Nat
  BY DEF InboxInv, InboxType
<1>1. CASE Inboxes!Deliver(w)
  <2> PICK rec : rec = Inboxes!After("first")
    OBVIOUS
  <2>1. /\ task[w].at = "new" /\ Inboxes!Goes(w, rec)
        /\ UNCHANGED <<event, rows, page, screen, owner, moved, faulted>>
    BY <1>1 DEF Inboxes!Deliver, Inboxes!At
  <2>2. rec.at = "row" /\ rec.todo = Inboxes!InApp(event) /\ DOMAIN rec = {"at", "todo", "devices"}
    BY AfterHandlers
  <2>3. InboxTask(rec) /\ Listed(rec) /\ rec.at # "push"
    BY <2>2 DEF InboxTask, Listed, Stages
  <2>4. /\ \A u \in Inboxes!PingTo(event) : OwesPage(task[w], u) => OwesPage(rec, u)
        /\ \A u \in Inboxes!InApp(event) : MadeRow(rec, u) => MadeRow(task[w], u)
    BY <2>2 DEF OwesPage, MadeRow
  <2> QED BY ONLY InboxInv, w \in Worker, <1>0, <2>1, <2>3, <2>4, InboxGoes
<1>2. CASE Inboxes!NextHandler(w)
  <2> PICK rec : rec = Inboxes!After(task[w].at)
    OBVIOUS
  <2>1. /\ task[w].at \in {"row", "mail", "ping"} /\ Inboxes!Goes(w, rec)
        /\ UNCHANGED <<event, rows, page, screen, owner, moved>>
        /\ (task[w].todo = {} /\ UNCHANGED faulted) \/ Inboxes!Fault
    BY <1>2 DEF Inboxes!NextHandler
  <2>2. /\ DOMAIN rec = {"at", "todo", "devices"}
        /\ task[w].at = "row" => rec.at = "mail"
        /\ task[w].at = "mail" => rec.at = "ping" /\ rec.todo = Inboxes!PingTo(event)
        /\ task[w].at = "ping" => rec.at = "over"
    BY <2>1, AfterHandlers
  <2>3. InboxTask(rec) /\ Listed(rec) /\ rec.at # "push"
    BY <2>1, <2>2 DEF InboxTask, Listed, Stages
  <2>4. faulted' \in Nat /\ (faulted > 0 => faulted' > 0) /\ (task[w].todo = {} \/ faulted' > 0)
    BY <2>1, <1>0 DEF Inboxes!Fault
  <2>5. task[w].todo = {} =>
          /\ \A u \in Inboxes!PingTo(event) : OwesPage(task[w], u) => OwesPage(rec, u)
          /\ \A u \in Inboxes!InApp(event) : MadeRow(rec, u) => MadeRow(task[w], u)
    BY <2>1, <2>2 DEF OwesPage, MadeRow
  <2> QED BY ONLY InboxInv, w \in Worker, <2>1, <2>3, <2>4, <2>5, InboxGoes
<1> QED BY <1>1, <1>2

\* A delivery that tells nobody now: the list of devices, a mail, a failure, a crash.
LEMMA InboxTells ==
  ASSUME InboxInv, NEW w \in Worker,
         \/ Inboxes!ListDevices(w) \/ Inboxes!SendMail(w) \/ Inboxes!Crash(w)
         \/ Inboxes!CreateRow(w) /\ UNCHANGED rows /\ Inboxes!Fault /\ Inboxes!Goes(w, Inboxes!Done(w))
  PROVE InboxInv'
<1>0. InboxTask(task[w]) /\ faulted \in Nat
  BY DEF InboxInv, InboxType
<1>1. /\ DOMAIN Inboxes!Done(w) = {"at", "todo", "devices"}
      /\ Inboxes!Done(w).at = task[w].at /\ Inboxes!Done(w).todo = task[w].todo \ {ToTell(task[w].todo)}
  BY Recipients DEF Inboxes!Done, Inboxes!At3
<1>2. CASE Inboxes!ListDevices(w)
  <2> PICK devices : devices = IF Inboxes!OptedIn(Inboxes!Recipient(w))
                               THEN {d \in Device : owner[d] = Inboxes!Recipient(w)} ELSE {}
    OBVIOUS
  <2>0. PICK rec : rec = [task[w] EXCEPT !.at = "push", !.devices = devices]
    OBVIOUS
  <2>1. /\ task[w].at = "devices" /\ Inboxes!Goes(w, rec)
        /\ UNCHANGED <<event, rows, page, screen, owner, moved, faulted>>
    BY <1>2, <2>0 DEF Inboxes!ListDevices, Inboxes!At
  <2>2. /\ rec.at = "push" /\ rec.todo = task[w].todo /\ rec.devices = devices
        /\ DOMAIN rec = {"at", "todo", "devices"}
    BY <1>0, <2>0 DEF InboxTask
  <2>3. devices \subseteq Device /\ \A d \in devices : owner[d] = ToTell(task[w].todo)
    BY Recipients
  <2>4. InboxTask(rec) /\ Listed(rec) /\ rec.devices \subseteq Device
    BY <1>0, <2>1, <2>2, <2>3 DEF InboxTask, Listed, Stages
  <2>5. /\ \A u \in Inboxes!PingTo(event) : OwesPage(task[w], u) => OwesPage(rec, u)
        /\ \A u \in Inboxes!InApp(event) : MadeRow(rec, u) => MadeRow(task[w], u)
    BY <2>1, <2>2 DEF OwesPage, MadeRow
  <2> QED BY ONLY InboxInv, w \in Worker, <1>0, <2>1, <2>4, <2>5, InboxGoes
<1>3. CASE Inboxes!SendMail(w)
  <2> PICK rec : rec = Inboxes!Done(w)
    OBVIOUS
  <2>1. /\ task[w].at = "mail" /\ Inboxes!Goes(w, rec)
        /\ UNCHANGED <<event, rows, page, screen, owner, moved>>
        /\ UNCHANGED faulted \/ Inboxes!Fault
    BY <1>3 DEF Inboxes!SendMail, Inboxes!At
  <2>2. faulted' \in Nat /\ (faulted > 0 => faulted' > 0)
    BY <2>1, <1>0 DEF Inboxes!Fault
  <2>3. InboxTask(rec) /\ Listed(rec) /\ rec.at # "push"
    BY <1>0, <1>1, <2>1 DEF InboxTask, Listed
  <2>4. /\ \A u \in Inboxes!PingTo(event) : OwesPage(task[w], u) => OwesPage(rec, u)
        /\ \A u \in Inboxes!InApp(event) : MadeRow(rec, u) => MadeRow(task[w], u)
    BY <1>1, <2>1 DEF OwesPage, MadeRow
  <2> QED BY ONLY InboxInv, w \in Worker, <2>1, <2>2, <2>3, <2>4, InboxGoes
<1>4. CASE Inboxes!Crash(w)
  <2> PICK rec : rec = Inboxes!At3("over", {})
    OBVIOUS
  <2>1. /\ Inboxes!Goes(w, rec) /\ UNCHANGED <<event, rows, page, screen, owner, moved>> /\ Inboxes!Fault
    BY <1>4 DEF Inboxes!Crash
  <2>2. faulted' \in Nat /\ faulted' > 0
    BY <2>1, <1>0 DEF Inboxes!Fault
  <2>3. InboxTask(rec) /\ Listed(rec) /\ rec.at # "push"
    BY DEF Inboxes!At3, InboxTask, Listed, Stages
  <2> QED BY ONLY InboxInv, w \in Worker, <2>1, <2>2, <2>3, InboxGoes
<1>5. CASE Inboxes!CreateRow(w) /\ UNCHANGED rows /\ Inboxes!Fault /\ Inboxes!Goes(w, Inboxes!Done(w))
  <2> PICK rec : rec = Inboxes!Done(w)
    OBVIOUS
  <2>1. /\ task[w].at = "row" /\ Inboxes!Goes(w, rec) /\ Inboxes!Fault
        /\ UNCHANGED <<event, rows, page, screen, owner, moved>>
    BY <1>5 DEF Inboxes!CreateRow, Inboxes!At
  <2>2. faulted' \in Nat /\ faulted' > 0
    BY <2>1, <1>0 DEF Inboxes!Fault
  <2>3. InboxTask(rec) /\ Listed(rec) /\ rec.at # "push"
    BY <1>0, <1>1, <2>1 DEF InboxTask, Listed
  <2> QED BY ONLY InboxInv, w \in Worker, <2>1, <2>2, <2>3, InboxGoes
<1> QED BY <1>2, <1>3, <1>4, <1>5

\* A row for the user whose turn it is; the page is owed until the update comes.
LEMMA InboxRow ==
  ASSUME NotificationsAssumption, InboxInv, NEW w \in Worker, Inboxes!CreateRow(w) PROVE InboxInv'
<1> PICK u : u = ToTell(task[w].todo)
  OBVIOUS
<1>0. PICK rec : rec = [task[w] EXCEPT !.at = "devices"]
  OBVIOUS
<1>1. /\ task[w].at = "row" /\ task[w].todo # {}
      /\ UNCHANGED <<event, page, screen, owner, moved>>
      /\ \/ rows' = [rows EXCEPT ![u] = @ + 1] /\ Inboxes!Goes(w, rec) /\ UNCHANGED faulted
         \/ UNCHANGED rows /\ Inboxes!Fault /\ Inboxes!Goes(w, Inboxes!Done(w))
  BY <1>0, Recipients DEF Inboxes!CreateRow, Inboxes!At
<1>2. CASE UNCHANGED rows /\ Inboxes!Fault /\ Inboxes!Goes(w, Inboxes!Done(w))
  BY <1>2, InboxTells
<1>3. CASE rows' = [rows EXCEPT ![u] = @ + 1] /\ Inboxes!Goes(w, rec) /\ UNCHANGED faulted
  <2>1. /\ InboxTask(task[w]) /\ InboxType /\ u \in task[w].todo
        /\ u \in Inboxes!InApp(event) /\ u \in Inboxes!User
    BY <1>1, Recipients, InAppUsers DEF InboxInv, InboxTask, InboxType
  <2>2. rec.at = "devices" /\ rec.todo = task[w].todo /\ DOMAIN rec = {"at", "todo", "devices"}
    BY <1>0, <2>1 DEF InboxTask
  <2>3. DOMAIN task' = Worker /\ task'[w] = rec /\ \A v \in Worker : v # w => task'[v] = task[v]
    BY <1>3, <2>1 DEF Inboxes!Goes, InboxType
  <2>4. /\ DOMAIN rows' = Inboxes!User /\ rows'[u] = rows[u] + 1
        /\ \A x \in Inboxes!User : rows'[x] \in Nat /\ rows[x] \in Nat /\ (x # u => rows'[x] = rows[x])
    BY <1>3, <2>1 DEF InboxType
  <2>5. Inboxes!PingTo(event)' = Inboxes!PingTo(event) /\ Inboxes!InApp(event)' = Inboxes!InApp(event)
    BY <1>1 DEF Inboxes!PingTo, Inboxes!InApp
  <2>6. InboxType'
    BY <1>1, <1>3, <2>1, <2>2, <2>3, <2>4 DEF InboxType
  <2>7. ASSUME NEW v \in Worker PROVE (InboxTask(task[v]) /\ Listed(task[v]))'
    <3>1. InboxTask(task[v]) /\ Listed(task[v])
      BY DEF InboxInv
    <3>2. InboxTask(rec) /\ Listed(rec)
      BY <1>1, <2>1, <2>2 DEF InboxTask, Listed, Stages
    <3>3. InboxTask(task'[v]) /\ Listed(task'[v])
      BY <3>1, <3>2, <2>3
    <3> QED BY <3>3, <2>5, <1>1 DEF InboxTask, Listed
  <2>8. ASSUME NEW x \in Online PROVE PageKnown(x)'
    <3>1. OwesPage(task'[w], x)
      BY <2>2, <2>3 DEF OwesPage
    <3> QED BY <3>1 DEF PageKnown, OwesPage
  <2>9. RowsMade'
    <3> SUFFICES ASSUME faulted = 0, NEW x \in Inboxes!InApp(event), NEW v \in Worker, NEW y \in Worker,
                        MadeRow(task'[v], x)
                 PROVE rows'[x] >= 1 /\ (v # y /\ MadeRow(task'[y], x) => rows'[x] >= 2)
      BY <1>3, <2>5 DEF RowsMade, MadeRow
    <3>0. x \in Inboxes!User /\ rows[x] \in Nat
      BY <2>1, <2>4, InAppUsers DEF InboxType
    <3>1. \A z \in Worker : MadeRow(task'[z], x) => MadeRow(task[z], x) \/ (z = w /\ x = u)
      BY <1>1, <2>2, <2>3 DEF MadeRow
    <3>2. \A z, t \in Worker : MadeRow(task[z], x) =>
            rows[x] >= 1 /\ (z # t /\ MadeRow(task[t], x) => rows[x] >= 2)
      BY DEF InboxInv, RowsMade
    <3>3. CASE x = u
      BY <3>0, <3>1, <3>2, <3>3, <2>4
    <3>4. CASE x # u
      BY <3>0, <3>1, <3>2, <3>4, <2>4
    <3> QED BY <3>3, <3>4
  <2>10. \A s \in screen' : s.owner \notin {s.to, "none"} => s.device \in moved'
    BY <1>1 DEF InboxInv
  <2> QED BY <2>6, <2>7, <2>8, <2>9, <2>10 DEF InboxInv
<1> QED BY <1>1, <1>2, <1>3

-----------------------------------------------------------------------------
\* What a step does that leaves the deliveries' rows alone: pages, devices or a push.
LEMMA InboxBeside ==
  ASSUME InboxInv, UNCHANGED <<event, rows, faulted>>, moved \subseteq moved',
         DOMAIN task' = Worker, DOMAIN page' = Online, DOMAIN owner' = Device,
         \A v \in Worker :
           \/ task'[v] = task[v]
           \/ /\ InboxTask(task'[v]) /\ task'[v].at # "push"
              /\ \A u \in Inboxes!InApp(event) : MadeRow(task'[v], u) => MadeRow(task[v], u),
         \A u \in Online : DOMAIN page'[u] = PageFields /\ page'[u].buffer \in Nat,
         \A u \in Online : PageKnown(u)',
         \A d \in Device : owner'[d] \in {owner[d], "none"} \/ d \in moved',
         \A s \in screen' : s.owner \notin {s.to, "none"} => s.device \in moved'
  PROVE InboxInv'
<1>1. Inboxes!InApp(event)' = Inboxes!InApp(event)
  BY DEF Inboxes!InApp
<1>2. InboxType'
  BY DEF InboxInv, InboxType
<1>3. ASSUME NEW v \in Worker PROVE (InboxTask(task[v]) /\ Listed(task[v]))'
  <2>1. InboxTask(task[v]) /\ Listed(task[v]) /\ InboxType
    BY DEF InboxInv
  <2>2. InboxTask(task'[v])
    BY <2>1
  <2>3. Listed(task[v])'
    <3>1. CASE task'[v] = task[v]
      BY <3>1, <2>1 DEF Listed, InboxType
    <3>2. CASE task'[v].at # "push"
      BY <3>2 DEF Listed
    <3> QED BY <3>1, <3>2
  <2> QED BY <2>2, <2>3, <1>1 DEF InboxTask
<1>4. RowsMade'
  <2> SUFFICES ASSUME faulted = 0, NEW u \in Inboxes!InApp(event), NEW v \in Worker, NEW x \in Worker,
                      MadeRow(task'[v], u)
               PROVE rows[u] >= 1 /\ (v # x /\ MadeRow(task'[x], u) => rows[u] >= 2)
    BY <1>1 DEF RowsMade, MadeRow
  <2>1. \A y \in Worker : MadeRow(task'[y], u) => MadeRow(task[y], u)
    OBVIOUS
  <2> QED BY <2>1 DEF InboxInv, RowsMade
<1> QED BY <1>2, <1>3, <1>4 DEF InboxInv

LEMMA InboxPush == ASSUME InboxInv, NEW w \in Worker, Inboxes!Push(w) PROVE InboxInv'
<1> PICK u : u = ToTell(task[w].todo)
  OBVIOUS
<1>0. PICK rec : rec = Inboxes!At3("row", task[w].todo \ {u})
  OBVIOUS
<1>1. PICK invalid \in SUBSET task[w].devices :
        /\ screen' = screen \cup {[device |-> d, to |-> u, owner |-> owner[d]] : d \in task[w].devices \ invalid}
        /\ owner' = [d \in Device |-> IF d \in invalid THEN "none" ELSE owner[d]]
  BY Recipients DEF Inboxes!Push, Inboxes!Nobody
<1>2. task[w].at = "push" /\ Inboxes!Goes(w, rec) /\ UNCHANGED <<event, rows, page, moved, faulted>>
  BY <1>0, Recipients DEF Inboxes!Push, Inboxes!At
<1>3. rec.at = "row" /\ rec.todo = task[w].todo \ {u} /\ DOMAIN rec = {"at", "todo", "devices"}
  BY <1>0 DEF Inboxes!At3
<1>4. InboxType /\ InboxTask(task[w]) /\ Listed(task[w])
  BY DEF InboxInv
<1>5. DOMAIN task' = Worker /\ task'[w] = rec /\ \A v \in Worker : v # w => task'[v] = task[v]
  BY <1>2, <1>4 DEF Inboxes!Goes, InboxType
<1>6. /\ InboxTask(rec)
      /\ \A x \in Inboxes!InApp(event) : MadeRow(rec, x) => MadeRow(task[w], x)
  BY <1>2, <1>3, <1>4 DEF InboxTask, MadeRow, Stages
<1>7. ASSUME NEW x \in Online PROVE PageKnown(x)'
  <2>1. \A v \in Worker : OwesPage(task[v], x) => OwesPage(task'[v], x)
    BY <1>3, <1>5 DEF OwesPage
  <2>2. PageKnown(x) /\ Inboxes!PingTo(event)' = Inboxes!PingTo(event)
    BY <1>2 DEF InboxInv, Inboxes!PingTo
  <2> QED BY <2>1, <2>2, <1>2 DEF PageKnown, OwesPage
<1>8. ASSUME NEW s \in screen', s.owner \notin {s.to, "none"} PROVE s.device \in moved
  <2>1. CASE s \in screen
    BY <1>8, <2>1 DEF InboxInv
  <2>2. ASSUME NEW d \in task[w].devices, s = [device |-> d, to |-> u, owner |-> owner[d]]
        PROVE s.device \in moved
    BY <1>2, <1>4, <1>8, <2>2 DEF Listed
  <2> QED BY <1>1, <2>1, <2>2
<1>9. \A x \in Online : DOMAIN page'[x] = PageFields /\ page'[x].buffer \in Nat
  BY <1>2, <1>4 DEF InboxType
<1>10. DOMAIN owner' = Device /\ \A d \in Device : owner'[d] \in {owner[d], "none"}
  BY <1>1
<1>11. DOMAIN page' = Online
  BY <1>2, <1>4 DEF InboxType
<1> QED BY ONLY InboxInv, <1>2, <1>3, <1>5, <1>6, <1>7, <1>8, <1>9, <1>10, <1>11, InboxBeside

LEMMA InboxDevices ==
  ASSUME InboxInv,
         \E d \in Device : Inboxes!Unregister(d) \/ \E u \in {"guest", "host"} : Inboxes!Register(d, u)
  PROVE InboxInv'
<1>1. PICK d \in Device : Inboxes!Unregister(d) \/ \E u \in {"guest", "host"} : Inboxes!Register(d, u)
  OBVIOUS
<1>2. PICK u : owner' = [owner EXCEPT ![d] = u] /\ moved' = moved \cup {d}
  BY <1>1 DEF Inboxes!Unregister, Inboxes!Register
<1>3. UNCHANGED <<event, rows, screen, page, task, faulted>>
  BY <1>1 DEF Inboxes!Unregister, Inboxes!Register
<1>4. InboxType
  BY DEF InboxInv
<1>5. DOMAIN owner' = Device /\ \A e \in Device : owner'[e] = owner[e] \/ e \in moved'
  BY <1>2, <1>4 DEF InboxType
<1>6. ASSUME NEW x \in Online PROVE PageKnown(x)'
  <2>1. PageKnown(x) /\ Inboxes!PingTo(event)' = Inboxes!PingTo(event)
    BY <1>3 DEF InboxInv, Inboxes!PingTo
  <2> QED BY <2>1, <1>3 DEF PageKnown
<1>7. \A s \in screen' : s.owner \notin {s.to, "none"} => s.device \in moved'
  BY <1>2, <1>3 DEF InboxInv
<1>8. /\ DOMAIN task' = Worker /\ DOMAIN page' = Online /\ moved \subseteq moved'
      /\ \A x \in Online : DOMAIN page'[x] = PageFields /\ page'[x].buffer \in Nat
  BY <1>2, <1>3, <1>4 DEF InboxType
<1> QED BY <1>3, <1>5, <1>6, <1>7, <1>8, InboxBeside

\* An update is buffered or dropped; a page that opens or refetches shows all rows.
LEMMA InboxPublish == ASSUME InboxInv, NEW w \in Worker, Inboxes!Publish(w) PROVE InboxInv'
<1> PICK u : u = ToTell(task[w].todo)
  OBVIOUS
<1>0. PICK rec : rec = Inboxes!Done(w)
  OBVIOUS
<1>1. /\ task[w].at = "ping" /\ task[w].todo # {} /\ Inboxes!Goes(w, rec)
      /\ UNCHANGED <<event, rows, screen, owner, moved, faulted>>
      /\ page' = [v \in Online |->
           IF v # u \/ ~page[v].open THEN page[v]
           ELSE IF page[v].buffer < Buffer THEN [page[v] EXCEPT !.buffer = @ + 1]
           ELSE [page[v] EXCEPT !.dropped = TRUE]]
  BY <1>0, Recipients DEF Inboxes!Publish, Inboxes!At
<1>2. rec.at = "ping" /\ rec.todo = task[w].todo \ {u} /\ DOMAIN rec = {"at", "todo", "devices"}
  BY <1>0, <1>1, Recipients DEF Inboxes!Done, Inboxes!At3
<1>3. InboxType /\ InboxTask(task[w])
  BY DEF InboxInv
<1>4. DOMAIN task' = Worker /\ task'[w] = rec /\ \A v \in Worker : v # w => task'[v] = task[v]
  BY <1>1, <1>3 DEF Inboxes!Goes, InboxType
<1>5. InboxTask(rec) /\ \A x \in Inboxes!InApp(event) : MadeRow(rec, x) => MadeRow(task[w], x)
  BY <1>1, <1>2 DEF InboxTask, MadeRow, Stages
<1>6. ASSUME NEW x \in Online
      PROVE /\ DOMAIN page'[x] = PageFields /\ page'[x].buffer \in Nat
            /\ x # u => page'[x] = page[x]
            /\ x = u /\ page'[x].open => page'[x].buffer > 0 \/ page'[x].dropped
  <2>1. DOMAIN page[x] = PageFields /\ page[x].buffer \in Nat
    BY <1>3 DEF InboxType
  <2>2. CASE x # u \/ ~page[x].open
    BY <1>1, <2>1, <2>2
  <2>3. CASE x = u /\ page[x].open /\ page[x].buffer < Buffer
    <3>1. page'[x] = [page[x] EXCEPT !.buffer = page[x].buffer + 1]
      BY <1>1, <2>3
    <3> QED BY <3>1, <2>1, <2>3 DEF PageFields
  <2>4. CASE x = u /\ page[x].open /\ ~(page[x].buffer < Buffer)
    <3>1. page'[x] = [page[x] EXCEPT !.dropped = TRUE]
      BY <1>1, <2>4
    <3> QED BY <3>1, <2>1, <2>4 DEF PageFields
  <2> QED BY <2>2, <2>3, <2>4
<1>7. ASSUME NEW x \in Online PROVE PageKnown(x)'
  <2>1. PageKnown(x) /\ Inboxes!PingTo(event)' = Inboxes!PingTo(event)
    BY <1>1 DEF InboxInv, Inboxes!PingTo
  <2>2. CASE x = u
    BY <2>2, <1>6 DEF PageKnown
  <2>3. CASE x # u
    <3>1. \A v \in Worker : OwesPage(task[v], x) => OwesPage(task'[v], x)
      BY <2>3, <1>1, <1>2, <1>4 DEF OwesPage
    <3> QED BY <3>1, <2>1, <2>3, <1>1, <1>6 DEF PageKnown, OwesPage
  <2> QED BY <2>2, <2>3
<1>8. \A s \in screen' : s.owner \notin {s.to, "none"} => s.device \in moved'
  BY <1>1 DEF InboxInv
<1>9. DOMAIN page' = Online /\ DOMAIN owner' = Device /\ \A d \in Device : owner'[d] \in {owner[d], "none"}
  BY <1>1, <1>3 DEF InboxType
<1> QED BY ONLY InboxInv, <1>1, <1>2, <1>4, <1>5, <1>6, <1>7, <1>8, <1>9, InboxBeside

LEMMA InboxPageTo ==
  ASSUME InboxInv, NEW u \in Online, NEW new,
         UNCHANGED <<event, rows, screen, owner, moved, task, faulted>>,
         page' = [page EXCEPT ![u] = new], DOMAIN new = PageFields, new.buffer \in Nat,
         new.open => new.shown = rows[u]
  PROVE InboxInv'
<1>1. UNCHANGED <<event, rows, screen, owner, moved, task, faulted>>
  OBVIOUS
<1>2. InboxType
  BY DEF InboxInv
<1>3. page' = [page EXCEPT ![u] = new] /\ DOMAIN new = PageFields /\ new.buffer \in Nat
  OBVIOUS
<1>4. DOMAIN page' = Online /\ page'[u] = new /\ \A x \in Online : x # u => page'[x] = page[x]
  BY <1>2, <1>3 DEF InboxType
<1>5. ASSUME NEW x \in Online PROVE PageKnown(x)'
  <2>1. PageKnown(x) /\ Inboxes!PingTo(event)' = Inboxes!PingTo(event)
    BY <1>1 DEF InboxInv, Inboxes!PingTo
  <2>2. CASE x = u
    BY <2>2, <1>1, <1>3, <1>4 DEF PageKnown
  <2>3. CASE x # u
    BY <2>1, <2>3, <1>1, <1>4 DEF PageKnown
  <2> QED BY <2>2, <2>3
<1>6. \A x \in Online : DOMAIN page'[x] = PageFields /\ page'[x].buffer \in Nat
  BY <1>2, <1>3, <1>4 DEF InboxType
<1>7. \A s \in screen' : s.owner \notin {s.to, "none"} => s.device \in moved'
  BY <1>1 DEF InboxInv
<1>8. DOMAIN task' = Worker /\ DOMAIN owner' = Device
  BY <1>1, <1>2 DEF InboxType
<1> QED BY ONLY InboxInv, <1>1, <1>4, <1>5, <1>6, <1>7, <1>8, InboxBeside

LEMMA InboxPages ==
  ASSUME InboxInv, NEW u \in Online,
         Inboxes!Subscribe(u) \/ Inboxes!Stream(u) \/ Inboxes!Disconnect(u)
  PROVE InboxInv'
<1>1. UNCHANGED <<event, rows, screen, owner, moved, task, faulted>>
  BY DEF Inboxes!Subscribe, Inboxes!Stream, Inboxes!Disconnect
<1>2. InboxType /\ DOMAIN page[u] = PageFields /\ page[u].buffer \in Nat
  BY DEF InboxInv, InboxType
<1>3. CASE Inboxes!Subscribe(u)
  <2>0. PICK new : new = [open |-> TRUE, buffer |-> 0, shown |-> rows[u], dropped |-> FALSE]
    OBVIOUS
  <2>1. page' = [page EXCEPT ![u] = new]
    BY <1>3, <2>0 DEF Inboxes!Subscribe
  <2>2. DOMAIN new = PageFields /\ new.buffer \in Nat /\ new.shown = rows[u]
    BY <2>0 DEF PageFields
  <2> QED BY <1>1, <2>1, <2>2, InboxPageTo
<1>4. CASE Inboxes!Stream(u)
  <2>0. PICK new : new = [page[u] EXCEPT !.buffer = @ - 1, !.shown = rows[u]]
    OBVIOUS
  <2>1. page' = [page EXCEPT ![u] = new] /\ page[u].buffer > 0
    BY <1>2, <1>4, <2>0 DEF Inboxes!Stream, InboxType
  <2>2. DOMAIN new = PageFields /\ new.buffer \in Nat /\ new.shown = rows[u]
    BY <1>2, <2>0, <2>1 DEF PageFields
  <2> QED BY <1>1, <2>1, <2>2, InboxPageTo
<1>5. CASE Inboxes!Disconnect(u)
  <2>0. PICK new : new = [page[u] EXCEPT !.open = FALSE, !.buffer = 0]
    OBVIOUS
  <2>1. page' = [page EXCEPT ![u] = new]
    BY <1>2, <1>5, <2>0 DEF Inboxes!Disconnect, InboxType
  <2>2. DOMAIN new = PageFields /\ new.buffer \in Nat /\ new.open = FALSE
    BY <1>2, <2>0 DEF PageFields
  <2> QED BY <1>1, <2>1, <2>2, InboxPageTo
<1> QED BY <1>3, <1>4, <1>5

LEMMA InboxStep ==
  ASSUME NotificationsAssumption, InboxInv, [Inboxes!Next]_(Inboxes!notificationVars) PROVE InboxInv'
<1>1. CASE UNCHANGED Inboxes!notificationVars
  <2>1. UNCHANGED <<event, rows, page, screen, owner, moved, task, faulted>>
    BY <1>1 DEF Inboxes!notificationVars
  <2>2. \A u \in Online : PageKnown(u)'
    BY <2>1 DEF InboxInv, PageKnown, Inboxes!PingTo
  <2> QED BY <2>1, <2>2, InboxBeside DEF InboxInv, InboxType
<1> QED BY <1>1, InboxHandlers, InboxTells, InboxRow, InboxPush, InboxDevices, InboxPublish, InboxPages
       DEF Inboxes!Next

LEMMA InboxMeans == ASSUME InboxInv PROVE Inboxes!InboxIsExplained
<1>1. ASSUME Inboxes!Resting, NEW u \in Online, page[u].open, page[u].buffer = 0, page[u].shown # rows[u]
      PROVE page[u].dropped \/ u \notin Inboxes!PingTo(event) \/ faulted > 0
  <2>1. \A w \in Worker : ~OwesPage(task[w], u)
    BY <1>1 DEF Inboxes!Resting, OwesPage
  <2> QED BY <2>1, <1>1 DEF InboxInv, PageKnown
<1>2. ASSUME faulted = 0, NEW u \in Inboxes!InApp(event), NEW w \in Worker, NEW v \in Worker,
             Inboxes!At(w, "over")
      PROVE rows[u] >= 1 /\ (w # v /\ Inboxes!At(v, "over") => rows[u] >= 2)
  BY <1>2 DEF InboxInv, RowsMade, MadeRow, Inboxes!At
<1>3. \A s \in screen : s.owner \notin {s.to, Inboxes!Nobody} => s.device \in moved
  BY DEF InboxInv, Inboxes!Nobody
<1> QED BY <1>1, <1>2, <1>3 DEF Inboxes!InboxIsExplained

-----------------------------------------------------------------------------
(* A listing, its cached copy, its co-hosts and house rules: Listings. *)

PlaceFields == {"op", "at", "dirty", "status", "photos", "rev", "version"}
Contents(x) == [status |-> x.status, photos |-> x.photos, rev |-> x.rev]
Dropping == {"audit", "drop"}
Changes == {"edit", "publish", "suspend", "unsuspend", "photo"}
Accepts(v) == v \in DOMAIN rules /\ rules[v]

\* What a call holds of the listing is what the row says, but for the change it makes,
\* unless somebody wrote since; and who acts or books was let in.
PlaceCall(c) ==
  /\ DOMAIN call[c] = PlaceFields
  /\ call[c].at = "fill" => call[c].dirty \/ Contents(call[c]) = row
  /\ call[c].at = "write" =>
       \/ call[c].dirty \/ call[c].status = row.status
       \/ call[c].op = "suspend" /\ call[c].status = "suspended"
       \/ call[c].op \in {"publish", "unsuspend"}
  /\ call[c].at = "act" => call[c].op \in granted
  /\ call[c].at = "record" => /\ call[c].op \in {"checked", "unchecked"}
                              /\ call[c].op = "checked" => Accepts(call[c].version)
  /\ call[c].at = "write" => call[c].op \in Changes
  /\ call[c].op = "new" => proof[c] = 0 /\ call[c].at \in {"new", "act"}
  /\ proof[c] # 0 /\ call[c].op = "checked" => Accepts(proof[c])

CacheKnown ==
  cache # Places!NoView /\ Contents(cache) # row =>
    cache.late \/ faulted > 0 \/ \E c \in Call : call[c].at \in Dropping
Ended == {"none", "stale", "unsuspend", "publish"}

PlaceType ==
  /\ row = Contents(row) /\ faulted \in Nat /\ rules \in Seq(BOOLEAN)
  /\ DOMAIN call = Call /\ DOMAIN proof = Call /\ DOMAIN grant = Cohost

PlaceInv ==
  /\ PlaceType
  /\ \A c \in Call : PlaceCall(c)
  /\ CacheKnown
  /\ lift \in Ended
  /\ acted \subseteq granted
  /\ \A u \in Cohost : "calendar" \in grant[u] => u \in granted

LEMMA PlaceRecords ==
  /\ DOMAIN Places!Idle = PlaceFields /\ Places!Idle.op = "new" /\ Places!Idle.at = "new"
  /\ DOMAIN Places!Over = PlaceFields /\ Places!Over.op = "over" /\ Places!Over.at = "over"
BY DEF Places!Idle, Places!Over, PlaceFields

LEMMA PlaceInit == ASSUME Places!Init PROVE PlaceInv
<1>1. /\ row = [status |-> "draft", photos |-> {}, rev |-> 0] /\ cache = Places!NoView
      /\ grant = [u \in Cohost |-> {}] /\ acted = {} /\ rules = <<>> /\ proof = [c \in Call |-> 0]
      /\ call = [c \in Call |-> Places!Idle] /\ lift = "none" /\ faulted = 0
  BY DEF Places!Init
<1>2. PlaceType
  BY <1>1 DEF PlaceType, Contents
<1>3. \A c \in Call : PlaceCall(c)
  BY <1>1, PlaceRecords DEF PlaceCall
<1> QED BY <1>1, <1>2, <1>3 DEF PlaceInv, CacheKnown, Ended

-----------------------------------------------------------------------------
\* One call goes on, and the row stays as it is.
LEMMA PlaceGoes ==
  ASSUME PlaceInv, NEW c \in Call, NEW rec, call' = [call EXCEPT ![c] = rec],
         UNCHANGED <<row, lift>>, PlaceCall(c)',
         faulted' \in Nat, faulted > 0 => faulted' > 0,
         rules' \in Seq(BOOLEAN), \A v : Accepts(v) => Accepts(v)',
         DOMAIN proof' = Call, \A d \in Call : d # c => proof'[d] = proof[d],
         granted \subseteq granted', acted' \subseteq granted', DOMAIN grant' = Cohost,
         \A u \in Cohost : "calendar" \in grant'[u] => u \in granted',
         \/ cache' = Places!NoView \/ cache'.late \/ Contents(cache') = row
         \/ cache' = cache /\ (call[c].at \in Dropping => rec.at \in Dropping \/ faulted' > 0)
  PROVE PlaceInv'
<1>1. DOMAIN call' = Call /\ call'[c] = rec /\ \A d \in Call : d # c => call'[d] = call[d]
  BY DEF PlaceInv, PlaceType
<1>2. PlaceType'
  BY <1>1 DEF PlaceInv, PlaceType, Contents
<1>3. ASSUME NEW d \in Call PROVE PlaceCall(d)'
  <2>1. CASE d = c
    BY <2>1
  <2>2. CASE d # c
    <3>1. PlaceCall(d) /\ call'[d] = call[d] /\ proof'[d] = proof[d]
      BY <2>2, <1>1 DEF PlaceInv
    <3>2. \A v : Accepts(v) => Accepts(v)'
      OBVIOUS
    <3> QED BY <3>1, <3>2 DEF PlaceCall, Contents
  <2> QED BY <2>1, <2>2
<1>4. CacheKnown'
  <2>1. CacheKnown
    BY DEF PlaceInv
  <2>2. CASE cache' = Places!NoView \/ cache'.late \/ Contents(cache') = row
    BY <2>2 DEF CacheKnown, Contents
  <2>3. CASE cache' = cache /\ (call[c].at \in Dropping => rec.at \in Dropping \/ faulted' > 0)
    <3>1. (\E d \in Call : call[d].at \in Dropping) => faulted' > 0 \/ \E d \in Call : call'[d].at \in Dropping
      BY <2>3, <1>1
    <3> QED BY <2>1, <2>3, <3>1 DEF CacheKnown, Contents
  <2> QED BY <2>2, <2>3
<1> QED BY <1>2, <1>3, <1>4 DEF PlaceInv

\* The calls that touch neither the cache, nor the grants, nor the rules.
LEMMA PlaceQuiet ==
  ASSUME PlaceInv, NEW c \in Call, NEW rec, call' = [call EXCEPT ![c] = rec],
         UNCHANGED <<row, cache, grant, acted, granted, rules, proof, lift>>,
         faulted' \in Nat, faulted > 0 => faulted' > 0,
         call[c].at \in Dropping => rec.at \in Dropping \/ faulted' > 0,
         PlaceCall(c)'
  PROVE PlaceInv'
<1>1. \A v : Accepts(v) => Accepts(v)'
  BY DEF Accepts
<1>2. /\ rules' \in Seq(BOOLEAN) /\ DOMAIN proof' = Call /\ DOMAIN grant' = Cohost
      /\ \A d \in Call : d # c => proof'[d] = proof[d]
      /\ granted \subseteq granted' /\ acted' \subseteq granted'
      /\ \A u \in Cohost : "calendar" \in grant'[u] => u \in granted'
  BY DEF PlaceInv, PlaceType
<1> QED BY <1>1, <1>2, PlaceGoes

\* A call that is over, whatever it was doing.
LEMMA PlaceOver ==
  ASSUME PlaceInv, NEW c \in Call, call' = [call EXCEPT ![c] = Places!Over]
  PROVE /\ call'[c].at = "over" /\ PlaceCall(c)'
        /\ DOMAIN call' = Call /\ \A d \in Call : d # c => call'[d] = call[d]
<1>1. DOMAIN call' = Call /\ call'[c] = Places!Over /\ \A d \in Call : d # c => call'[d] = call[d]
  BY DEF PlaceInv, PlaceType
<1> QED BY <1>1, PlaceRecords DEF PlaceCall

-----------------------------------------------------------------------------
LEMMA PlaceLoad ==
  ASSUME PlaceInv, NEW c \in Call, NEW to,
         NEW op \in Changes,
         \/ to.status = row.status \/ op \in {"publish", "unsuspend"}
         \/ op = "suspend" /\ to.status = "suspended",
         Places!Load(c, op, to)
  PROVE PlaceInv'
<1>0. PICK rec : rec = [Places!Idle EXCEPT !.op = op, !.at = "write",
                          !.status = to.status, !.photos = to.photos, !.rev = to.rev]
  OBVIOUS
<1>1. /\ call[c].op = "new" /\ call' = [call EXCEPT ![c] = rec]
      /\ UNCHANGED <<row, cache, grant, acted, granted, rules, proof, lift, faulted>>
  BY <1>0 DEF Places!Load, Places!New
<1>2. rec.op = op /\ rec.at = "write" /\ rec.status = to.status /\ DOMAIN rec = PlaceFields
  BY <1>0 DEF Places!Idle, PlaceFields
<1>3. call'[c] = rec /\ PlaceCall(c) /\ faulted \in Nat
  BY <1>1 DEF PlaceInv, PlaceType
<1>4. PlaceCall(c)'
  BY <1>1, <1>2, <1>3 DEF PlaceCall, Changes
<1>5. call[c].at \notin Dropping
  BY <1>1, <1>3 DEF PlaceCall, Dropping
<1> QED BY <1>1, <1>3, <1>4, <1>5, PlaceQuiet

LEMMA PlaceLoads ==
  ASSUME PlaceInv, NEW c \in Call,
         \/ Places!Update(c) \/ Places!Publish(c) \/ Places!Suspend(c) \/ Places!Unsuspend(c)
         \/ Places!ReorderPhotos(c)
         \/ \E p \in Photo : Places!UploadPhoto(c, p) \/ Places!RemovePhoto(c, p)
  PROVE PlaceInv'
<1>1. row = Contents(row)
  BY DEF PlaceInv, PlaceType
<1>2. DOMAIN row = {"status", "photos", "rev"}
  <2>1. DOMAIN Contents(row) = {"status", "photos", "rev"}
    BY DEF Contents
  <2> QED BY <1>1, <2>1
<1>3. /\ Places!Edited.status = row.status /\ Places!Reordered.status = row.status
      /\ Places!Suspended.status = "suspended"
      /\ \A p : Places!WithPhoto(p).status = row.status /\ Places!WithoutPhoto(p).status = row.status
  BY <1>2 DEF Places!Edited, Places!Reordered, Places!Suspended, Places!WithPhoto, Places!WithoutPhoto
<1>4. CASE Places!Update(c)
  BY <1>3, <1>4, PlaceLoad DEF Changes, Places!Update
<1>5. CASE Places!Publish(c)
  BY <1>5, PlaceLoad DEF Changes, Places!Publish
<1>6. CASE Places!Suspend(c)
  BY <1>3, <1>6, PlaceLoad DEF Changes, Places!Suspend
<1>7. CASE Places!Unsuspend(c)
  BY <1>7, PlaceLoad DEF Changes, Places!Unsuspend
<1>8. CASE Places!ReorderPhotos(c)
  BY <1>3, <1>8, PlaceLoad DEF Changes, Places!ReorderPhotos
<1>9. ASSUME NEW p \in Photo, Places!UploadPhoto(c, p) \/ Places!RemovePhoto(c, p) PROVE PlaceInv'
  BY <1>3, <1>9, PlaceLoad DEF Changes, Places!UploadPhoto, Places!RemovePhoto
<1> QED BY <1>4, <1>5, <1>6, <1>7, <1>8, <1>9

\* The calls that begin with a look at the row, the grants or the rules.
LEMMA PlaceBegins ==
  ASSUME PlaceInv, NEW c \in Call,
         \/ Places!Get(c) \/ \E u \in Cohost : Places!Enter(c, u)
         \/ \E kindOf \in {"rules", "nothing"} : Places!Author(c, kindOf)
         \/ \E version \in 0 .. MaxVersion : Places!Book(c, version)
  PROVE PlaceInv'
<1>1. /\ call[c].op = "new" /\ UNCHANGED <<row, cache, grant, acted, granted, rules, proof, lift, faulted>>
  BY DEF Places!Get, Places!Enter, Places!Author, Places!Book, Places!New
<1>2. PlaceCall(c) /\ PlaceType
  BY DEF PlaceInv
<1>3. proof[c] = 0 /\ call[c].at \notin Dropping /\ faulted' \in Nat
  BY <1>1, <1>2 DEF PlaceCall, Dropping, PlaceType
<1>4. ASSUME NEW rec, call' = [call EXCEPT ![c] = rec], PlaceCall(c)' PROVE PlaceInv'
  BY <1>1, <1>3, <1>4, PlaceQuiet
<1>5. CASE Places!Get(c)
  <2>0. PICK rec : rec = [Places!Idle EXCEPT !.op = "get", !.at = "fill",
                            !.status = row.status, !.photos = row.photos, !.rev = row.rev]
    OBVIOUS
  <2>1. call' = [call EXCEPT ![c] = rec]
    BY <1>5, <2>0 DEF Places!Get
  <2>2. /\ DOMAIN rec = PlaceFields /\ rec.op = "get" /\ rec.at = "fill"
        /\ rec.status = row.status /\ rec.photos = row.photos /\ rec.rev = row.rev
    BY <2>0 DEF Places!Idle, PlaceFields
  <2>3. Contents(rec) = row
    BY <2>2, <1>2 DEF PlaceType, Contents
  <2>4. PlaceCall(c)'
    BY <2>1, <2>2, <2>3, <1>1, <1>2, <1>3 DEF PlaceCall, PlaceType, Contents
  <2> QED BY <2>1, <2>4, <1>4
<1>6. ASSUME NEW u \in Cohost, Places!Enter(c, u) PROVE PlaceInv'
  <2>0. PICK rec : rec = [Places!Idle EXCEPT !.op = u, !.at = "act"]
    OBVIOUS
  <2>1. call' = [call EXCEPT ![c] = rec] /\ "calendar" \in grant[u]
    BY <1>6, <2>0 DEF Places!Enter, Places!Authorize, Places!Has
  <2>2. DOMAIN rec = PlaceFields /\ rec.op = u /\ rec.at = "act"
    BY <2>0 DEF Places!Idle, PlaceFields
  <2>3. u \in granted
    BY <2>1 DEF PlaceInv
  <2>4. PlaceCall(c)'
    BY <2>1, <2>2, <2>3, <1>1, <1>2, <1>3 DEF PlaceCall, PlaceType
  <2> QED BY <2>1, <2>4, <1>4
<1>7. ASSUME NEW kindOf \in {"rules", "nothing"}, Places!Author(c, kindOf) PROVE PlaceInv'
  <2>0. PICK rec : rec = [Places!Idle EXCEPT !.op = kindOf, !.at = "save", !.version = Places!Bump]
    OBVIOUS
  <2>1. call' = [call EXCEPT ![c] = rec]
    BY <1>7, <2>0 DEF Places!Author
  <2>2. DOMAIN rec = PlaceFields /\ rec.op = kindOf /\ rec.at = "save"
    BY <2>0 DEF Places!Idle, PlaceFields
  <2>4. PlaceCall(c)'
    BY <2>1, <2>2, <1>1, <1>2, <1>3 DEF PlaceCall, PlaceType
  <2> QED BY <2>1, <2>4, <1>4
<1>8. ASSUME NEW version \in 0 .. MaxVersion, Places!Book(c, version) PROVE PlaceInv'
  <2> PICK op, at : /\ op = IF Places!Required > 0 THEN "checked" ELSE "unchecked"
                    /\ at = IF version > 0 THEN "record" ELSE "done"
    OBVIOUS
  <2>0. PICK rec : rec = [Places!Idle EXCEPT !.op = op, !.at = at, !.version = version]
    OBVIOUS
  <2>1. call' = [call EXCEPT ![c] = rec] /\ (Places!Required > 0 => version = Places!Required)
    BY <1>8, <2>0 DEF Places!Book
  <2>2. DOMAIN rec = PlaceFields /\ rec.op = op /\ rec.at = at /\ rec.version = version
    BY <2>0 DEF Places!Idle, PlaceFields
  <2>3. Places!Required > 0 => Accepts(version)
    <3> SUFFICES ASSUME Places!Required > 0 PROVE Accepts(version)
      OBVIOUS
    <3>1. rules \in Seq(BOOLEAN) /\ Places!Active /\ Places!Required = Len(rules)
      BY <1>2 DEF PlaceType, Places!Required
    <3>2. rules # <<>> /\ rules[Len(rules)]
      BY <3>1 DEF Places!Active, Places!Current
    <3>3. Len(rules) \in DOMAIN rules
      BY <3>1, <3>2
    <3> QED BY <3>1, <3>2, <3>3, <2>1 DEF Accepts
  <2>4. PlaceCall(c)'
    <3>1. op = "checked" => Accepts(version)'
      BY <2>3, <1>1 DEF Accepts
    <3> QED BY <2>1, <2>2, <3>1, <1>1, <1>2, <1>3 DEF PlaceCall, PlaceType
  <2> QED BY <2>1, <2>4, <1>4
<1> QED BY <1>5, <1>6, <1>7, <1>8

\* The calls that end, or go on to their last step.
LEMMA PlaceEnds ==
  ASSUME PlaceInv, NEW c \in Call,
         Places!Audit(c) \/ Places!InvalidateProperty(c) \/ Places!Fill(c) \/ Places!Crash(c)
  PROVE PlaceInv'
<1>1. PlaceCall(c) /\ PlaceType
  BY DEF PlaceInv
<1>2. CASE Places!Audit(c)
  <2>1. /\ call[c].at = "audit" /\ UNCHANGED <<row, cache, grant, acted, granted, rules, proof, lift>>
        /\ \/ call' = [call EXCEPT ![c].at = "drop"] /\ UNCHANGED faulted
           \/ call' = [call EXCEPT ![c] = Places!Over] /\ Places!Fault
    BY <1>2 DEF Places!Audit, Places!At
  <2>2. CASE call' = [call EXCEPT ![c].at = "drop"] /\ UNCHANGED faulted
    <3>0. PICK rec : rec = [call[c] EXCEPT !.at = "drop"]
      OBVIOUS
    <3>1. call' = [call EXCEPT ![c] = rec]
      BY <2>2, <3>0, <1>1 DEF PlaceType
    <3>2. DOMAIN rec = PlaceFields /\ rec.at = "drop" /\ rec.op = call[c].op
      BY <3>0, <1>1 DEF PlaceCall, PlaceFields
    <3>3. PlaceCall(c)'
      BY <3>1, <3>2, <2>1, <1>1 DEF PlaceCall, PlaceType, Accepts
    <3>4. faulted' \in Nat /\ rec.at \in Dropping
      BY <3>2, <2>2, <1>1 DEF PlaceType, Dropping
    <3> QED BY <3>1, <3>3, <3>4, <2>1, <2>2, PlaceQuiet
  <2>3. CASE call' = [call EXCEPT ![c] = Places!Over] /\ Places!Fault
    <3>1. PlaceCall(c)'
      BY <2>3, PlaceOver
    <3>2. faulted' \in Nat /\ faulted' > 0
      BY <2>3, <1>1 DEF Places!Fault, PlaceType
    <3> QED BY <3>1, <3>2, <2>1, <2>3, PlaceQuiet
  <2> QED BY <2>1, <2>2, <2>3
<1>3. CASE Places!Crash(c)
  <2>1. /\ call' = [call EXCEPT ![c] = Places!Over] /\ Places!Fault
        /\ UNCHANGED <<row, cache, grant, acted, granted, rules, proof, lift>>
    BY <1>3 DEF Places!Crash
  <2>2. PlaceCall(c)'
    BY <2>1, PlaceOver
  <2>3. faulted' \in Nat /\ faulted' > 0
    BY <2>1, <1>1 DEF Places!Fault, PlaceType
  <2> QED BY <2>1, <2>2, <2>3, PlaceQuiet
<1>4. CASE Places!InvalidateProperty(c) \/ Places!Fill(c)
  <2>1. /\ call' = [call EXCEPT ![c] = Places!Over]
        /\ UNCHANGED <<row, grant, acted, granted, rules, proof, lift>>
        /\ faulted' = faulted \/ Places!Fault
        /\ \/ cache' = Places!NoView
           \/ cache' = cache /\ Places!Fault
           \/ /\ cache' = [status |-> call[c].status, photos |-> call[c].photos, rev |-> call[c].rev,
                           late |-> call[c].dirty]
              /\ call[c].at = "fill"
    BY <1>4 DEF Places!InvalidateProperty, Places!Fill, Places!DeleteCached, Places!SetCached, Places!At
  <2>2. PlaceCall(c)'
    BY <2>1, PlaceOver
  <2>3. /\ faulted' \in Nat /\ (faulted > 0 => faulted' > 0)
        /\ Places!Fault => faulted' > 0
    BY <2>1, <1>1 DEF Places!Fault, PlaceType
  <2>4. \/ cache' = Places!NoView \/ cache'.late \/ Contents(cache') = row
        \/ cache' = cache /\ faulted' > 0
    <3>1. CASE /\ cache' = [status |-> call[c].status, photos |-> call[c].photos, rev |-> call[c].rev,
                            late |-> call[c].dirty]
               /\ call[c].at = "fill"
      <4>1. Contents(cache') = Contents(call[c]) /\ cache'.late = call[c].dirty
        BY <3>1 DEF Contents
      <4>2. call[c].dirty \/ Contents(call[c]) = row
        BY <3>1, <1>1 DEF PlaceCall
      <4> QED BY <4>1, <4>2
    <3> QED BY <3>1, <2>1, <2>3
  <2>5. \A v : Accepts(v) => Accepts(v)'
    BY <2>1 DEF Accepts
  <2>6. /\ rules' \in Seq(BOOLEAN) /\ DOMAIN proof' = Call /\ DOMAIN grant' = Cohost
        /\ \A d \in Call : d # c => proof'[d] = proof[d]
        /\ granted \subseteq granted' /\ acted' \subseteq granted'
        /\ \A u \in Cohost : "calendar" \in grant'[u] => u \in granted'
    BY <2>1 DEF PlaceInv, PlaceType
  <2> QED BY ONLY PlaceInv, c \in Call, <2>1, <2>2, <2>3, <2>4, <2>5, <2>6, PlaceGoes
<1> QED BY <1>2, <1>3, <1>4

\* A grant is written, or a co-host acts on the one it had.
LEMMA PlaceGrants ==
  ASSUME PlaceInv, NEW c \in Call,
         \/ Places!Act(c)
         \/ \E u \in Cohost :
              \/ Places!Revoke(c, u)
              \/ \E perms \in Places!Permissions : Places!Invite(c, u, perms) \/ Places!SetPermissions(c, u, perms)
  PROVE PlaceInv'
<1>1. PlaceCall(c) /\ PlaceType
  BY DEF PlaceInv
<1>2. CASE Places!Act(c)
  <2>1. /\ call[c].at = "act" /\ call' = [call EXCEPT ![c] = Places!Over]
        /\ acted' \subseteq acted \cup {call[c].op}
        /\ UNCHANGED <<row, cache, grant, granted, rules, proof, lift, faulted>>
    BY <1>2 DEF Places!Act, Places!At
  <2>2. PlaceCall(c)'
    BY <2>1, PlaceOver
  <2>3. acted' \subseteq granted' /\ call[c].at \notin Dropping
    BY <2>1, <1>1 DEF PlaceInv, PlaceCall, Dropping
  <2>4. \A v : Accepts(v) => Accepts(v)'
    BY <2>1 DEF Accepts
  <2>5. /\ rules' \in Seq(BOOLEAN) /\ DOMAIN proof' = Call /\ DOMAIN grant' = Cohost /\ faulted' \in Nat
        /\ \A d \in Call : d # c => proof'[d] = proof[d]
        /\ \A u \in Cohost : "calendar" \in grant'[u] => u \in granted'
    BY <2>1 DEF PlaceInv, PlaceType
  <2> QED BY ONLY PlaceInv, c \in Call, <2>1, <2>2, <2>3, <2>4, <2>5, PlaceGoes
<1>3. ASSUME NEW u \in Cohost, NEW perms, Places!SetGrant(c, u, perms) PROVE PlaceInv'
  <2>1. /\ call[c].op = "new" /\ call' = [call EXCEPT ![c] = Places!Over]
        /\ grant' = [grant EXCEPT ![u] = perms]
        /\ granted' = IF "calendar" \in perms THEN granted \cup {u} ELSE granted
        /\ UNCHANGED <<row, cache, acted, rules, proof, lift, faulted>>
    BY <1>3 DEF Places!SetGrant, Places!New
  <2>2. PlaceCall(c)'
    BY <2>1, PlaceOver
  <2>3. call[c].at \notin Dropping
    BY <2>1, <1>1 DEF PlaceCall, Dropping
  <2>4. \A v : Accepts(v) => Accepts(v)'
    BY <2>1 DEF Accepts
  <2>5. /\ rules' \in Seq(BOOLEAN) /\ DOMAIN proof' = Call /\ DOMAIN grant' = Cohost /\ faulted' \in Nat
        /\ \A d \in Call : d # c => proof'[d] = proof[d]
        /\ granted \subseteq granted' /\ acted' \subseteq granted'
    BY <2>1 DEF PlaceInv, PlaceType
  <2>6. \A x \in Cohost : "calendar" \in grant'[x] => x \in granted'
    BY <2>1, <1>1 DEF PlaceInv, PlaceType
  <2> QED BY ONLY PlaceInv, c \in Call, <2>1, <2>2, <2>3, <2>4, <2>5, <2>6, PlaceGoes
<1> QED BY <1>2, <1>3 DEF Places!Revoke, Places!Invite, Places!SetPermissions

\* A version of the rules is appended; an acceptance is recorded, or is not.
LEMMA PlaceRules ==
  ASSUME PlaceInv, NEW c \in Call, Places!Save(c) \/ Places!RecordAcceptance(c) PROVE PlaceInv'
<1>1. PlaceCall(c) /\ PlaceType
  BY DEF PlaceInv
<1>2. CASE Places!Save(c)
  <2> PICK v : v = (call[c].op = "rules") /\ v \in BOOLEAN
    OBVIOUS
  <2>1. /\ call[c].at = "save" /\ call' = [call EXCEPT ![c] = Places!Over]
        /\ rules' = Append(rules, v) \/ rules' = rules
        /\ UNCHANGED <<row, cache, grant, acted, granted, proof, lift, faulted>>
    BY <1>2 DEF Places!Save, Places!At
  <2>2. rules' \in Seq(BOOLEAN) /\ \A x : Accepts(x) => Accepts(x)'
    <3>1. CASE rules' = rules
      BY <3>1, <1>1 DEF PlaceType, Accepts
    <3>2. CASE rules' = Append(rules, v)
      <4>1. rules \in Seq(BOOLEAN) /\ Append(rules, v) \in Seq(BOOLEAN)
        BY <1>1 DEF PlaceType
      <4>2. \A x \in DOMAIN rules : x \in DOMAIN Append(rules, v) /\ Append(rules, v)[x] = rules[x]
        BY <4>1
      <4> QED BY <3>2, <4>1, <4>2 DEF Accepts
    <3> QED BY <2>1, <3>1, <3>2
  <2>3. call'[c].at = "over" /\ call'[c].op = "over" /\ DOMAIN call'[c] = PlaceFields
    BY <2>1, <1>1, PlaceRecords DEF PlaceType
  <2>4. PlaceCall(c)'
    BY <2>3 DEF PlaceCall
  <2>5. call[c].at \notin Dropping
    BY <2>1 DEF Dropping
  <2>6. /\ DOMAIN proof' = Call /\ DOMAIN grant' = Cohost /\ faulted' \in Nat
        /\ \A d \in Call : d # c => proof'[d] = proof[d]
        /\ granted \subseteq granted' /\ acted' \subseteq granted'
        /\ \A u \in Cohost : "calendar" \in grant'[u] => u \in granted'
    BY <2>1 DEF PlaceInv, PlaceType
  <2> QED BY ONLY PlaceInv, c \in Call, <2>1, <2>2, <2>4, <2>5, <2>6, PlaceGoes
<1>3. CASE Places!RecordAcceptance(c)
  <2>0. PICK rec : rec = [call[c] EXCEPT !.at = "done"]
    OBVIOUS
  <2>1. /\ call[c].at = "record" /\ call' = [call EXCEPT ![c] = rec]
        /\ \/ proof' = [proof EXCEPT ![c] = call[c].version] /\ UNCHANGED faulted
           \/ UNCHANGED proof /\ Places!Fault
        /\ UNCHANGED <<row, cache, grant, acted, granted, rules, lift>>
    BY <1>1, <1>3, <2>0 DEF Places!RecordAcceptance, Places!At, PlaceType
  <2>2. DOMAIN rec = PlaceFields /\ rec.at = "done" /\ rec.op = call[c].op
    BY <2>0, <1>1 DEF PlaceCall, PlaceFields
  <2>3. call'[c] = rec /\ DOMAIN proof' = Call /\ \A d \in Call : d # c => proof'[d] = proof[d]
    BY <2>1, <1>1 DEF PlaceType
  <2>4. proof'[c] = call[c].version \/ proof'[c] = proof[c]
    BY <2>1, <1>1 DEF PlaceType
  <2>5. \A v : Accepts(v) => Accepts(v)'
    BY <2>1 DEF Accepts
  <2>6. PlaceCall(c)'
    BY <2>1, <2>2, <2>3, <2>4, <2>5, <1>1 DEF PlaceCall
  <2>7. faulted' \in Nat /\ (faulted > 0 => faulted' > 0) /\ call[c].at \notin Dropping
    BY <2>1, <1>1 DEF PlaceType, Places!Fault, Dropping
  <2>8. /\ rules' \in Seq(BOOLEAN) /\ DOMAIN grant' = Cohost
        /\ granted \subseteq granted' /\ acted' \subseteq granted'
        /\ \A u \in Cohost : "calendar" \in grant'[u] => u \in granted'
    BY <2>1 DEF PlaceInv, PlaceType
  <2> QED BY ONLY PlaceInv, c \in Call, <2>1, <2>3, <2>5, <2>6, <2>7, <2>8, PlaceGoes
<1> QED BY <1>2, <1>3

-----------------------------------------------------------------------------
\* The row is written: who read it before holds an old copy, and the cached one is on
\* the way to be dropped.
LEMMA PlaceTouch ==
  ASSUME PlaceInv, NEW c \in Call, NEW next, call' = Places!Touched(c, next),
         DOMAIN next = PlaceFields, next.at \in Dropping, next.op \notin {"new", "checked"},
         row' = Contents(row'), lift' \in Ended,
         DOMAIN grant' = Cohost, \A u \in Cohost : "calendar" \in grant'[u] => u \in granted,
         UNCHANGED <<cache, acted, granted, rules, proof, faulted>>
  PROVE PlaceInv'
<1>1. PlaceType
  BY DEF PlaceInv
<1>2. DOMAIN call' = Call /\ call'[c] = next
  BY DEF Places!Touched
<1>3. PlaceType'
  BY <1>1, <1>2 DEF PlaceType
<1>4. \A v : Accepts(v) => Accepts(v)'
  BY DEF Accepts
<1>5. ASSUME NEW d \in Call PROVE PlaceCall(d)'
  <2>0. PlaceCall(d)
    BY DEF PlaceInv
  <2>1. CASE d = c
    BY <2>1, <1>2 DEF PlaceCall, Dropping
  <2>2. CASE d # c /\ call[d].at \in {"write", "fill"}
    <3>1. call'[d] = [call[d] EXCEPT !.dirty = TRUE]
      BY <2>2 DEF Places!Touched, Places!At
    <3>2. /\ DOMAIN call'[d] = PlaceFields /\ call'[d].dirty /\ call'[d].op = call[d].op
          /\ call'[d].at = call[d].at /\ call'[d].version = call[d].version
      BY <3>1, <2>0 DEF PlaceCall, PlaceFields
    <3> QED BY <3>2, <2>0, <2>2, <1>4 DEF PlaceCall
  <2>3. CASE d # c /\ call[d].at \notin {"write", "fill"}
    <3>1. call'[d] = call[d]
      BY <2>3 DEF Places!Touched, Places!At
    <3> QED BY <3>1, <2>0, <2>3, <1>4 DEF PlaceCall
  <2> QED BY <2>1, <2>2, <2>3
<1>6. CacheKnown'
  BY <1>2 DEF CacheKnown
<1> QED BY <1>3, <1>5, <1>6 DEF PlaceInv

LEMMA PlaceWrites ==
  ASSUME PlaceInv, NEW c \in Call, Places!Write(c) \/ Places!Delete(c) PROVE PlaceInv'
<1>1. PlaceCall(c) /\ PlaceType
  BY DEF PlaceInv
<1>2. CASE Places!Write(c) /\ row.status = "gone"
  <2>1. /\ call[c].at = "write" /\ call' = [call EXCEPT ![c] = Places!Over]
        /\ UNCHANGED <<row, cache, grant, acted, granted, rules, proof, lift, faulted>>
    BY <1>2 DEF Places!Write, Places!At
  <2>2. PlaceCall(c)'
    BY <2>1, PlaceOver
  <2>3. faulted' \in Nat /\ call[c].at \notin Dropping
    BY <2>1, <1>1 DEF PlaceType, Dropping
  <2> QED BY <2>1, <2>2, <2>3, PlaceQuiet
<1>3. CASE Places!Write(c) /\ row.status # "gone"
  <2> PICK at : at = Places!AfterWrite(call[c].op)
    OBVIOUS
  <2>0. PICK next : next = [call[c] EXCEPT !.at = at]
    OBVIOUS
  <2>1. /\ call[c].at = "write" /\ row' = Contents(call[c]) /\ call' = Places!Touched(c, next)
        /\ lift' = IF Places!Lifts(c) THEN (IF call[c].dirty THEN "stale" ELSE call[c].op) ELSE lift
        /\ UNCHANGED <<cache, grant, acted, granted, rules, proof, faulted>>
    BY <1>3, <2>0 DEF Places!Write, Places!At, Contents
  <2>2. DOMAIN next = PlaceFields /\ next.at = at /\ next.op = call[c].op /\ at \in Dropping
    BY <2>0, <1>1 DEF PlaceCall, PlaceFields, Places!AfterWrite, Dropping
  <2>3. next.op \notin {"new", "checked"}
    BY <2>1, <2>2, <1>1 DEF PlaceCall, Changes
  <2>4. row' = Contents(row')
    BY <2>1 DEF Contents
  <2>5. lift' \in Ended
    <3>1. Places!Lifts(c) /\ ~call[c].dirty => call[c].op \in {"publish", "unsuspend"}
      BY <2>1, <1>1 DEF Places!Lifts, PlaceCall
    <3> QED BY <3>1, <2>1 DEF PlaceInv, Ended
  <2>6. DOMAIN grant' = Cohost /\ \A u \in Cohost : "calendar" \in grant'[u] => u \in granted
    BY <2>1, <1>1 DEF PlaceInv, PlaceType
  <2>7. next.at \in Dropping
    BY <2>2
  <2> QED BY ONLY PlaceInv, c \in Call, <2>1, <2>2, <2>3, <2>4, <2>5, <2>6, <2>7, PlaceTouch
<1>4. CASE Places!Delete(c)
  <2>0. PICK next : next = [Places!Idle EXCEPT !.op = "delete", !.at = "drop"]
    OBVIOUS
  <2>1. /\ row' = [status |-> "gone", photos |-> {}, rev |-> 0] /\ call' = Places!Touched(c, next)
        /\ grant' = [u \in Cohost |-> {}]
        /\ UNCHANGED <<cache, acted, granted, rules, proof, lift, faulted>>
    BY <1>4, <2>0 DEF Places!Delete
  <2>2. DOMAIN next = PlaceFields /\ next.at \in Dropping /\ next.op \notin {"new", "checked"}
    BY <2>0 DEF Places!Idle, PlaceFields, Dropping
  <2>3. row' = Contents(row')
    BY <2>1 DEF Contents
  <2>4. lift' \in Ended
    BY <2>1 DEF PlaceInv
  <2>5. DOMAIN grant' = Cohost /\ \A u \in Cohost : "calendar" \in grant'[u] => u \in granted
    BY <2>1
  <2> QED BY ONLY PlaceInv, c \in Call, <2>1, <2>2, <2>3, <2>4, <2>5, PlaceTouch
<1> QED BY <1>2, <1>3, <1>4

\* The cached copy runs out.
LEMMA PlaceExpires == ASSUME PlaceInv, Places!Expire PROVE PlaceInv'
<1>1. /\ cache' = Places!NoView
      /\ UNCHANGED <<row, grant, acted, granted, rules, proof, call, lift, faulted>>
  BY DEF Places!Expire, Places!DeleteCached
<1>2. PlaceType' /\ CacheKnown'
  BY <1>1 DEF PlaceInv, PlaceType, CacheKnown, Contents
<1>3. \A c \in Call : PlaceCall(c)'
  BY <1>1 DEF PlaceInv, PlaceCall, Contents, Accepts
<1> QED BY <1>1, <1>2, <1>3 DEF PlaceInv

LEMMA PlaceStep == ASSUME PlaceInv, [Places!Next]_(Places!listingVars) PROVE PlaceInv'
<1>1. CASE UNCHANGED Places!listingVars
  <2>1. UNCHANGED <<row, cache, grant, acted, granted, rules, proof, call, lift, faulted>>
    BY <1>1 DEF Places!listingVars
  <2> QED BY <2>1 DEF PlaceInv, PlaceType, CacheKnown, PlaceCall, Contents, Accepts
<1>2. CASE Places!Next
  BY <1>2, PlaceExpires, PlaceLoads, PlaceBegins, PlaceEnds, PlaceGrants, PlaceRules, PlaceWrites
     DEF Places!Next
<1> QED BY <1>1, <1>2

\* The invariant explains what guests see, and who changed it.
LEMMA PlaceMeans == ASSUME PlaceInv PROVE Places!ListingIsExplained
<1>1. \A c \in Call : proof[c] # 0 /\ call[c].op = "checked" => proof[c] \in DOMAIN rules /\ rules[proof[c]]
  BY DEF PlaceInv, PlaceCall, Accepts
<1>2. /\ lift \in {"none", "stale", "unsuspend", "publish"} /\ acted \subseteq granted
      /\ cache # Places!NoView /\ [status |-> cache.status, photos |-> cache.photos, rev |-> cache.rev] # row =>
           cache.late \/ faulted > 0 \/ \E c \in Call : call[c].at \in {"audit", "drop"}
  BY DEF PlaceInv, CacheKnown, Contents, Dropping, Ended
<1> QED BY <1>1, <1>2 DEF Places!ListingIsExplained

=============================================================================
