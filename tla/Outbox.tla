------------------------------- MODULE Outbox -------------------------------
(***************************************************************************)
(* The transactional outbox of the backend: a unit of work that commits    *)
(* its domain write and its event records together and then dispatches     *)
(* exactly those records, the relay that re-delivers what was left behind, *)
(* the per-record attempt budget with its dead-letter state, the admin     *)
(* requeue, and the replicas that run all this and may crash.              *)
(*   application/event/event.go, outbox.go,                                *)
(*   infrastructure/persistence/postgres/{unit_of_work,outbox_repository}, *)
(*   interfaces/http/handler/outbox_admin_handler.go, cmd/api/main.go      *)
(*                                                                         *)
(* A record is an id; the set Undecodable holds the ids whose event name   *)
(* has no decoder in the running binary.  A worker is either a request     *)
(* goroutine running one unit of work (Writer) or the relay job of a       *)
(* replica (the replica itself).  Every statement that reaches the         *)
(* database or calls a subscriber is a step, so that replicas interleave   *)
(* and a crash may fall between any two of them.                           *)
(***************************************************************************)
EXTENDS Naturals, FiniteSets

CONSTANTS Record,        \* ids of outbox rows
          Undecodable,   \* those whose event name is not registered
          Writer,        \* request goroutines
          Node,          \* API replicas, each with one relay job
          Home,          \* the replica a request goroutine runs on
          NSub,          \* subscribers, called in the order they subscribed
          MaxAttempts,   \* WithMaxAttempts
          Limit,         \* the limit Recover passes to FetchUnprocessed
          MaxFaults,     \* bound: database statements that fail, subscribers that panic
          MaxCrashes,    \* bound: replica crashes
          MaxRequeues    \* bound: admin requeues of one record

ASSUME OutboxAssumption ==
  /\ IsFiniteSet(Record)
  /\ Undecodable \subseteq Record
  /\ Writer \cap Node = {}
  /\ Home \in [Writer -> Node]
  /\ NSub \in Nat \ {0}
  /\ MaxAttempts \in Nat \ {0}
  /\ Limit \in Nat \ {0}
  /\ MaxFaults \in Nat
  /\ MaxCrashes \in Nat
  /\ MaxRequeues \in Nat

VARIABLES
  \* the outbox table, one set per nullable timestamp
  stored,      \* rows that exist
  processed,   \* processed_at IS NOT NULL
  failed,      \* failed_at IS NOT NULL
  dead,        \* dead_lettered_at IS NOT NULL
  attempts,    \* the attempts column
  stamp,       \* created_at as a ticket, 0 before NewRecord
  aged,        \* created_at is older than the 30 second grace period
  \* the processes
  up,          \* replicas that are running
  pc,          \* where each worker is
  todo,        \* records a worker still has to deliver, the current one included
  turn,        \* the subscriber the current Publish calls next
  \* what happened (never read by the program)
  offered,     \* subscribers each record was handed to
  handled,     \* subscribers that handled it without panicking
  lossy,       \* records published after their append had failed
  passes,      \* relay deliveries that were started, per record
  uncharged,   \* those among them whose attempt could not be charged
  requeues,    \* admin requeues, per record
  faults, crashes

table   == <<stored, processed, failed, dead, attempts, stamp, aged>>
history == <<offered, handled, lossy, passes, uncharged, requeues>>
vars == <<table, up, pc, todo, turn, history, faults, crashes>>

Sub    == 1 .. NSub
Worker == Writer \cup Node
HomeOf(w) == IF w \in Node THEN w ELSE Home[w]

Created == {r \in Record : stamp[r] > 0}
Tickets == Cardinality(Created)

\* What FetchUnprocessed's WHERE clause selects, the grace period included.
\* Fault: the WHERE clause also excludes rows whose budget is spent.
Pending_SkipsSpent ==
  {r \in stored \ (processed \cup failed \cup dead) : attempts[r] < MaxAttempts}
Pending == stored \ (processed \cup failed \cup dead)
Due     == Pending \cap aged

\* The record of S a worker delivers first: both the relay's ORDER BY
\* created_at and a unit of work's append order are the order of the tickets.
Oldest(S) == {r \in S : \A s \in S : stamp[r] <= stamp[s]}

Init ==
  /\ stored = {} /\ processed = {} /\ failed = {} /\ dead = {} /\ aged = {}
  /\ attempts = [r \in Record |-> 0]
  /\ stamp = [r \in Record |-> 0]
  /\ up = Node
  /\ pc = [w \in Worker |-> "idle"]
  /\ todo = [w \in Worker |-> {}]
  /\ turn = [w \in Worker |-> 1]
  /\ offered = [r \in Record |-> {}]
  /\ handled = [r \in Record |-> {}]
  /\ lossy = {}
  /\ passes = [r \in Record |-> 0]
  /\ uncharged = [r \in Record |-> 0]
  /\ requeues = [r \in Record |-> 0]
  /\ faults = 0
  /\ crashes = 0

\* The rows an UPDATE ... WHERE id = r touches.
Row(r) == {r} \cap stored

Goto(w, label) == pc' = [pc EXCEPT ![w] = label]

\* The worker is done with record r: on to the next one, or idle again.
Advance(w, r) ==
  /\ todo' = [todo EXCEPT ![w] = @ \ {r}]
  /\ Goto(w, IF todo[w] = {r} THEN "idle" ELSE "next")

\* A database statement fails or a subscriber panics; how often is bounded.
Fault == faults < MaxFaults /\ faults' = faults + 1

-----------------------------------------------------------------------------
(* A unit of work, UnitOfWork.Run and RecordingOutbox. *)

Begin(w) ==
  /\ Home[w] \in up
  /\ pc[w] = "idle"
  /\ Goto(w, "tx")
  /\ UNCHANGED <<table, up, todo, turn, history, faults, crashes>>

\* NewRecord and Append inside the transaction; not visible before the commit.
AppendRecord(w, r) ==
  /\ pc[w] = "tx"
  /\ stamp[r] = 0
  /\ stamp' = [stamp EXCEPT ![r] = Tickets + 1]
  /\ todo' = [todo EXCEPT ![w] = @ \cup {r}]
  /\ UNCHANGED <<stored, processed, failed, dead, attempts, aged,
                 up, pc, turn, history, faults, crashes>>

Commit(w) ==
  /\ pc[w] = "tx"
  /\ stored' = stored \cup todo[w]
  /\ Goto(w, IF todo[w] = {} THEN "idle" ELSE "next")
  /\ UNCHANGED <<processed, failed, dead, attempts, stamp, aged,
                 up, todo, turn, history, faults, crashes>>

\* Fault: what a rolled-back transaction recorded is dispatched all the same.
Rollback_Dispatches(w) ==
  /\ pc[w] = "tx"
  /\ Goto(w, IF todo[w] = {} THEN "idle" ELSE "next")
  /\ UNCHANGED <<table, up, todo, turn, history, faults, crashes>>

\* fn returned an error, or the commit failed: nothing is dispatched.
Rollback(w) ==
  /\ pc[w] = "tx"
  /\ todo' = [todo EXCEPT ![w] = {}]
  /\ Goto(w, "idle")
  /\ UNCHANGED <<table, up, turn, history, faults, crashes>>

\* DurablePublisher.Publish: the record is appended on its own, outside the
\* caller's transaction, and delivered without a decoder.
PublishDirect(w, r) ==
  /\ Home[w] \in up
  /\ pc[w] = "idle"
  /\ stamp[r] = 0
  /\ stamp' = [stamp EXCEPT ![r] = Tickets + 1]
  /\ \/ stored' = stored \cup {r} /\ UNCHANGED <<lossy, faults>>
     \/ Fault /\ lossy' = lossy \cup {r} /\ UNCHANGED stored
  /\ todo' = [todo EXCEPT ![w] = {r}]
  /\ turn' = [turn EXCEPT ![w] = 1]
  /\ Goto(w, "publish")
  /\ UNCHANGED <<processed, failed, dead, attempts, aged, up,
                 offered, handled, passes, uncharged, requeues, crashes>>

\* DispatchRecords takes the next record: it is published, or marked failed
\* when it cannot be decoded (an error of MarkFailed is ignored).
DispatchNext(w, r) ==
  /\ pc[w] = "next"
  /\ r \in Oldest(todo[w])
  /\ \/ /\ r \notin Undecodable
        /\ Goto(w, "publish")
        /\ turn' = [turn EXCEPT ![w] = 1]
        /\ UNCHANGED <<failed, attempts, todo, faults>>
     \/ /\ r \in Undecodable
        /\ \/ failed' = failed \cup Row(r) /\ attempts' = [attempts EXCEPT ![r] = @ + 1]
              /\ UNCHANGED faults
           \/ Fault /\ UNCHANGED <<failed, attempts>>
        /\ Advance(w, r)
        /\ UNCHANGED turn
  /\ UNCHANGED <<stored, processed, dead, stamp, aged, up, history, crashes>>

-----------------------------------------------------------------------------
(* The relay, DurablePublisher.Recover, run by the scheduler of a replica. *)

Fetch(n, batch) ==
  /\ n \in up
  /\ pc[n] = "idle"
  /\ batch \subseteq Due
  /\ Cardinality(batch) = (IF Cardinality(Due) > Limit THEN Limit ELSE Cardinality(Due))
  /\ batch # {}
  /\ \A r \in batch : \A s \in Due \ batch : stamp[r] <= stamp[s]
  /\ todo' = [todo EXCEPT ![n] = batch]
  /\ Goto(n, "next")
  /\ UNCHANGED <<table, up, turn, history, faults, crashes>>

\* Fault: >= where the code compares with >.
Route_BuriesEarly(n, r, spent) ==
  IF spent >= MaxAttempts \/ r \in Undecodable
    THEN Goto(n, "bury") /\ UNCHANGED <<turn, passes>>
    ELSE /\ Goto(n, "publish")
         /\ turn' = [turn EXCEPT ![n] = 1]
         /\ passes' = [passes EXCEPT ![r] = @ + 1]

\* What Recover does with a record once its attempt is charged: dead-letter
\* it when it is over budget or has no decoder, publish it otherwise.
Route(n, r, spent) ==
  IF spent > MaxAttempts \/ r \in Undecodable
    THEN Goto(n, "bury") /\ UNCHANGED <<turn, passes>>
    ELSE /\ Goto(n, "publish")
         /\ turn' = [turn EXCEPT ![n] = 1]
         /\ passes' = [passes EXCEPT ![r] = @ + 1]

\* Fault: the budget is compared with the count read before the increment.
Charge_ComparesOldCount(n, r) ==
  /\ pc[n] = "next"
  /\ r \in Oldest(todo[n])
  /\ \/ /\ attempts' = [attempts EXCEPT ![r] = @ + 1]
        /\ Route(n, r, attempts[r])
        /\ UNCHANGED <<uncharged, faults>>
     \/ /\ Fault
        /\ Route(n, r, 0)
        /\ uncharged' = [uncharged EXCEPT ![r] = @ + 1]
        /\ UNCHANGED attempts
  /\ UNCHANGED <<stored, processed, failed, dead, stamp, aged, up, todo,
                 offered, handled, lossy, requeues, crashes>>

\* IncrementAttempt; when it fails the record is delivered uncharged.
Charge(n, r) ==
  /\ pc[n] = "next"
  /\ r \in Oldest(todo[n])
  /\ \/ /\ attempts' = [attempts EXCEPT ![r] = @ + 1]
        /\ Route(n, r, attempts[r] + 1)
        /\ UNCHANGED <<uncharged, faults>>
     \/ /\ Fault
        /\ Route(n, r, 0)
        /\ uncharged' = [uncharged EXCEPT ![r] = @ + 1]
        /\ UNCHANGED attempts
  /\ UNCHANGED <<stored, processed, failed, dead, stamp, aged, up, todo,
                 offered, handled, lossy, requeues, crashes>>

\* DeadLetter; when it fails the record is left for the next cycle.
Bury(n, r) ==
  /\ pc[n] = "bury"
  /\ r \in Oldest(todo[n])
  /\ \/ dead' = dead \cup Row(r) /\ UNCHANGED faults
     \/ Fault /\ UNCHANGED dead
  /\ Advance(n, r)
  /\ UNCHANGED <<stored, processed, failed, attempts, stamp, aged, up, turn,
                 history, crashes>>

-----------------------------------------------------------------------------
(* Steps common to a unit of work and to the relay. *)

\* Fault: the loop over the subscribers runs one too far.
CallSubscriber_OneTooFar(w, r) ==
  /\ pc[w] = "publish"
  /\ r \in Oldest(todo[w])
  /\ offered' = [offered EXCEPT ![r] = @ \cup {turn[w]}]
  /\ handled' = [handled EXCEPT ![r] = @ \cup {turn[w]}]
  /\ IF turn[w] > NSub
       THEN Goto(w, "mark") /\ UNCHANGED turn
       ELSE turn' = [turn EXCEPT ![w] = @ + 1] /\ UNCHANGED pc
  /\ UNCHANGED <<table, up, todo, lossy, passes, uncharged, requeues, faults, crashes>>

\* Dispatcher.Publish calls the next subscriber; a panic is recovered.
CallSubscriber(w, r) ==
  /\ pc[w] = "publish"
  /\ r \in Oldest(todo[w])
  /\ offered' = [offered EXCEPT ![r] = @ \cup {turn[w]}]
  /\ \/ handled' = [handled EXCEPT ![r] = @ \cup {turn[w]}] /\ UNCHANGED faults
     \/ Fault /\ UNCHANGED handled
  /\ IF turn[w] = NSub
       THEN Goto(w, "mark") /\ UNCHANGED turn
       ELSE turn' = [turn EXCEPT ![w] = @ + 1] /\ UNCHANGED pc
  /\ UNCHANGED <<table, up, todo, lossy, passes, uncharged, requeues, crashes>>

\* Fault: the row is marked before the subscribers are called.
Mark_BeforePublish(w, r) ==
  /\ pc[w] \in {"publish", "mark"}
  /\ r \in Oldest(todo[w])
  /\ processed' = processed \cup Row(r)
  /\ Advance(w, r)
  /\ UNCHANGED <<stored, failed, dead, attempts, stamp, aged, up, turn,
                 history, faults, crashes>>

\* MarkProcessed, which touches no row for a lossy record.
Mark(w, r) ==
  /\ pc[w] = "mark"
  /\ r \in Oldest(todo[w])
  /\ \/ processed' = processed \cup Row(r) /\ UNCHANGED faults
     \/ Fault /\ UNCHANGED processed
  /\ Advance(w, r)
  /\ UNCHANGED <<stored, failed, dead, attempts, stamp, aged, up, turn,
                 history, crashes>>

-----------------------------------------------------------------------------
(* The environment: time, the admin, crashes. *)

\* Thirty seconds have passed since the record was created.
Age(r) ==
  /\ r \in Created \ aged
  /\ aged' = aged \cup {r}
  /\ UNCHANGED <<stored, processed, failed, dead, attempts, stamp, up, pc, todo,
                 turn, history, faults, crashes>>

\* Fault: the requeue clears processed_at with the other two columns.
Requeue_ClearsProcessed(r) ==
  /\ r \in stored
  /\ requeues[r] < MaxRequeues
  /\ requeues' = [requeues EXCEPT ![r] = @ + 1]
  /\ dead' = dead \ {r}
  /\ failed' = failed \ {r}
  /\ processed' = processed \ {r}
  /\ attempts' = [attempts EXCEPT ![r] = 0]
  /\ UNCHANGED <<stored, stamp, aged, up, pc, todo, turn,
                 offered, handled, lossy, passes, uncharged, faults, crashes>>

\* Requeue: an admin may name any row, dead-lettered or not.
Requeue(r) ==
  /\ r \in stored
  /\ requeues[r] < MaxRequeues
  /\ requeues' = [requeues EXCEPT ![r] = @ + 1]
  /\ dead' = dead \ {r}
  /\ failed' = failed \ {r}
  /\ attempts' = [attempts EXCEPT ![r] = 0]
  /\ UNCHANGED <<stored, processed, stamp, aged, up, pc, todo, turn,
                 offered, handled, lossy, passes, uncharged, faults, crashes>>

\* A replica dies: open transactions roll back, what was in flight is lost.
Crash(n) ==
  /\ n \in up
  /\ crashes < MaxCrashes
  /\ crashes' = crashes + 1
  /\ up' = up \ {n}
  /\ pc' = [w \in Worker |-> IF HomeOf(w) = n THEN "idle" ELSE pc[w]]
  /\ todo' = [w \in Worker |-> IF HomeOf(w) = n THEN {} ELSE todo[w]]
  /\ UNCHANGED <<table, turn, history, faults>>

\* main re-runs Recover at startup, which is Fetch on the restarted replica.
Restart(n) ==
  /\ n \notin up
  /\ up' = up \cup {n}
  /\ UNCHANGED <<table, pc, todo, turn, history, faults, crashes>>

-----------------------------------------------------------------------------

RelayStep(n) ==
  \/ \E batch \in SUBSET Due : Fetch(n, batch)
  \/ \E r \in todo[n] : Charge(n, r) \/ Bury(n, r)

WriterStep(w) ==
  \/ Begin(w) \/ Commit(w) \/ Rollback(w)
  \/ \E r \in Record : AppendRecord(w, r) \/ PublishDirect(w, r)
  \/ \E r \in todo[w] : DispatchNext(w, r)

DeliveryStep(w) == \E r \in todo[w] : CallSubscriber(w, r) \/ Mark(w, r)

Next ==
  \/ \E w \in Writer : WriterStep(w)
  \/ \E n \in Node : RelayStep(n)
  \/ \E w \in Worker : DeliveryStep(w)
  \/ \E r \in Record : Age(r) \/ Requeue(r)
  \/ \E n \in Node : Crash(n) \/ Restart(n)

Spec == Init /\ [][Next]_vars

\* A goroutine that is running is scheduled, the relay ticks every minute on
\* every live replica, a crashed replica is restarted, time passes.  Requests
\* and admins owe nothing.
Fairness ==
  /\ \A w \in Worker : WF_vars(DeliveryStep(w))
  /\ \A w \in Writer : WF_vars(\E r \in todo[w] : DispatchNext(w, r))
  /\ \A n \in Node : WF_vars(RelayStep(n)) /\ WF_vars(Restart(n))
  /\ \A r \in Record : WF_vars(Age(r))

FairSpec == Spec /\ Fairness

-----------------------------------------------------------------------------

Label == {"idle", "tx", "next", "publish", "mark", "bury"}

\* Every variable has its type, and only the relay is ever about to
\* dead-letter, only a request goroutine inside a transaction.
TypeOK ==
  /\ stored \subseteq Record /\ processed \subseteq Record
  /\ failed \subseteq Record /\ dead \subseteq Record
  /\ aged \subseteq Record /\ lossy \subseteq Record
  /\ attempts \in [Record -> Nat] /\ stamp \in [Record -> Nat]
  /\ up \subseteq Node
  /\ pc \in [Worker -> Label]
  /\ todo \in [Worker -> SUBSET Record]
  /\ turn \in [Worker -> Sub]
  /\ offered \in [Record -> SUBSET Sub] /\ handled \in [Record -> SUBSET Sub]
  /\ passes \in [Record -> Nat] /\ uncharged \in [Record -> Nat]
  /\ requeues \in [Record -> Nat]
  /\ faults \in Nat /\ crashes \in Nat

\* At least once: a row is closed as processed only after every subscriber
\* was called with its event (in this run of Publish or across several), no
\* matter which worker marked it, who crashed in between or what was requeued.
ProcessedWasOffered == \A r \in processed : offered[r] = Sub

\* No subscriber ever sees an event whose transaction did not commit; the one
\* exception the code makes is Publish falling back after a failed append.
NoGhostEvent == \A r \in Record : offered[r] # {} => r \in stored \cup lossy

\* The relay starts at most MaxAttempts deliveries of a record between two
\* requeues, over all replicas and across crashes, deliveries it could not
\* charge apart: the attempt is charged before the delivery, never after.
RetryBudget ==
  \A r \in Record : passes[r] <= MaxAttempts * (1 + requeues[r]) + uncharged[r]

\* A record with a decoder is dead-lettered only after MaxAttempts deliveries
\* of it were started: neither a requeue racing the relay nor two replicas
\* visiting it together spends budget that was never used for a delivery.
DeadWasTried == \A r \in dead \ Undecodable : passes[r] >= MaxAttempts

\* No committed event is forgotten: every row is eventually processed,
\* failed or dead-lettered, whatever crashes and faults (finitely many) hit.
EveryRowSettles ==
  \A r \in Record : r \in stored ~> r \in processed \cup failed \cup dead

\* The ledger of EventDelivery, as the table's columns say it.
LedgerOf ==
  [r \in Record |-> IF r \in processed THEN "done"
                   ELSE IF r \in failed \cup dead THEN "dead"
                   ELSE IF r \in stored THEN "open"
                   ELSE IF r \in lossy THEN "unlogged"
                   ELSE "none"]

Delivery == INSTANCE EventDelivery WITH Subscriber <- Sub, ledger <- LedgerOf

\* The outbox implements the contract of EventDelivery.
DeliveryContract == Delivery!Spec

=============================================================================
