---------------------------- MODULE EventDelivery ----------------------------
(***************************************************************************)
(* What the outbox promises to the services that record events in it and   *)
(* to the subscribers, whatever happens underneath: an event enters the    *)
(* ledger only by the commit that recorded it, subscribers are offered     *)
(* only events of the ledger, an event is settled as done only when every  *)
(* subscriber was offered it, done is final, and what is given up on can   *)
(* be reopened.  (application/event/outbox.go, the contract in the         *)
(* comments of OutboxStore, DeadLetterStore and DispatchRecords.)          *)
(***************************************************************************)
CONSTANTS Record, Subscriber

VARIABLES ledger,   \* where each event stands
          offered   \* the subscribers that were offered it

Status == {"none", "unlogged", "open", "done", "dead"}

TypeOK == /\ ledger \in [Record -> Status]
          /\ offered \in [Record -> SUBSET Subscriber]

Init == /\ ledger = [r \in Record |-> "none"]
        /\ offered = [r \in Record |-> {}]

\* A transaction commits and all its events enter the ledger at once.
Commit(S) ==
  /\ \A r \in S : ledger[r] = "none"
  /\ ledger' = [r \in Record |-> IF r \in S THEN "open" ELSE ledger[r]]
  /\ UNCHANGED offered

\* The event could not be recorded; it is delivered at most once.
PublishUnlogged(r) ==
  /\ ledger[r] = "none"
  /\ ledger' = [ledger EXCEPT ![r] = "unlogged"]
  /\ UNCHANGED offered

Offer(r, s) ==
  /\ ledger[r] # "none"
  /\ offered' = [offered EXCEPT ![r] = @ \cup {s}]
  /\ UNCHANGED ledger

Done(r) ==
  /\ ledger[r] \in {"open", "dead"}
  /\ offered[r] = Subscriber
  /\ ledger' = [ledger EXCEPT ![r] = "done"]
  /\ UNCHANGED offered

GiveUp(r) ==
  /\ ledger[r] = "open"
  /\ ledger' = [ledger EXCEPT ![r] = "dead"]
  /\ UNCHANGED offered

Reopen(r) ==
  /\ ledger[r] = "dead"
  /\ ledger' = [ledger EXCEPT ![r] = "open"]
  /\ UNCHANGED offered

Next ==
  \/ \E S \in SUBSET Record : Commit(S)
  \/ \E r \in Record : PublishUnlogged(r) \/ Done(r) \/ GiveUp(r) \/ Reopen(r)
  \/ \E r \in Record, s \in Subscriber : Offer(r, s)

vars == <<ledger, offered>>

Spec == Init /\ [][Next]_vars
=============================================================================
