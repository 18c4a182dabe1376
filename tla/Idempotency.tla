---------------------------- MODULE Idempotency ----------------------------
(***************************************************************************)
(* The Idempotency-Key middleware in front of every mutating route.        *)
(*   interfaces/http/middleware/idempotency.go, domain/idempotency,        *)
(*   infrastructure/persistence/postgres/idempotency_repository.go and its *)
(*   in-memory twin, interfaces/http/response                              *)
(*                                                                         *)
(* The client's attempts carry a key and a request (method, path and body  *)
(* hash); the look-up, the handler and the store are separate steps, and   *)
(* nothing reserves the key while the handler runs.                        *)
(***************************************************************************)
EXTENDS Naturals

CONSTANTS Attempt,   \* HTTP requests that carry a key
          Key,       \* (user, key) pairs
          Request,   \* what a request asks: method, path, body
          MaxFaults  \* bound: storage failures, server errors, lost answers

VARIABLES
  stored,  \* the request_idempotency rows
  task,    \* what each attempt asks, where it is and how it was answered
  effect,  \* how often the handler took effect, per key and request
  excused, \* keys whose requests ran together, failed, or were swept
  faulted

idempotencyVars == <<stored, task, effect, excused, faulted>>

Nothing == [request |-> "none", status |-> 0]
Waiting == [at |-> "new", key |-> "none", request |-> "none", status |-> 0, replayed |-> FALSE]

Init ==
  /\ stored = [k \in Key |-> Nothing]
  /\ task = [a \in Attempt |-> Waiting]
  /\ effect = [k \in Key |-> [q \in Request |-> 0]]
  /\ excused = {} /\ faulted = 0

Fault == faulted < MaxFaults /\ faulted' = faulted + 1
Step(a, at) == task' = [task EXCEPT ![a].at = at]
Answer(a, status, replayed) ==
  task' = [task EXCEPT ![a].at = "answered", ![a].status = status, ![a].replayed = replayed]

\* A request of a mutating verb, with a key and a user; another under the same key
\* may be in flight.
InFlight(k) == {a \in Attempt : task[a].key = k /\ task[a].at \in {"look", "run", "store"}}

Send(a, k, q) ==
  /\ task[a] = Waiting
  /\ task' = [task EXCEPT ![a] =
       [at |-> "look", key |-> k, request |-> q, status |-> 0, replayed |-> FALSE]]
  /\ excused' = IF InFlight(k) # {} THEN excused \cup {k} ELSE excused
  /\ UNCHANGED <<stored, effect, faulted>>

\* The record answers the same request, and refuses another.
\* Fault: only the key is compared.
SameRequest_KeyOnly(record, q) == TRUE
SameRequest(record, q) == record.request = q

LookUp(a) ==
  LET k == task[a].key IN
  /\ task[a].at = "look"
  /\ \/ /\ IF stored[k] = Nothing THEN Step(a, "run")
           ELSE IF SameRequest(stored[k], task[a].request)
           THEN Answer(a, stored[k].status, TRUE)
           ELSE Answer(a, 409, FALSE)
        /\ UNCHANGED <<faulted, excused>>
     \* A failed look-up serves the request.
     \/ Fault /\ Step(a, "run") /\ excused' = excused \cup {k}
  /\ UNCHANGED <<stored, effect>>

\* The handler takes effect and says so, refuses, or fails with or without effect.
Handle(a) ==
  LET k == task[a].key IN
  /\ task[a].at = "run"
  /\ \E ok \in {201, 422, 500}, done \in BOOLEAN :
       /\ (ok = 201 => done) /\ (ok = 422 => ~done)
       /\ IF ok = 500 THEN Fault /\ excused' = excused \cup {k} ELSE UNCHANGED <<faulted, excused>>
       /\ effect' = IF done THEN [effect EXCEPT ![k][task[a].request] = @ + 1] ELSE effect
       /\ task' = [task EXCEPT ![a].at = "store", ![a].status = ok]
  /\ UNCHANGED stored

\* Server errors are not recorded.
Recorded(status) == status < 500

\* The first writer wins.
Put(k, record) == IF stored[k] = Nothing THEN [stored EXCEPT ![k] = record] ELSE stored

Store(a) ==
  LET k == task[a].key IN
  /\ task[a].at = "store" /\ Step(a, "answered")
  /\ \/ /\ stored' = IF Recorded(task[a].status)
                     THEN Put(k, [request |-> task[a].request, status |-> task[a].status])
                     ELSE stored
        /\ UNCHANGED <<faulted, excused>>
     \/ UNCHANGED stored /\ Fault /\ excused' = excused \cup {k}
  /\ UNCHANGED effect

\* The process dies in the middle of a request.
Crash(a) ==
  /\ task[a].at \in {"look", "run", "store"} /\ Fault
  /\ task' = [task EXCEPT ![a].at = "lost"] /\ excused' = excused \cup {task[a].key}
  /\ UNCHANGED <<stored, effect>>

\* The hourly sweep of records older than a day.
Cleanup(k) ==
  /\ stored[k] # Nothing /\ stored' = [stored EXCEPT ![k] = Nothing]
  /\ excused' = excused \cup {k}
  /\ UNCHANGED <<task, effect, faulted>>

Next ==
  \/ \E a \in Attempt, k \in Key, q \in Request : Send(a, k, q)
  \/ \E a \in Attempt : LookUp(a) \/ Handle(a) \/ Store(a) \/ Crash(a)
  \/ \E k \in Key : Cleanup(k)

-----------------------------------------------------------------------------
\* Under one key something took effect twice only if requests ran together, the
\* storage or the server failed, or the day was over; and a replay says what the
\* very same request was answered: idempotency.go:30-50 and 101-126.
ActedOncePerKey ==
  \A k \in Key : k \notin excused =>
    /\ \A q, p \in Request : effect[k][q] > 0 /\ effect[k][p] > 0 => p = q
    /\ \A q \in Request : effect[k][q] <= 1
    /\ \A a \in Attempt : task[a].key = k /\ task[a].replayed =>
         (task[a].status = 201 <=> effect[k][task[a].request] > 0)
=============================================================================
