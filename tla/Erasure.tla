------------------------------- MODULE Erasure -------------------------------
(***************************************************************************)
(* The erasure of an account (GDPR): one table after another, without a    *)
(* transaction around them, and an audit row that says how it went.        *)
(*   application/privacy/service.go, handler/privacy_handler.go, and the   *)
(*   EraseByUser, DeleteByUser and Anonymize... of the postgres            *)
(*   repositories                                                          *)
(*                                                                         *)
(* Two users who share the cost of a booking, and the requests that they   *)
(* have under way while one of them erases the account.                    *)
(***************************************************************************)
EXTENDS Naturals, Sequences, SequencesExt

CONSTANTS User, Request, MaxFaults

VARIABLES
  data,     \* the users whose personal data a table holds
  active,   \* users that the middleware lets in
  erasure,  \* of each user: not asked, the steps done, what failed
  trail,    \* gdpr_erase rows of the audit trail: user, status, still naming the user
  request,  \* a request in a handler: nobody's, or whose and the table it will write
  late,     \* history: tables written by a request that was let in before the erasure
  faulted

erasureVars == <<data, active, erasure, trail, request, late, faulted>>

-----------------------------------------------------------------------------
(* The tables and what an erasure does to each.                              *)

\* Rows are deleted.
DeletePushTokens(d, u)     == [d EXCEPT !["push_tokens"] = @ \ {u}]
EraseSavedSearches(d, u)   == [d EXCEPT !["saved_searches"] = @ \ {u}]
EraseVerifications(d, u)   == [d EXCEPT !["identity_verifications"] = @ \ {u}]
EraseCohostGrants(d, u)    == [d EXCEPT !["cohosts"] = @ \ {u}]
EraseTemplates(d, u)       == [d EXCEPT !["message_templates"] = @ \ {u}]
RemoveFavorites(d, u)      == [d EXCEPT !["favorites"] = @ \ {u}]
DeleteNotifications(d, u)  == [d EXCEPT !["notifications"] = @ \ {u}]

\* Rows are kept and lose their text or their link to the account.
AnonymizeReviews(d, u)     == [d EXCEPT !["reviews"] = @ \ {u}]
AnonymizeDisputes(d, u)    == [d EXCEPT !["disputes"] = @ \ {u}]
AnonymizeShares(d, u)      == [d EXCEPT !["split_payment_shares"] = @ \ {u}]
AnonymizeAcceptances(d, u) == [d EXCEPT !["house_rule_acceptances"] = @ \ {u}]
AnonymizeAssessments(d, u) == [d EXCEPT !["fraud_assessments"] = @ \ {u}]

Swept ==
  <<"push_tokens", "saved_searches", "identity_verifications", "cohosts",
    "message_templates", "favorites", "notifications", "reviews", "disputes",
    "split_payment_shares", "house_rule_acceptances", "fraud_assessments">>

\* Wishlists, with the link under which they are shared, are in no step.
Table == ToSet(Swept) \cup {"wishlist_collections"}

Swipe(t, d, u) ==
  CASE t = "push_tokens"            -> DeletePushTokens(d, u)
    [] t = "saved_searches"         -> EraseSavedSearches(d, u)
    [] t = "identity_verifications" -> EraseVerifications(d, u)
    [] t = "cohosts"                -> EraseCohostGrants(d, u)
    [] t = "message_templates"      -> EraseTemplates(d, u)
    [] t = "favorites"              -> RemoveFavorites(d, u)
    [] t = "notifications"          -> DeleteNotifications(d, u)
    [] t = "reviews"                -> AnonymizeReviews(d, u)
    [] t = "disputes"               -> AnonymizeDisputes(d, u)
    [] t = "split_payment_shares"   -> AnonymizeShares(d, u)
    [] t = "house_rule_acceptances" -> AnonymizeAcceptances(d, u)
    [] t = "fraud_assessments"      -> AnonymizeAssessments(d, u)

-----------------------------------------------------------------------------
NotAsked == [step |-> 0, failed |-> {}, at |-> "none"]
Nobody == [user |-> "none", table |-> "none"]

Init ==
  /\ data = [t \in Table |-> User]
  /\ active = User /\ erasure = [u \in User |-> NotAsked] /\ trail = {}
  /\ request = [r \in Request |-> Nobody] /\ late = {}
  /\ faulted = 0

Fault == faulted < MaxFaults /\ faulted' = faulted + 1

\* The profile is scrubbed and deactivated first; an error here ends the erasure.
AnonymizeUser(u) ==
  /\ u \in active /\ erasure[u].at = "none"
  /\ \/ /\ active' = active \ {u} /\ UNCHANGED faulted
        /\ erasure' = [erasure EXCEPT ![u].at = "sweep"]
     \/ UNCHANGED <<active, erasure>> /\ Fault
  /\ UNCHANGED <<data, trail, request, late>>

\* An erased share has the empty address; two of them in one split break its unique index.
Collides(t, u) ==
  /\ t = "split_payment_shares" /\ u \in data[t]
  /\ \E v \in User \ {u} : v \notin data[t]

\* What is left to do after a step.
\* Fault: the first error is the end of the sweep.
AfterStep_Stops(n, ok) == IF n = Len(Swept) \/ ~ok THEN "scrub" ELSE "sweep"
AfterStep(n, ok) == IF n = Len(Swept) THEN "scrub" ELSE "sweep"

\* The next table; an error is kept and the sweep goes on.
Sweep(u) ==
  LET n == erasure[u].step + 1
      t == Swept[n]
  IN  /\ erasure[u].at = "sweep"
      /\ \/ /\ ~Collides(t, u) /\ data' = Swipe(t, data, u) /\ UNCHANGED faulted
            /\ erasure' = [erasure EXCEPT ![u] = [step |-> n, failed |-> @.failed, at |-> AfterStep(n, TRUE)]]
         \/ /\ UNCHANGED data
            /\ erasure' = [erasure EXCEPT ![u] = [step |-> n, failed |-> @.failed \cup {t},
                                                at |-> AfterStep(n, FALSE)]]
            /\ IF Collides(t, u) THEN UNCHANGED faulted ELSE Fault
      /\ UNCHANGED <<active, trail, request, late>>

\* The audit trail forgets the user, and then names them once more.
AnonymizeTrail(u) ==
  /\ erasure[u].at = "scrub" /\ erasure' = [erasure EXCEPT ![u].at = "record"]
  /\ trail' = {IF e.user = u THEN [e EXCEPT !.names = FALSE] ELSE e : e \in trail}
  /\ UNCHANGED <<data, active, request, late, faulted>>

RecordErasure(u) ==
  /\ erasure[u].at = "record" /\ erasure' = [erasure EXCEPT ![u].at = "over"]
  /\ \/ /\ trail' = trail \cup {[user |-> u, names |-> TRUE,
                                 status |-> IF erasure[u].failed = {} THEN "ok" ELSE "partial"]}
        /\ UNCHANGED faulted
     \/ UNCHANGED trail /\ Fault
  /\ UNCHANGED <<data, active, request, late>>

-----------------------------------------------------------------------------
(* Everybody else's requests, and the user's own.                            *)

\* The middleware lets the user in; the handler writes later, a favourite or, with the
\* other shares of the split, the share that was loaded before.
Admit(r, u, t) ==
  /\ request[r] = Nobody /\ u \in active
  /\ request' = [request EXCEPT ![r] = [user |-> u, table |-> t]]
  /\ UNCHANGED <<data, active, erasure, trail, late, faulted>>

Write(r) ==
  LET u == request[r].user
      t == request[r].table
  IN  /\ request[r] # Nobody
      /\ data' = [data EXCEPT ![t] = @ \cup {u}]
      /\ late' = IF u \in active THEN late ELSE late \cup {<<u, t>>}
      /\ request' = [request EXCEPT ![r] = Nobody]
      /\ UNCHANGED <<active, erasure, trail, faulted>>

Next ==
  \/ \E u \in User : AnonymizeUser(u) \/ Sweep(u) \/ AnonymizeTrail(u) \/ RecordErasure(u)
  \/ \E r \in Request :
       \/ Write(r)
       \/ \E u \in User, t \in {"favorites", "split_payment_shares"} : Admit(r, u, t)

-----------------------------------------------------------------------------
Finished(u) == erasure[u].at = "over"

\* A swept table holds nothing of an erased user, unless its step failed or a request
\* from before wrote it; a step fails for an error or because another payer of the
\* split was erased first (privacy/service.go:218-323, migration 0045:38).
SweptTablesAreClean ==
  \A u \in User : Finished(u) =>
    /\ \A t \in ToSet(Swept) :
         u \in data[t] => t \in erasure[u].failed \/ <<u, t>> \in late
    /\ erasure[u].failed # {} =>
         \/ faulted > 0
         \/ /\ erasure[u].failed = {"split_payment_shares"}
            /\ \E v \in User \ {u} : v \notin active

\* The compliance row names the user and says ok exactly when every step succeeded.
ErasureIsOnRecord ==
  \A u \in User : Finished(u) =>
    \/ faulted > 0
    \/ \E e \in trail : e.user = u /\ e.names /\ (e.status = "ok" <=> erasure[u].failed = {})

\* An erasure that is over did what its audit row says (SweptTablesAreClean,
\* ErasureIsOnRecord): a swept table holds nothing of the user unless its step is among
\* the failed ones or a request admitted before it wrote later, and a step fails for an
\* error or on the unique payer of a split (privacy/service.go:218-323, migration 0045).
ErasureIsExplained == SweptTablesAreClean /\ ErasureIsOnRecord
=============================================================================
