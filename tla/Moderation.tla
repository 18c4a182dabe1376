------------------------------ MODULE Moderation ------------------------------
(***************************************************************************)
(* What administrators decide: identity verifications of one user, reports *)
(* that the user files about one target, the risk score of their booking,  *)
(* and the audit trail of the decisions.                                   *)
(*   application/identity, report, fraud and audit with their domains,     *)
(*   postgres repositories and handlers                                    *)
(*                                                                         *)
(* A look-up and the insert that rests on it are two steps, and so are the *)
(* load of a row and the write of the decision made on the copy.           *)
(***************************************************************************)
EXTENDS Naturals, FiniteSets, FiniteSetsExt

CONSTANTS Call, MaxRows, MaxFaults

VARIABLES
  rows,       \* identity_verifications and reports: kind, number, status, decider
  announced,  \* verifications whose IdentityVerified event has committed
  trail,      \* the audit trail
  guest,      \* what the score reads of the guest besides their verification
  score,      \* the fraud assessment of the booking, if it is made
  call,
  crowded,    \* history: kinds of which two submissions overlapped
  contested,  \* history: rows on which two decisions overlapped
  faulted

moderationVars == <<rows, announced, trail, guest, score, call, crowded, contested, faulted>>

Kind == {"kyc", "report"}
Verdict == [kyc |-> {"approved", "rejected"}, report |-> {"resolved", "dismissed"}]
Idle == [op |-> "new", kind |-> "none", n |-> 0, verdict |-> "none", signals |-> {}]
Over == [Idle EXCEPT !.op = "over"]
Unscored == [signals |-> {}, level |-> "none"]

Init ==
  /\ rows = {} /\ announced = {} /\ trail = {} /\ score = Unscored
  /\ guest \in [fresh : BOOLEAN, active : {TRUE}, recent : {0, 4}]
  /\ call = [c \in Call |-> Idle]
  /\ crowded = {} /\ contested = {} /\ faulted = 0

Fault == faulted < MaxFaults /\ faulted' = faulted + 1
At(c, op) == call[c].op = op
Goes(c, rec) == call' = [call EXCEPT ![c] = rec]
Of(kind) == {r \in rows : r.kind = kind}
Latest(kind) == CHOOSE r \in Of(kind) : \A s \in Of(kind) : s.n <= r.n

\* Somebody else is between the same check and the same write.
Beside(c, op, kind, n) ==
  \E d \in Call \ {c} : call[d].op = op /\ call[d].kind = kind /\ call[d].n = n

-----------------------------------------------------------------------------
(* Submitting.                                                               *)

\* A verification is refused while the latest is pending or approved, a report
\* while one of the reporter is open.
\* Fault: only an approved verification stands in the way.
Refused_ApprovedOnly(kind) ==
  kind = "kyc" /\ Of(kind) # {} /\ Latest(kind).status = "approved"
Refused(kind) ==
  IF kind = "kyc" THEN Of(kind) # {} /\ Latest(kind).status \in {"pending", "approved"}
  ELSE \E r \in Of(kind) : r.status = "pending"

LookUp(c, kind) ==
  /\ At(c, "new") /\ ~Refused(kind) /\ Cardinality(Of(kind)) < MaxRows
  /\ Goes(c, [Idle EXCEPT !.op = "insert", !.kind = kind])
  /\ crowded' = IF Beside(c, "insert", kind, 0) THEN crowded \cup {kind} ELSE crowded
  /\ UNCHANGED <<rows, announced, trail, guest, score, contested, faulted>>
SubmitVerification(c) == LookUp(c, "kyc")
FileReport(c) == LookUp(c, "report")

\* No constraint of the table forbids a second pending row.
Insert(c) ==
  LET kind == call[c].kind
  IN  /\ At(c, "insert") /\ Goes(c, Over)
      /\ \/ /\ rows' = rows \cup {[kind |-> kind, n |-> Cardinality(Of(kind)) + 1,
                                   status |-> "pending", by |-> "none"]}
            /\ UNCHANGED faulted
         \/ UNCHANGED rows /\ Fault
      /\ UNCHANGED <<announced, trail, guest, score, crowded, contested>>

-----------------------------------------------------------------------------
(* Deciding.                                                                 *)

\* Load the row; only a pending one can be decided.
Decidable(r) == r.status = "pending"

Decide(c, r, verdict) ==
  /\ At(c, "new") /\ Decidable(r) /\ verdict \in Verdict[r.kind]
  /\ Goes(c, [Idle EXCEPT !.op = "write", !.kind = r.kind, !.n = r.n, !.verdict = verdict])
  /\ contested' = IF Beside(c, "write", r.kind, r.n) THEN contested \cup {<<r.kind, r.n>>}
                  ELSE contested
  /\ UNCHANGED <<rows, announced, trail, guest, score, crowded, faulted>>
Approve(c, r) == Decide(c, r, "approved")
Reject(c, r)  == Decide(c, r, "rejected")
Resolve(c, r) == Decide(c, r, "resolved")
Dismiss(c, r) == Decide(c, r, "dismissed")

\* UPDATE by id; the status in the table is not compared with the one that was loaded.
Updated(c, r) ==
  IF r.kind = call[c].kind /\ r.n = call[c].n
  THEN [r EXCEPT !.status = call[c].verdict, !.by = c] ELSE r

\* An approval commits with its event.
WriteDecision(c) ==
  /\ At(c, "write")
  /\ \/ /\ rows' = {Updated(c, r) : r \in rows} /\ Goes(c, [call[c] EXCEPT !.op = "audit"])
        /\ announced' = IF call[c].verdict = "approved" THEN announced \cup {call[c].n}
                        ELSE announced
        /\ UNCHANGED faulted
     \/ Goes(c, Over) /\ Fault /\ UNCHANGED <<rows, announced>>
  /\ UNCHANGED <<trail, guest, score, crowded, contested>>

\* The handler's audit row comes last; when it fails the decision stands.
Record(c) ==
  /\ At(c, "audit") /\ Goes(c, Over)
  /\ \/ /\ trail' = trail \cup {[kind |-> call[c].kind, n |-> call[c].n,
                                 verdict |-> call[c].verdict, by |-> c]}
        /\ UNCHANGED faulted
     \/ UNCHANGED trail /\ Fault
  /\ UNCHANGED <<rows, announced, guest, score, crowded, contested>>

\* What other services ask: was the latest request approved?
IsVerified == Of("kyc") # {} /\ Latest("kyc").status = "approved"

-----------------------------------------------------------------------------
(* The score of a booking, made after the booking has committed.             *)

Impact(s) ==
  CASE s = "new_account" -> 20 [] s = "missing_kyc" -> 20
    [] s = "guest_velocity" -> 30 [] s = "suspended_guest" -> 60
VelocityLimit == 3

Signals ==
  {s \in {"new_account", "missing_kyc", "guest_velocity", "suspended_guest"} :
     \/ s = "new_account" /\ guest.fresh
     \/ s = "missing_kyc" /\ ~IsVerified
     \/ s = "guest_velocity" /\ guest.recent > VelocityLimit
     \/ s = "suspended_guest" /\ ~guest.active}

Total(signals) == MapThenSumSet(Impact, signals)
Score(signals) == IF Total(signals) > 100 THEN 100 ELSE Total(signals)
LevelFromScore(n) == IF n >= 70 THEN "high" ELSE IF n >= 30 THEN "medium" ELSE "low"

SuspendGuest ==
  /\ guest.active /\ guest' = [guest EXCEPT !.active = FALSE]
  /\ UNCHANGED <<rows, announced, trail, score, call, crowded, contested, faulted>>

Assess(c) ==
  /\ At(c, "new") /\ score = Unscored
  /\ Goes(c, [Idle EXCEPT !.op = "save", !.signals = Signals])
  /\ UNCHANGED <<rows, announced, trail, guest, score, crowded, contested, faulted>>

\* Upsert by booking; the booking stands without its score when it fails.
Save(c) ==
  /\ At(c, "save") /\ Goes(c, Over)
  /\ \/ /\ score' = [signals |-> call[c].signals,
                     level |-> LevelFromScore(Score(call[c].signals))]
        /\ UNCHANGED faulted
     \/ UNCHANGED score /\ Fault
  /\ UNCHANGED <<rows, announced, trail, guest, crowded, contested>>

Next ==
  \/ SuspendGuest
  \/ \E c \in Call :
       \/ SubmitVerification(c) \/ FileReport(c) \/ Insert(c)
       \/ WriteDecision(c) \/ Record(c) \/ Assess(c) \/ Save(c)
       \/ \E r \in rows : Approve(c, r) \/ Reject(c, r) \/ Resolve(c, r) \/ Dismiss(c, r)

-----------------------------------------------------------------------------
\* One request of a kind waits at a time, unless two submissions passed the look-up
\* together (identity/service.go:40-52, report/service.go:41-46).
OneWaits ==
  \A kind \in Kind \ crowded : Cardinality({r \in Of(kind) : r.status = "pending"}) <= 1

\* A user to whom a verification was announced is verified, unless decisions on it
\* overlapped or a second request was submitted beside it (identity/service.go:71-80).
AnnouncedIsVerified ==
  \A n \in announced : IsVerified \/ <<"kyc", n>> \in contested \/ "kyc" \in crowded

\* The trail names the decider and the verdict that the table shows, unless decisions
\* overlapped, the audit row is still to come, or a statement failed.
TrailAgrees ==
  \A r \in rows :
    r.status # "pending" =>
      \/ \E t \in trail : t.kind = r.kind /\ t.n = r.n /\ t.verdict = r.status /\ t.by = r.by
      \/ call[r.by].op = "audit"
      \/ faulted > 0

\* No row is decided twice, unless decisions overlapped.
DecidedOnce ==
  \A t, u \in trail :
    t.kind = u.kind /\ t.n = u.n => t = u \/ <<t.kind, t.n>> \in contested

\* What administrators and services see of a request is one decision (OneWaits,
\* AnnouncedIsVerified, TrailAgrees, DecidedOnce): one request of a kind waits, who was
\* told to be verified is, the trail has one verdict and it is the table's.  Only two
\* calls that passed a look-up together, or a failed statement, explain anything else
\* (identity/service.go:40-80, report/service.go:41-46, user_handler.go).
ModerationIsExplained == OneWaits /\ AnnouncedIsVerified /\ TrailAgrees /\ DecidedOnce
=============================================================================
