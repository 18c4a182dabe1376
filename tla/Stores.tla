-------------------------------- MODULE Stores --------------------------------
(***************************************************************************)
(* The repositories twice: the in-memory ones that the services are tested *)
(* against, and the Postgres ones they run on.                             *)
(*   persistence/memory, persistence/postgres and its migrations           *)
(*                                                                         *)
(* One table at a time goes through the same calls in both stores. What a  *)
(* repository does with a call is a record; the lists filter and sort what *)
(* the rows hold and are left out, except for the count beside a page.     *)
(***************************************************************************)
EXTENDS Naturals, FiniteSets

CONSTANTS Row,     \* identifiers, each given to one new row
          Key,     \* what a unique index of the table is over
          Owner    \* the user whose data a row is

VARIABLES
  table,
  memory, durable, \* the rows of the two stores
  parent,          \* what the foreign key of the rows points to is still there
  used,            \* identifiers that have been given
  copy,            \* a row that a service has loaded, from each store
  total,           \* a count that a page is still to be read for
  answer,          \* what the last call answered
  seen             \* history: situations of Gaps that have occurred

storesVars == <<table, memory, durable, parent, used, copy, total, answer, seen>>

Columns == {"key", "owner", "status", "rest"}
Absent == [key |-> "none", owner |-> "none", status |-> "absent", rest |-> 0]
NoCopy == [r |-> "none", memory |-> Absent, durable |-> Absent]
NoCount == [memory |-> 0, durable |-> 0, open |-> FALSE, old |-> FALSE]
Same(a) == [memory |-> a, durable |-> a]

\* A repository that takes every new row, refuses to change or delete a missing one,
\* writes whole rows, has neither index nor foreign key, and keeps what it was given when
\* the unit of work around it fails.
InMemory == [dup |-> "allow", missing |-> "refuse", gone |-> "refuse", indexed |-> FALSE,
             writes |-> Columns, erase |-> "none", parent |-> "none", undone |-> FALSE,
             ops |-> {}]
\* The same in the database, where an index is there for changes as well.
InPostgres == [InMemory EXCEPT !.indexed = TRUE]

-----------------------------------------------------------------------------
(* The in-memory repositories.                                               *)

MemoryUsers == [InMemory EXCEPT !.dup = "refuse", !.ops = {"update", "rename", "rewrite"}]
MemoryProperties == [InMemory EXCEPT !.ops = {"update", "rate", "delete"}]
MemoryBookings == [InMemory EXCEPT !.ops = {"update", "end", "rewrite"}]
MemoryReviews == [InMemory EXCEPT !.dup = "refuse", !.erase = "unlink", !.ops = {"update", "delete"}]
MemoryConversations == [InMemory EXCEPT !.dup = "refuse", !.ops = {"update"}]
MemoryFavorites == [InMemory EXCEPT !.dup = "merge", !.gone = "silent", !.ops = {"update", "delete"}]
MemoryCollections == [InMemory EXCEPT !.dup = "refuse", !.ops = {"update", "delete"}]
MemoryNotifications == [InMemory EXCEPT !.erase = "delete", !.ops = {"update"}]
MemoryPayments == [InMemory EXCEPT !.ops = {"update"}]
MemoryEarnings == InMemory
MemoryDisbursements == [InMemory EXCEPT !.ops = {"update"}]
MemoryBlocks == [InMemory EXCEPT !.ops = {"delete"}]
MemoryVerifications == [InMemory EXCEPT !.erase = "delete", !.ops = {"update"}]
MemoryReports == [InMemory EXCEPT !.ops = {"update"}]
MemoryUserBlocks == [InMemory EXCEPT !.dup = "keep", !.gone = "silent", !.ops = {"delete"}]
MemoryOffers == [InMemory EXCEPT !.ops = {"update"}]
MemorySearches == [InMemory EXCEPT !.erase = "delete", !.ops = {"update", "delete"}]
MemoryPriceRules == [InMemory EXCEPT !.ops = {"delete"}]
MemoryCoupons == [InMemory EXCEPT !.dup = "refuse", !.ops = {"update"}]
MemoryPushTokens == [InMemory EXCEPT !.dup = "merge", !.gone = "silent", !.erase = "delete",
                                     !.ops = {"delete"}]
MemoryDisputes == [InMemory EXCEPT !.dup = "active", !.missing = "insert", !.erase = "unlink",
                                   !.ops = {"update", "end"}]
\* Fault: a second deposit for the booking is taken.
MemoryDeposits_Blind == [InMemory EXCEPT !.ops = {"update"}]
MemoryDeposits == [InMemory EXCEPT !.dup = "refuse", !.ops = {"update"}]
MemoryCohosts == [InMemory EXCEPT !.dup = "refuse", !.erase = "delete", !.ops = {"update", "delete"}]
MemorySplits == [InMemory EXCEPT !.dup = "refuse", !.erase = "unlink", !.ops = {"update"}]
MemoryTemplates == [InMemory EXCEPT !.erase = "delete", !.ops = {"update", "delete"}]
MemoryAudit == [InMemory EXCEPT !.erase = "unlink"]
MemoryHouseRules == [InMemory EXCEPT !.dup = "refuse"]
MemoryAcceptances == [InMemory EXCEPT !.dup = "keep", !.erase = "unlink"]
MemoryTaxRules == [InMemory EXCEPT !.missing = "insert", !.gone = "silent",
                                   !.ops = {"update", "delete"}]
MemoryAssessments == [InMemory EXCEPT !.dup = "replace", !.erase = "unlink"]
MemoryExperiences == [InMemory EXCEPT !.ops = {"update", "delete"}]
MemoryExperienceBookings == [InMemory EXCEPT !.ops = {"update"}]

-----------------------------------------------------------------------------
(* The Postgres repositories.                                                *)

DurableUsers == [InPostgres EXCEPT !.dup = "refuse", !.missing = "silent",
                                   !.writes = Columns \ {"rest"}]
DurableProperties == [InPostgres EXCEPT !.missing = "silent", !.writes = Columns \ {"rest"}]
DurableBookings == [InPostgres EXCEPT !.dup = "active", !.missing = "silent",
                      !.writes = {"status"}, !.parent = "cascade", !.undone = TRUE]
DurableReviews == [InPostgres EXCEPT !.dup = "refuse", !.erase = "unlink", !.parent = "cascade",
                                     !.undone = TRUE]
DurableConversations == [InPostgres EXCEPT !.dup = "refuse", !.missing = "silent",
                                           !.parent = "cascade", !.undone = TRUE]
DurableFavorites == [InPostgres EXCEPT !.dup = "merge", !.gone = "silent", !.parent = "cascade"]
DurableCollections == [InPostgres EXCEPT !.dup = "refuse"]
DurableNotifications == [InPostgres EXCEPT !.erase = "delete"]
DurablePayments == [InPostgres EXCEPT !.dup = "refuse", !.missing = "silent", !.parent = "cascade",
                                      !.undone = TRUE]
DurableEarnings == [InPostgres EXCEPT !.dup = "refuse", !.parent = "cascade"]
DurableDisbursements == InPostgres
DurableBlocks == [InPostgres EXCEPT !.parent = "cascade"]
DurableVerifications == [InPostgres EXCEPT !.erase = "delete", !.undone = TRUE]
DurableReports == [InPostgres EXCEPT !.parent = "cascade"]
DurableUserBlocks == [InPostgres EXCEPT !.dup = "keep", !.gone = "silent"]
DurableOffers == [InPostgres EXCEPT !.parent = "cascade"]
DurableSearches == [InPostgres EXCEPT !.erase = "delete"]
DurablePriceRules == [InPostgres EXCEPT !.parent = "cascade"]
DurableCoupons == [InPostgres EXCEPT !.dup = "refuse", !.undone = TRUE]
DurablePushTokens == [InPostgres EXCEPT !.dup = "merge", !.gone = "silent", !.erase = "delete"]
DurableDisputes == [InPostgres EXCEPT !.dup = "active", !.missing = "insert", !.erase = "unlink",
                                      !.parent = "restrict", !.undone = TRUE]
DurableDeposits == [InPostgres EXCEPT !.dup = "refuse", !.missing = "silent", !.parent = "cascade"]
DurableCohosts == [InPostgres EXCEPT !.dup = "refuse", !.erase = "delete", !.parent = "cascade"]
DurableSplits == [InPostgres EXCEPT !.dup = "refuse", !.erase = "unlink", !.parent = "cascade",
                                    !.undone = TRUE]
DurableTemplates == [InPostgres EXCEPT !.erase = "delete"]
DurableAudit == [InPostgres EXCEPT !.erase = "unlink"]
DurableHouseRules == [InPostgres EXCEPT !.dup = "refuse"]
DurableAcceptances == [InPostgres EXCEPT !.dup = "keep", !.erase = "unlink"]
DurableTaxRules == [InPostgres EXCEPT !.missing = "insert", !.gone = "silent"]
DurableAssessments == [InPostgres EXCEPT !.dup = "replace", !.erase = "unlink"]
DurableExperiences == InPostgres
DurableExperienceBookings == [InPostgres EXCEPT !.parent = "cascade", !.undone = TRUE]

-----------------------------------------------------------------------------
Tables ==
  {"users", "properties", "bookings", "reviews", "conversations", "favorites",
   "collections", "notifications", "payments", "earnings", "disbursements", "blocks",
   "verifications", "reports", "userBlocks", "offers", "searches", "priceRules", "coupons",
   "pushTokens", "disputes", "deposits", "cohosts", "splits", "templates", "audit",
   "houseRules", "acceptances", "taxRules", "assessments", "experiences",
   "experienceBookings"}

Repositories ==
  CASE table = "users" -> <<MemoryUsers, DurableUsers>>
    [] table = "properties" -> <<MemoryProperties, DurableProperties>>
    [] table = "bookings" -> <<MemoryBookings, DurableBookings>>
    [] table = "reviews" -> <<MemoryReviews, DurableReviews>>
    [] table = "conversations" -> <<MemoryConversations, DurableConversations>>
    [] table = "favorites" -> <<MemoryFavorites, DurableFavorites>>
    [] table = "collections" -> <<MemoryCollections, DurableCollections>>
    [] table = "notifications" -> <<MemoryNotifications, DurableNotifications>>
    [] table = "payments" -> <<MemoryPayments, DurablePayments>>
    [] table = "earnings" -> <<MemoryEarnings, DurableEarnings>>
    [] table = "disbursements" -> <<MemoryDisbursements, DurableDisbursements>>
    [] table = "blocks" -> <<MemoryBlocks, DurableBlocks>>
    [] table = "verifications" -> <<MemoryVerifications, DurableVerifications>>
    [] table = "reports" -> <<MemoryReports, DurableReports>>
    [] table = "userBlocks" -> <<MemoryUserBlocks, DurableUserBlocks>>
    [] table = "offers" -> <<MemoryOffers, DurableOffers>>
    [] table = "searches" -> <<MemorySearches, DurableSearches>>
    [] table = "priceRules" -> <<MemoryPriceRules, DurablePriceRules>>
    [] table = "coupons" -> <<MemoryCoupons, DurableCoupons>>
    [] table = "pushTokens" -> <<MemoryPushTokens, DurablePushTokens>>
    [] table = "disputes" -> <<MemoryDisputes, DurableDisputes>>
    [] table = "deposits" -> <<MemoryDeposits, DurableDeposits>>
    [] table = "cohosts" -> <<MemoryCohosts, DurableCohosts>>
    [] table = "splits" -> <<MemorySplits, DurableSplits>>
    [] table = "templates" -> <<MemoryTemplates, DurableTemplates>>
    [] table = "audit" -> <<MemoryAudit, DurableAudit>>
    [] table = "houseRules" -> <<MemoryHouseRules, DurableHouseRules>>
    [] table = "acceptances" -> <<MemoryAcceptances, DurableAcceptances>>
    [] table = "taxRules" -> <<MemoryTaxRules, DurableTaxRules>>
    [] table = "assessments" -> <<MemoryAssessments, DurableAssessments>>
    [] table = "experiences" -> <<MemoryExperiences, DurableExperiences>>
    [] table = "experienceBookings" -> <<MemoryExperienceBookings, DurableExperienceBookings>>
InStore == Repositories[1]
InTable == Repositories[2]
Offered(op) == op \in InStore.ops

\* What a test of a service on the in-memory store cannot show, table by table.
Gaps ==
  {"page"}
    \cup (IF InTable.parent # "none" THEN {"orphan"} ELSE {})
    \cup (IF InTable.undone THEN {"rollback"} ELSE {})
    \cup (CASE table \in {"payments", "earnings"} -> {"double"}
            [] table = "bookings" -> {"double", "rest"}
            [] table = "users" -> {"taken", "rest"}
            [] table = "properties" -> {"missing", "rest"}
            [] table = "disputes" -> {"revived"}
            [] OTHER -> {})

Init ==
  /\ table \in Tables
  /\ memory = [r \in Row |-> Absent] /\ durable = [r \in Row |-> Absent]
  /\ parent = TRUE /\ used = {} /\ copy = NoCopy /\ total = NoCount
  /\ answer = Same("none") /\ seen = {}

-----------------------------------------------------------------------------
(* One call at one repository: the rows after it and its answer.             *)

Rows(s) == {r \in Row : s[r] # Absent}

\* The rows that an index on the key holds against rec at r.
Twins(s, p, r, rec) ==
  {q \in Rows(s) \ {r} : /\ s[q].key = rec.key
                         /\ p.dup = "active" => s[q].status # "ended" /\ rec.status # "ended"}

Insert(s, p, r, rec) ==
  LET twins == Twins(s, p, r, rec)
  IN  IF p.parent # "none" /\ ~parent THEN [rows |-> s, says |-> "no such parent"]
      ELSE IF twins = {} \/ p.dup = "allow" THEN [rows |-> [s EXCEPT ![r] = rec], says |-> "ok"]
      ELSE CASE p.dup = "keep" -> [rows |-> s, says |-> "ok"]
             [] p.dup = "merge" ->
                  [rows |-> [q \in Row |-> IF q \in twins
                                           THEN [s[q] EXCEPT !.owner = rec.owner, !.status = rec.status]
                                           ELSE s[q]],
                   says |-> "ok"]
             [] p.dup = "replace" ->
                  [rows |-> [[q \in Row |-> IF q \in twins THEN Absent ELSE s[q]] EXCEPT ![r] = rec],
                   says |-> "ok"]
             [] OTHER -> [rows |-> s, says |-> "conflict"]

Modify(s, p, r, rec) ==
  CASE s[r] = Absent /\ p.missing = "insert" -> Insert(s, p, r, rec)
    [] s[r] = Absent /\ p.missing # "insert" ->
         [rows |-> s, says |-> IF p.missing = "silent" THEN "ok" ELSE "not found"]
    [] s[r] # Absent /\ p.indexed /\ p.dup \in {"refuse", "active"} /\ Twins(s, p, r, rec) # {} ->
         [rows |-> s, says |-> "conflict"]
    [] OTHER ->
         [rows |-> [s EXCEPT ![r] = [c \in Columns |-> IF c \in p.writes THEN rec[c] ELSE s[r][c]]],
          says |-> "ok"]

Remove(s, p, r) ==
  [rows |-> [s EXCEPT ![r] = Absent],
   says |-> IF s[r] # Absent \/ p.gone = "silent" THEN "ok" ELSE "not found"]

EraseBy(s, p, o) ==
  [r \in Row |-> IF s[r].owner # o THEN s[r]
                 ELSE IF p.erase = "delete" THEN Absent ELSE [s[r] EXCEPT !.owner = "nobody"]]

\* What is left when the unit of work around the call fails after it.
Undone(p, before, after) == IF p.undone THEN before ELSE after

-----------------------------------------------------------------------------
(* A service's calls.                                                        *)

Answers(m, d) == answer' = [memory |-> m, durable |-> d]
Saw(what) == seen' = seen \cup (what \cap Gaps)
Outdated == total' = [total EXCEPT !.old = total.open]

\* Both outcomes, and what became of them.
Done(m, d, what) ==
  /\ Answers(m.says, d.says) /\ Outdated
  /\ \/ memory' = m.rows /\ durable' = d.rows /\ Saw(what)
     \/ /\ InTable.undone /\ m.rows # memory
        /\ memory' = Undone(InStore, memory, m.rows) /\ durable' = Undone(InTable, durable, d.rows)
        /\ Saw(what \cup {"rollback"})

Doubles(r, rec, what) ==
  IF \E q \in Rows(memory) \ {r} : memory[q].key = rec.key THEN {what} ELSE {}

Create(r, k, o) ==
  LET rec == [key |-> k, owner |-> o, status |-> "fresh", rest |-> 0]
  IN  /\ r \notin used /\ used' = used \cup {r}
      /\ Done(Insert(memory, InStore, r, rec), Insert(durable, InTable, r, rec),
              Doubles(r, rec, "double") \cup (IF parent THEN {} ELSE {"orphan"}))
      /\ UNCHANGED <<table, parent, copy>>

Load(r) ==
  /\ Offered("update") /\ copy = NoCopy /\ memory[r] # Absent
  /\ copy' = [r |-> r, memory |-> memory[r], durable |-> durable[r]]
  /\ UNCHANGED <<table, memory, durable, parent, used, total, answer, seen>>

\* Changes that a service makes to the row it loaded.
Changed(rec) ==
  {[rec EXCEPT !.status = "changed"]}
    \cup (IF Offered("end") THEN {[rec EXCEPT !.status = "ended"]} ELSE {})
    \cup (IF Offered("rename") THEN {[rec EXCEPT !.key = k] : k \in Key} ELSE {})
    \cup (IF Offered("rewrite") THEN {[rec EXCEPT !.rest = 1]} ELSE {})

Write ==
  LET r == copy.r
  IN  /\ copy # NoCopy /\ copy' = NoCopy
      /\ \E rec \in Changed(copy.memory) :
           Done(Modify(memory, InStore, r, rec), Modify(durable, InTable, r, rec),
                Doubles(r, rec, "taken")
                  \cup (IF rec.rest # memory[r].rest THEN {"rest"} ELSE {})
                  \cup (IF memory[r] = Absent THEN {"missing"} ELSE {})
                  \cup (IF memory[r].status = "ended" /\ rec.status # "ended" THEN {"revived"} ELSE {}))
      /\ UNCHANGED <<table, parent, used>>

\* The columns that have a statement of their own.
Rate(r) ==
  /\ Offered("rate") /\ memory[r] # Absent
  /\ memory' = [memory EXCEPT ![r].rest = 1] /\ durable' = [durable EXCEPT ![r].rest = 1]
  /\ Outdated /\ UNCHANGED <<table, parent, used, copy, answer, seen>>

Delete(r) ==
  LET m == Remove(memory, InStore, r)
      d == Remove(durable, InTable, r)
  IN  /\ Offered("delete") /\ r \in used
      /\ memory' = m.rows /\ durable' = d.rows /\ Answers(m.says, d.says) /\ Outdated
      /\ UNCHANGED <<table, parent, used, copy, seen>>

Erase(o) ==
  /\ InTable.erase # "none"
  /\ memory' = EraseBy(memory, InStore, o) /\ durable' = EraseBy(durable, InTable, o)
  /\ Outdated /\ UNCHANGED <<table, parent, used, copy, answer, seen>>

\* The listing or the booking that the rows belong to is deleted.
DeleteParent ==
  /\ InTable.parent # "none" /\ parent /\ Outdated
  /\ Saw(IF Rows(memory) # {} THEN {"orphan"} ELSE {})
  /\ IF InTable.parent = "restrict" /\ Rows(durable) # {}
     THEN UNCHANGED <<parent, durable>>
     ELSE /\ parent' = FALSE
          /\ durable' = [r \in Row |-> Absent]
  /\ UNCHANGED <<table, memory, used, copy, answer>>

\* A list: in memory the count and the page are read under one lock, in the database by
\* two statements.
Count ==
  /\ ~total.open
  /\ total' = [memory |-> 0, durable |-> Cardinality(Rows(durable)), open |-> TRUE, old |-> FALSE]
  /\ UNCHANGED <<table, memory, durable, parent, used, copy, answer, seen>>

Page ==
  /\ total.open
  /\ Answers(<<Cardinality(Rows(memory)), Rows(memory)>>, <<total.durable, Rows(durable)>>)
  /\ Saw(IF total.old THEN {"page"} ELSE {})
  /\ total' = NoCount
  /\ UNCHANGED <<table, memory, durable, parent, used, copy>>

-----------------------------------------------------------------------------
\* The stores are compared until something happens that they differ about.
Next ==
  /\ seen = {}
  /\ \/ \E r \in Row : Load(r) \/ Rate(r) \/ Delete(r) \/ \E k \in Key, o \in Owner : Create(r, k, o)
     \/ \E o \in Owner : Erase(o)
     \/ Write \/ DeleteParent \/ Count \/ Page

\* A test on the in-memory store shows what production does: both hold the same rows and
\* gave the same answer, until a situation of Gaps (memory.go 28-3333 and the Postgres
\* repositories with their indexes, foreign keys and transactions).
StoresAgree == seen = {} => memory = durable /\ answer.memory = answer.durable
=============================================================================
