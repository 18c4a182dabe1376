------------------------------ MODULE Listings ------------------------------
(***************************************************************************)
(* One listing: its row, the cached public copy, co-host grants and house  *)
(* rules.                                                                  *)
(*   application/property, domain/property, handler/property_handler.go,   *)
(*   application/houserules, postgres/property_repository.go               *)
(*                                                                         *)
(* Every change loads the listing, changes the copy and writes all of it   *)
(* back, photos included; the handler then drops the cached copy, after the *)
(* audit row when an administrator acted.                                  *)
(***************************************************************************)
EXTENDS Naturals, Sequences

CONSTANTS Call, Photo, Cohost, MaxVersion, MaxFaults

VARIABLES
  row,     \* the properties row with its photos; rev counts its contents
  cache,   \* the cached view, and whether its reader overlapped a write
  grant,   \* the permissions of each co-host
  acted,   \* history: co-hosts that changed the listing's calendar or prices
  granted, \* history: co-hosts that ever held the permission for it
  rules,   \* the versions of house_rules: is there anything to accept
  proof,   \* the acceptance that each booking call recorded, 0 for none
  call,
  lift,    \* history: how a suspension ended
  faulted

listingVars == <<row, cache, grant, acted, granted, rules, proof, call, lift, faulted>>

Perm == {"calendar", "messages"}
NoView == [status |-> "none", photos |-> {}, rev |-> 0, late |-> FALSE]
Idle == [op |-> "new", at |-> "new", dirty |-> FALSE, status |-> "none",
         photos |-> {}, rev |-> 0, version |-> 0]
Over == [Idle EXCEPT !.op = "over", !.at = "over"]

Init ==
  /\ row = [status |-> "draft", photos |-> {}, rev |-> 0]
  /\ cache = NoView /\ grant = [u \in Cohost |-> {}] /\ acted = {} /\ granted = {}
  /\ rules = <<>> /\ proof = [c \in Call |-> 0]
  /\ call = [c \in Call |-> Idle] /\ lift = "none" /\ faulted = 0

Fault == faulted < MaxFaults /\ faulted' = faulted + 1
New(c) == call[c].op = "new"
At(c, at) == call[c].at = at
Admin == {"suspend", "unsuspend"}

-----------------------------------------------------------------------------
(* What the aggregate allows, and what it makes of a listing.                *)

\* A first photo comes before the first publication; it may be removed later.
MayPublish   == row.photos # {}
MayUnsuspend == row.status = "suspended"

\* The copies that calls write back.  The order of the photos is a part of the contents.
Edited           == [row EXCEPT !.rev = @ + 1]
Reordered        == [row EXCEPT !.rev = @ + 1]
Published        == [row EXCEPT !.status = "published"]
Suspended        == [row EXCEPT !.status = "suspended"]
Unsuspended      == [row EXCEPT !.status = "published"]
WithPhoto(p)     == [row EXCEPT !.photos = @ \cup {p}]
WithoutPhoto(p)  == [row EXCEPT !.photos = @ \ {p}]

\* Load, check and change the copy.
Load(c, op, to) ==
  /\ New(c) /\ row.status # "gone"
  /\ call' = [call EXCEPT ![c] = [Idle EXCEPT !.op = op, !.at = "write",
                !.status = to.status, !.photos = to.photos, !.rev = to.rev]]
  /\ UNCHANGED <<row, cache, grant, acted, granted, rules, proof, lift, faulted>>

Update(c)         == row.rev < 2 /\ Load(c, "edit", Edited)
Publish(c)        == MayPublish /\ Load(c, "publish", Published)
Suspend(c)        == Load(c, "suspend", Suspended)
Unsuspend(c)      == MayUnsuspend /\ Load(c, "unsuspend", Unsuspended)
UploadPhoto(c, p) == p \notin row.photos /\ Load(c, "photo", WithPhoto(p))
RemovePhoto(c, p) == p \in row.photos /\ Load(c, "photo", WithoutPhoto(p))
ReorderPhotos(c)  == row.photos # {} /\ row.rev < 2 /\ Load(c, "photo", Reordered)

\* Every call that read the row before this write holds an old copy.
Touched(c, next) ==
  [d \in Call |-> IF d = c THEN next
                  ELSE IF At(d, "write") \/ At(d, "fill") THEN [call[d] EXCEPT !.dirty = TRUE]
                  ELSE call[d]]

\* Where the handler goes after the write.
\* Fault: the handlers of the two administrator actions do not drop the copy.
AfterWrite_NoDrop(op) == IF op \in Admin THEN "done" ELSE "drop"
AfterWrite(op) == IF op \in Admin THEN "audit" ELSE "drop"

Lifts(c) == row.status = "suspended" /\ call[c].status # "suspended"

\* UPDATE properties and replace its photos, in one transaction; of a listing that
\* was deleted in between nothing is left to update.
Write(c) ==
  /\ At(c, "write")
  /\ IF row.status = "gone" THEN call' = [call EXCEPT ![c] = Over] /\ UNCHANGED <<row, lift>>
     ELSE /\ row' = [status |-> call[c].status, photos |-> call[c].photos, rev |-> call[c].rev]
          /\ call' = Touched(c, [call[c] EXCEPT !.at = AfterWrite(call[c].op)])
          /\ lift' = IF Lifts(c) THEN (IF call[c].dirty THEN "stale" ELSE call[c].op) ELSE lift
  /\ UNCHANGED <<cache, grant, acted, granted, rules, proof, faulted>>

\* The audit rows; without them the administrator is told of an error and the
\* cached copy stays.
Audit(c) ==
  /\ At(c, "audit")
  /\ \/ call' = [call EXCEPT ![c].at = "drop"] /\ UNCHANGED faulted
     \/ call' = [call EXCEPT ![c] = Over] /\ Fault
  /\ UNCHANGED <<row, cache, grant, acted, granted, rules, proof, lift>>

\* DELETE, with everything that refers to the listing; then the copy is dropped.
Delete(c) ==
  /\ New(c) /\ row.status # "gone"
  /\ row' = [status |-> "gone", photos |-> {}, rev |-> 0]
  /\ call' = Touched(c, [Idle EXCEPT !.op = "delete", !.at = "drop"])
  /\ grant' = [u \in Cohost |-> {}]
  /\ UNCHANGED <<cache, acted, granted, rules, proof, lift, faulted>>

-----------------------------------------------------------------------------
(* The cached view.                                                          *)

DeleteCached   == cache' = NoView
SetCached(r, late) == cache' = [status |-> r.status, photos |-> r.photos, rev |-> r.rev, late |-> late]

InvalidateProperty(c) ==
  /\ At(c, "drop") /\ call' = [call EXCEPT ![c] = Over]
  /\ \/ DeleteCached /\ UNCHANGED faulted
     \/ UNCHANGED cache /\ Fault
  /\ UNCHANGED <<row, grant, acted, granted, rules, proof, lift>>

\* Get on a miss; on a hit the bytes are served and nothing changes.
Get(c) ==
  /\ New(c) /\ cache = NoView /\ row.status # "gone"
  /\ call' = [call EXCEPT ![c] = [Idle EXCEPT !.op = "get", !.at = "fill",
                !.status = row.status, !.photos = row.photos, !.rev = row.rev]]
  /\ UNCHANGED <<row, cache, grant, acted, granted, rules, proof, lift, faulted>>

Fill(c) ==
  /\ At(c, "fill") /\ call' = [call EXCEPT ![c] = Over]
  /\ SetCached(call[c], call[c].dirty)
  /\ UNCHANGED <<row, grant, acted, granted, rules, proof, lift, faulted>>

Expire ==
  /\ cache # NoView /\ DeleteCached
  /\ UNCHANGED <<row, grant, acted, granted, rules, proof, call, lift, faulted>>

\* The process stops between a write and what follows it.
Crash(c) ==
  /\ call[c].at \in {"write", "audit", "drop", "fill", "act", "save", "record"}
  /\ call' = [call EXCEPT ![c] = Over] /\ Fault
  /\ UNCHANGED <<row, cache, grant, acted, granted, rules, proof, lift>>

-----------------------------------------------------------------------------
(* Co-hosts.                                                                 *)

\* At least one known permission is asked for.
Permissions == (SUBSET Perm) \ {{}}

\* The grant is written by the user's id.
SetGrant(c, u, perms) ==
  /\ New(c) /\ row.status # "gone" /\ perms # grant[u]
  /\ grant' = [grant EXCEPT ![u] = perms]
  /\ granted' = IF "calendar" \in perms THEN granted \cup {u} ELSE granted
  /\ call' = [call EXCEPT ![c] = Over]
  /\ UNCHANGED <<row, cache, acted, rules, proof, lift, faulted>>

Invite(c, u, perms) == grant[u] = {} /\ SetGrant(c, u, perms)
SetPermissions(c, u, perms) == grant[u] # {} /\ SetGrant(c, u, perms)
Revoke(c, u) == grant[u] # {} /\ SetGrant(c, u, {})

Has(u, perm) == perm \in grant[u]

\* The gate of calendar, prices and messages.
Authorize(u, perm) == Has(u, perm)

\* A co-host blocks nights or sets a price: the gate, and later the insert.
Enter(c, u) ==
  /\ New(c) /\ row.status # "gone" /\ Authorize(u, "calendar")
  /\ call' = [call EXCEPT ![c] = [Idle EXCEPT !.op = u, !.at = "act"]]
  /\ UNCHANGED <<row, cache, grant, acted, granted, rules, proof, lift, faulted>>

Act(c) ==
  /\ At(c, "act") /\ call' = [call EXCEPT ![c] = Over]
  /\ acted' = IF row.status = "gone" THEN acted ELSE acted \cup {call[c].op}
  /\ UNCHANGED <<row, cache, grant, granted, rules, proof, lift, faulted>>

-----------------------------------------------------------------------------
(* House rules.                                                              *)

Current == rules[Len(rules)]
Bump    == Len(rules) + 1

\* Set: the current version is read, and the next is inserted under its key.
Author(c, active) ==
  /\ New(c) /\ row.status # "gone" /\ Len(rules) < MaxVersion
  /\ call' = [call EXCEPT ![c] = [Idle EXCEPT !.op = active, !.at = "save",
                                              !.version = Bump]]
  /\ UNCHANGED <<row, cache, grant, acted, granted, rules, proof, lift, faulted>>

Save(c) ==
  /\ At(c, "save") /\ call' = [call EXCEPT ![c] = Over]
  /\ rules' = IF call[c].version = Bump
                THEN Append(rules, call[c].op = "rules") ELSE rules
  /\ UNCHANGED <<row, cache, grant, acted, granted, proof, lift, faulted>>

\* The version a guest must accept; rules that were withdrawn ask for none.
Active   == rules # <<>> /\ Current
Required == IF Active THEN Len(rules) ELSE 0

\* A booking with the version the client sends, and later its proof: the version
\* was compared when there was one to accept.
Book(c, version) ==
  /\ New(c) /\ row.status = "published"
  /\ Required > 0 => version = Required
  /\ call' = [call EXCEPT ![c] = [Idle EXCEPT !.op = IF Required > 0 THEN "checked" ELSE "unchecked",
                                   !.at = IF version > 0 THEN "record" ELSE "done",
                                   !.version = version]]
  /\ UNCHANGED <<row, cache, grant, acted, granted, rules, proof, lift, faulted>>

RecordAcceptance(c) ==
  /\ At(c, "record") /\ call' = [call EXCEPT ![c].at = "done"]
  /\ \/ proof' = [proof EXCEPT ![c] = call[c].version] /\ UNCHANGED faulted
     \/ UNCHANGED proof /\ Fault
  /\ UNCHANGED <<row, cache, grant, acted, granted, rules, lift>>

Next ==
  \/ Expire
  \/ \E c \in Call :
       \/ Update(c) \/ Publish(c) \/ Suspend(c) \/ Unsuspend(c) \/ ReorderPhotos(c)
       \/ Write(c) \/ Audit(c) \/ Delete(c) \/ InvalidateProperty(c)
       \/ Get(c) \/ Fill(c) \/ Crash(c) \/ Act(c) \/ Save(c) \/ RecordAcceptance(c)
       \/ \E p \in Photo : UploadPhoto(c, p) \/ RemovePhoto(c, p)
       \/ \E u \in Cohost :
            \/ Revoke(c, u) \/ Enter(c, u)
            \/ \E perms \in Permissions : Invite(c, u, perms) \/ SetPermissions(c, u, perms)
       \/ \E active \in {"rules", "nothing"} : Author(c, active)
       \/ \E version \in 0 .. MaxVersion : Book(c, version)

-----------------------------------------------------------------------------
\* What guests see, and who changed it, has an explanation.  A cached copy differs
\* from the row only while its writer is on the way to drop it, after a fault, or
\* when its reader overlapped a write (property_handler.go:91-98, 254-285).  A
\* suspension ends by name, or through a write that overlapped it.  A co-host that
\* acted was granted it once, and a proof of acceptance whose version was asked
\* for is the text of that version (houserules/service.go, booking_handler.go:135).
ListingIsExplained ==
  /\ cache # NoView /\ [status |-> cache.status, photos |-> cache.photos, rev |-> cache.rev] # row =>
       cache.late \/ faulted > 0 \/ \E c \in Call : call[c].at \in {"audit", "drop"}
  /\ lift \in {"none", "stale", "unsuspend", "publish"}
  /\ acted \subseteq granted
  /\ \A c \in Call : proof[c] # 0 /\ call[c].op = "checked" =>
       proof[c] \in DOMAIN rules /\ rules[proof[c]]
=============================================================================
