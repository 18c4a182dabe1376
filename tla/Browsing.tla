------------------------------- MODULE Browsing -------------------------------
(***************************************************************************)
(* What a visitor looks at: search over the published listings, the saved  *)
(* listings of one user, their wishlists and the links that share them.    *)
(*   application/favorite and search, domain/favorite,                     *)
(*   postgres/favorite_repository.go, property_repository.go:229-336       *)
(*                                                                         *)
(* Sharing loads the wishlist, makes a token and writes it; a page is one  *)
(* statement that counts and one that selects.                             *)
(***************************************************************************)
EXTENDS Naturals, FiniteSets

CONSTANTS Call, Listing, Collection,
          MaxToken   \* the last token of a behaviour

VARIABLES
  place,     \* the listing, and whether the dates asked for are taken
  saved,     \* favorites: not saved, in the bucket, or in a wishlist
  shelf,     \* wishlist_collections: the share token, if there is one
  made,      \* the last token drawn
  told,      \* history: links the owner was given, per wishlist
  withdrawn, \* history: links the owner took back, or whose wishlist they deleted
  excused,   \* history: links written or overwritten by a share that had been overtaken
  call

browsingVars == <<place, saved, shelf, made, told, withdrawn, excused, call>>

Absent == 0
Private == 1
Gone == [status |-> "gone", taken |-> FALSE]
Bucket == "bucket"
Idle == [op |-> "idle", k |-> "none", l |-> "none", token |-> Absent, total |-> 0, shown |-> {},
         old |-> FALSE]
Over == [Idle EXCEPT !.op = "over"]

Init ==
  /\ place = [l \in Listing |-> [status |-> "draft", taken |-> FALSE]]
  /\ saved = [l \in Listing |-> "no"]
  /\ shelf = [k \in Collection |-> Absent] /\ made = Private
  /\ told = [k \in Collection |-> {}] /\ withdrawn = {} /\ excused = {}
  /\ call = [c \in Call |-> Idle]

At(c, op) == call[c].op = op
Goes(c, rec) == call' = [call EXCEPT ![c] = rec]

\* Everybody between two statements about the wishlist now goes by what it was.
Overtake(k) ==
  call' = [c \in Call |-> IF call[c].k = k THEN [call[c] EXCEPT !.old = TRUE] ELSE call[c]]
\* The same of everybody between the count and the page.
Outdate == call' = [c \in Call |-> [call[c] EXCEPT !.old = @ \/ At(c, "select") \/ At(c, "page")]]

-----------------------------------------------------------------------------
(* Wishlists.                                                                *)

CreateCollection(k) ==
  /\ shelf[k] = Absent /\ told[k] = {} /\ shelf' = [shelf EXCEPT ![k] = Private]
  /\ UNCHANGED <<place, saved, made, told, withdrawn, excused, call>>

\* The favourites fall back into the bucket (ON DELETE SET NULL).
DeleteCollection(k) ==
  /\ shelf[k] # Absent /\ shelf' = [shelf EXCEPT ![k] = Absent]
  /\ saved' = [l \in Listing |-> IF saved[l] = k THEN Bucket ELSE saved[l]]
  /\ withdrawn' = withdrawn \cup ({shelf[k]} \ {Private}) /\ Overtake(k)
  /\ UNCHANGED <<place, made, told, excused>>

\* Share: the link the wishlist has, or a new one.
\* Fault: always a new one.
Share_Fresh(token) == made + 1
Share(token) == IF token = Private THEN made + 1 ELSE token

ShareCollection(c, k) ==
  /\ At(c, "idle") /\ shelf[k] # Absent /\ Share(shelf[k]) <= MaxToken
  /\ made' = IF Share(shelf[k]) > made THEN Share(shelf[k]) ELSE made
  /\ Goes(c, [Idle EXCEPT !.op = "share", !.k = k, !.token = Share(shelf[k])])
  /\ UNCHANGED <<place, saved, shelf, told, withdrawn, excused>>

\* The token is written whatever the row holds by now; a deleted row is not found.
SetCollectionShareToken(c) ==
  LET k == call[c].k
      t == call[c].token
      next == [call EXCEPT ![c] = Over]
  IN  /\ At(c, "share")
      /\ IF shelf[k] = Absent
         THEN Goes(c, Over) /\ UNCHANGED <<shelf, told, excused>>
         ELSE /\ shelf' = [shelf EXCEPT ![k] = t] /\ told' = [told EXCEPT ![k] = @ \cup {t}]
              /\ excused' = IF call[c].old THEN excused \cup {t, shelf[k]} ELSE excused
              /\ call' = IF shelf[k] = t THEN next
                         ELSE [d \in Call |-> IF next[d].k = k THEN [next[d] EXCEPT !.old = TRUE]
                                              ELSE next[d]]
      /\ UNCHANGED <<place, saved, made, withdrawn>>

UnshareCollection(k) ==
  /\ shelf[k] \notin {Absent, Private} /\ shelf' = [shelf EXCEPT ![k] = Private]
  /\ withdrawn' = withdrawn \cup {shelf[k]} /\ Overtake(k)
  /\ UNCHANGED <<place, saved, made, told, excused>>

\* Whoever has the link sees the wishlist: its listings in any state of publication.
GetSharedCollection(c, k) ==
  /\ At(c, "idle") /\ shelf[k] \notin {Absent, Private}
  /\ Goes(c, [Idle EXCEPT !.op = "page", !.k = k, !.token = shelf[k],
                          !.total = Cardinality({l \in Listing : saved[l] = k})])
  /\ UNCHANGED <<place, saved, shelf, made, told, withdrawn, excused>>

-----------------------------------------------------------------------------
(* Favourites.                                                               *)

\* Add and Move: the wishlist is looked up, then the row is written.
EnsureOwnedCollection(c, l, k) ==
  /\ At(c, "idle") /\ shelf[k] # Absent /\ \E op \in {"add", "move"} :
       Goes(c, [Idle EXCEPT !.op = op, !.k = k, !.l = l])
  /\ UNCHANGED <<place, saved, shelf, made, told, withdrawn, excused>>

\* A foreign key refuses a listing or a wishlist that is gone by now.
Referenced(c) == place[call[c].l].status # "gone" /\ shelf[call[c].k] # Absent

\* Saving again files the listing elsewhere.
Add(c) ==
  /\ At(c, "add")
  /\ IF Referenced(c) THEN saved' = [saved EXCEPT ![call[c].l] = call[c].k] ELSE UNCHANGED saved
  /\ call' = [d \in Call |-> IF d = c THEN Over
                             ELSE [call[d] EXCEPT !.old = @ \/ At(d, "page")]]
  /\ UNCHANGED <<place, shelf, made, told, withdrawn, excused>>

\* Only what is saved can be moved.
Move(c) ==
  /\ At(c, "move")
  /\ IF Referenced(c) /\ saved[call[c].l] # "no"
     THEN saved' = [saved EXCEPT ![call[c].l] = call[c].k] ELSE UNCHANGED saved
  /\ call' = [d \in Call |-> IF d = c THEN Over
                             ELSE [call[d] EXCEPT !.old = @ \/ At(d, "page")]]
  /\ UNCHANGED <<place, shelf, made, told, withdrawn, excused>>

Remove(l) ==
  /\ saved[l] # "no" /\ saved' = [saved EXCEPT ![l] = "no"] /\ Outdate
  /\ UNCHANGED <<place, shelf, made, told, withdrawn, excused>>

\* Every favourite, counted and then listed.
List(c) ==
  /\ At(c, "idle")
  /\ Goes(c, [Idle EXCEPT !.op = "page", !.total = Cardinality({l \in Listing : saved[l] # "no"})])
  /\ UNCHANGED <<place, saved, shelf, made, told, withdrawn, excused>>

\* The ids of the page and then the listings; one that is gone is left out.
ListPropertyIDs(c) ==
  LET k == call[c].k
      ids == {l \in Listing : IF k = "none" THEN saved[l] # "no" ELSE saved[l] = k}
  IN  /\ At(c, "page")
      /\ Goes(c, [call[c] EXCEPT !.op = "answered",
                    !.shown = {l \in ids : place[l].status # "gone"}])
      /\ UNCHANGED <<place, saved, shelf, made, told, withdrawn, excused>>

-----------------------------------------------------------------------------
(* Search.                                                                   *)

\* Published, and neither booked nor blocked on the dates.
Matches(l) == place[l].status = "published" /\ ~place[l].taken

Search(c) ==
  /\ At(c, "idle")
  /\ Goes(c, [Idle EXCEPT !.op = "select", !.total = Cardinality({l \in Listing : Matches(l)})])
  /\ UNCHANGED <<place, saved, shelf, made, told, withdrawn, excused>>

Select(c) ==
  /\ At(c, "select")
  /\ Goes(c, [call[c] EXCEPT !.op = "answered", !.shown = {l \in Listing : Matches(l)}])
  /\ UNCHANGED <<place, saved, shelf, made, told, withdrawn, excused>>

\* The host publishes, an administrator takes the listing off, guests take the dates.
ChangeListing(l, status, taken) ==
  /\ place[l].status # "gone" /\ place[l] # [status |-> status, taken |-> taken]
  /\ place' = [place EXCEPT ![l] = [status |-> status, taken |-> taken]]
  /\ Outdate
  /\ UNCHANGED <<saved, shelf, made, told, withdrawn, excused>>

\* The favourites go with the listing (ON DELETE CASCADE).
DeleteListing(l) ==
  /\ place[l].status # "gone" /\ place' = [place EXCEPT ![l] = Gone]
  /\ saved' = [saved EXCEPT ![l] = "no"] /\ Outdate
  /\ UNCHANGED <<shelf, made, told, withdrawn, excused>>

Next ==
  \/ \E k \in Collection : CreateCollection(k) \/ DeleteCollection(k) \/ UnshareCollection(k)
  \/ \E l \in Listing :
       \/ Remove(l) \/ DeleteListing(l)
       \/ \E s \in {"published", "suspended"}, t \in BOOLEAN : ChangeListing(l, s, t)
  \/ \E c \in Call :
       \/ SetCollectionShareToken(c) \/ Add(c) \/ Move(c) \/ List(c) \/ ListPropertyIDs(c)
       \/ Search(c) \/ Select(c)
       \/ \E k \in Collection :
            \/ ShareCollection(c, k) \/ GetSharedCollection(c, k)
            \/ \E l \in Listing : EnsureOwnedCollection(c, l, k)

-----------------------------------------------------------------------------
\* A link that works was not taken back, and every link the owner was given works
\* until they take it back, unless a share wrote what it had read before another share
\* or a withdrawal (favorite/service.go:131-146, load and write without a lock).
LinksAreExplained ==
  \A k \in Collection :
    /\ shelf[k] \in withdrawn => shelf[k] \in excused
    /\ told[k] \subseteq {shelf[k]} \cup withdrawn \cup excused

\* What is saved names a wishlist that exists (migration 0026), and the total of an
\* answer is what it shows unless something changed between its two statements
\* (favorite_repository.go:61-100, property_repository.go:306-318).
AnswersAddUp ==
  /\ \A l \in Listing : saved[l] \in Collection => shelf[saved[l]] # Absent
  /\ \A c \in Call : At(c, "answered") /\ ~call[c].old =>
       call[c].total = Cardinality(call[c].shown)

\* Share links and answers are what the last writes made them (LinksAreExplained,
\* AnswersAddUp): a withdrawn link stays dead and a link that was handed out works, unless
\* two calls overlapped between load and write (favorite/service.go:131-146); a page and
\* its total agree unless a write came between their statements.
BrowsingIsExplained == LinksAreExplained /\ AnswersAddUp
=============================================================================
