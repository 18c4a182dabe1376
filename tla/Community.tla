----------------------------- MODULE Community -----------------------------
(***************************************************************************)
(* The components around people, homes and what they tell each other, side  *)
(* by side, in the way of Trade.                                             *)
(***************************************************************************)

CONSTANTS
  Call, Worker, Sale, Key, MaxFaults,                            \* of most parts
  Photo, Cohost, MaxVersion,                                     \* Listings
  Stay, Home, Place, Rating, MinReviews,                         \* Reviews
  EventKinds, Device, Online, Buffer,                            \* Notifications
  MaxTime, MaxEvents, MaxRows,                                   \* Sweeps, Accounts, Moderation
  Person, Admitted                                               \* Erasure

VARIABLES
  task, faulted, call, completed, announced, told, stay, late, listing, row,
  clock, excused, cache, grant, acted, granted, rules, proof, lift, reviews,
  locked, rating, badge, stale, aged, conv, messages, blocks, team, template,
  shown, marked, reverted, event, opted, rows, mails, owner, screen, moved,
  page, notices, letters, place, search, alerts, passed, overlap, provider,
  sent, decision, cascade, odd, links, trail, guest, score, crowded, contested,
  data, active, erasure, request

-----------------------------------------------------------------------------
Places == INSTANCE Listings
Ratings == INSTANCE Reviews WITH Call <- Worker, Booking <- Stay, Listing <- Home
Threads == INSTANCE Messaging
Inboxes == INSTANCE Notifications WITH Kinds <- EventKinds
Sweep == INSTANCE Sweeps WITH Replica <- Worker, Booking <- Sale, Listing <- Home
People == INSTANCE Accounts
Desk == INSTANCE Moderation
Erasures == INSTANCE Erasure WITH User <- Person, Request <- Admitted
=============================================================================
