----------------------------- MODULE Trade -----------------------------
(***************************************************************************)
(* The components that sell nights and sessions and move the money for     *)
(* them, what a visitor looks at before, and the stores that keep it all,  *)
(* side by side.  Constants and variables go by the names they have in     *)
(* their modules; where two modules use the same name for a variable, so   *)
(* does this one, for nothing here is about two of them.                   *)
(***************************************************************************)

CONSTANTS
  Call, Worker, MaxFaults,                                       \* of most parts
  Sale, SaleTotal, Fee, Shares, Disbursement, Process, MaxDeliveries, \* Payout
  Payer, Organizer, Amounts, Price, MaxRefusals,                 \* SplitPayment
  Rival,                                                         \* Offers
  Editor, StartTimes, Durations, LastTime, BatchLimit,           \* Experiences
  Key, Body,                                                     \* Idempotency
  Season, City, TaxRule, Deposits, Nights, Guests, Coupons,      \* Settlement
  Stay, Local, Setting, MaxHolds,                                \* Gateways
  Wish, Collection, MaxToken,                                    \* Browsing
  Ident, Owner                                                   \* Stores

VARIABLES
  stage, delivered, ledger, payout, rail, ready, mutex, task, faulted, plan,
  held, call, completed, announced, cancelled, refused, offer, told, stay,
  everBooked, late, payable, ended, listing, edit, row, clock, raced, revived,
  stored, effect, excused, taxes, season, quote, charged, deal, credit, sent,
  setting, rerouted, holds, payment, seen, found, doubled,
  place, saved, shelf, made, withdrawn, table, memory, durable, parent, used,
  copy, total, answer

-----------------------------------------------------------------------------
Payouts == INSTANCE PayoutProofs WITH Booking <- Sale, Total <- SaleTotal, Request <- Disbursement
Splits == INSTANCE SplitPayment WITH Share <- Payer, Attempt <- Call
Offer == INSTANCE Offers
Sessions == INSTANCE Experiences WITH Starts <- StartTimes, Lengths <- Durations
Keys == INSTANCE Idempotency WITH Attempt <- Call, Request <- Body
Prices == INSTANCE Settlement WITH Lengths <- Nights
Visits == INSTANCE Browsing WITH Listing <- Wish
Twin == INSTANCE Stores WITH Row <- Ident
Providers == INSTANCE Gateways WITH Call <- Worker, Booking <- Stay
=============================================================================
