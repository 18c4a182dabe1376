---------------------------- MODULE PlatformProofs ---------------------------
(***************************************************************************)
(* What the parts of Platform promise, for any number of calls, rows and   *)
(* faults.  PayoutProofs, TradeProofs and CommunityProofs bring the        *)
(* invariants; here they become theorems of the composition.               *)
(***************************************************************************)
EXTENDS Platform, TLAPS

\* A behaviour stays with its part.
LEMMA PartStays == [Next]_platformVars => part' = part
BY DEF Next, platformVars

-----------------------------------------------------------------------------
(* Payouts. *)

PayoutsInv == part = "payouts" => Trading!Payouts!CreditInv /\ Trading!Payouts!ReserveInv

LEMMA PayoutsAlways == Spec => []PayoutsInv
<1>1. Init => PayoutsInv
  BY PlatformAssumption, Trading!Payouts!CreditInit, Trading!Payouts!ReserveInit DEF Init, PayoutsInv
<1>2. PayoutsInv /\ [Next]_platformVars => PayoutsInv'
  <2> SUFFICES ASSUME PayoutsInv, [Next]_platformVars, part' = "payouts" PROVE PayoutsInv'
    BY DEF PayoutsInv
  <2>1. part = "payouts"
    BY PartStays
  <2>2. [Trading!Payouts!Next]_(Trading!Payouts!payoutVars)
    BY <2>1 DEF Next, platformVars, Trading!Payouts!payoutVars, Trading!Payouts!records
  <2>3. Trading!Payouts!CreditInv' /\ Trading!Payouts!ReserveInv'
    BY <2>1, <2>2, PlatformAssumption, Trading!Payouts!CreditStep, Trading!Payouts!ReserveStep DEF PayoutsInv
  <2> QED BY <2>3 DEF PayoutsInv
<1> QED BY <1>1, <1>2, PTL DEF Spec

\* The host of a booking is credited at most what the booking owes, in whatever
\* order and however often its events are delivered (Service.EventHandler).
THEOREM HostCreditedOnce == Spec => []CreditedOnce
<1>1. PayoutsInv => CreditedOnce
  BY Trading!Payouts!CreditMeans DEF PayoutsInv, CreditedOnce
<1> QED BY <1>1, PayoutsAlways, PTL

\* Disbursements that are pending or paid never add up to more than the host has
\* earned, and what is recorded as paid did leave, while requests, refunds,
\* failures and crashes interleave in one process (Service.reserveDisbursement).
THEOREM HostCommittedIsEarned == Spec => []CommittedIsEarned
<1>1. PayoutsInv => CommittedIsEarned
  BY Trading!Payouts!ReserveMeans DEF PayoutsInv, CommittedIsEarned
<1> QED BY <1>1, PayoutsAlways, PTL

-----------------------------------------------------------------------------
(* Split payments. *)

SplitsInv == part = "splits" => Trading!SplitInv

LEMMA SplitsAlways == Spec => []SplitsInv
<1>1. Init => SplitsInv
  BY Trading!SplitInit DEF Init, SplitsInv
<1>2. SplitsInv /\ [Next]_platformVars => SplitsInv'
  <2> SUFFICES ASSUME SplitsInv, [Next]_platformVars, part' = "splits" PROVE SplitsInv'
    BY DEF SplitsInv
  <2>1. part = "splits"
    BY PartStays
  <2>2. [Trading!Splits!Next]_(Trading!Splits!splitVars)
    BY <2>1 DEF Next, platformVars, Trading!Splits!splitVars
  <2>3. Trading!SplitInv'
    BY <2>1, <2>2, Trading!SplitStep DEF SplitsInv
  <2> QED BY <2>3 DEF SplitsInv
<1> QED BY <1>1, <1>2, PTL DEF Spec

\* However payers, retries and deliveries overtake each other, the event that
\* confirms the booking is recorded only once every share had a hold
\* (Service.AuthorizeShare).
THEOREM SplitCompletionFunded == Spec => []CompletionIsFunded
<1>1. SplitsInv => CompletionIsFunded
  BY DEF SplitsInv, CompletionIsFunded, Trading!SplitInv, Trading!Splits!CompletionIsFunded
<1> QED BY <1>1, SplitsAlways, PTL

\* A share that the table calls refunded has its hold released, and a paid one had
\* a hold (Service.refundPaidShares, refundBookingShares).
THEOREM SplitRefundsReleased == Spec => []RefundedIsReleased
<1>1. SplitsInv => RefundedIsReleased
  BY DEF SplitsInv, RefundedIsReleased, Trading!SplitInv, Trading!Funded, Trading!Splits!RefundedIsReleased
<1> QED BY <1>1, SplitsAlways, PTL

-----------------------------------------------------------------------------
(* Idempotency keys. *)

KeysInv == part = "idempotency" => Trading!KeysInv

LEMMA KeysAlways == Spec => []KeysInv
<1>1. Init => KeysInv
  BY Trading!KeysInit DEF Init, KeysInv
<1>2. KeysInv /\ [Next]_platformVars => KeysInv'
  <2> SUFFICES ASSUME KeysInv, [Next]_platformVars, part' = "idempotency" PROVE KeysInv'
    BY DEF KeysInv
  <2>1. part = "idempotency"
    BY PartStays
  <2>2. [Trading!Keys!Next]_(Trading!Keys!idempotencyVars)
    BY <2>1 DEF Next, platformVars, Trading!Keys!idempotencyVars
  <2>3. Trading!KeysInv'
    BY <2>1, <2>2, Trading!KeysStep DEF KeysInv
  <2> QED BY <2>3 DEF KeysInv
<1> QED BY <1>1, <1>2, PTL DEF Spec

\* A request repeated under its key takes effect once and is told what the first was
\* told, unless requests under the key ran together, the storage or the server failed,
\* or the day was over (middleware.Idempotency).
THEOREM KeyActsOnce == Spec => []ActedOncePerKey
<1>1. KeysInv => ActedOncePerKey
  BY Trading!KeysMeans DEF KeysInv, ActedOncePerKey
<1> QED BY <1>1, KeysAlways, PTL

-----------------------------------------------------------------------------
(* Offers. *)

OfferInv == part = "offers" => Trading!OfferInv

LEMMA OfferAlways == Spec => []OfferInv
<1>1. Init => OfferInv
  BY PlatformAssumption, Trading!OfferInit DEF Init, OfferInv
<1>2. OfferInv /\ [Next]_platformVars => OfferInv'
  <2> SUFFICES ASSUME OfferInv, [Next]_platformVars, part' = "offers" PROVE OfferInv'
    BY DEF OfferInv
  <2>1. part = "offers"
    BY PartStays
  <2>2. [Trading!Offer!Next]_(Trading!Offer!offerVars)
    BY <2>1 DEF Next, platformVars, Trading!Offer!offerVars
  <2>3. Trading!OfferInv'
    BY <2>1, <2>2, PlatformAssumption, Trading!OfferStep DEF OfferInv
  <2> QED BY <2>3 DEF OfferInv
<1> QED BY <1>1, <1>2, PTL DEF Spec

\* Every offer is as its stay, a failure or an overlapping call left it, while the
\* host, the guest, a rival and the expiry act on it (offer.Service.Accept, TurnDown).
THEOREM OffersExplained == Spec => []OffersAreExplained
<1>1. OfferInv => OffersAreExplained
  BY PlatformAssumption, Trading!OfferMeans DEF OfferInv, OffersAreExplained
<1> QED BY <1>1, OfferAlways, PTL

-----------------------------------------------------------------------------
(* Experience bookings. *)

SessionsInv == part = "experiences" => Trading!SessionsInv

LEMMA SessionsAlways == Spec => []SessionsInv
<1>1. Init => SessionsInv
  BY PlatformAssumption, Trading!SessionsInit DEF Init, SessionsInv
<1>2. SessionsInv /\ [Next]_platformVars => SessionsInv'
  <2> SUFFICES ASSUME SessionsInv, [Next]_platformVars, part' = "experiences" PROVE SessionsInv'
    BY DEF SessionsInv
  <2>1. part = "experiences"
    BY PartStays
  <2>2. [Trading!Sessions!Next]_(Trading!Sessions!experienceVars)
    BY <2>1 DEF Next, platformVars, Trading!Sessions!experienceVars
  <2>3. Trading!SessionsInv'
    BY <2>1, <2>2, PlatformAssumption, Trading!SessionsStep DEF SessionsInv
  <2> QED BY <2>3 DEF SessionsInv
<1> QED BY <1>1, <1>2, PTL DEF Spec

\* A session has one holder, except after a race or a stale write, and is completed
\* only once it was confirmed and is over (experiencebooking.Service).
THEOREM SessionsExplained == Spec => []SessionsAreExplained
<1>1. SessionsInv => SessionsAreExplained
  BY PlatformAssumption, Trading!SessionsMeans DEF SessionsInv, SessionsAreExplained
<1> QED BY <1>1, SessionsAlways, PTL

-----------------------------------------------------------------------------
(* Sweeps. *)

SweepsInv == part = "sweeps" => Common!SweepsInv

LEMMA SweepsAlways == Spec => []SweepsInv
<1>1. Init => SweepsInv
  BY PlatformAssumption, Common!SweepsInit DEF Init, SweepsInv
<1>2. SweepsInv /\ [Next]_platformVars => SweepsInv'
  <2> SUFFICES ASSUME SweepsInv, [Next]_platformVars, part' = "sweeps" PROVE SweepsInv'
    BY DEF SweepsInv
  <2>1. part = "sweeps"
    BY PartStays
  <2>2. [Common!Sweep!Next]_(Common!Sweep!sweepVars)
    BY <2>1 DEF Next, platformVars, Common!Sweep!sweepVars
  <2>3. Common!SweepsInv'
    BY <2>1, <2>2, PlatformAssumption, Common!SweepsStep DEF SweepsInv
  <2> QED BY <2>3 DEF SweepsInv
<1> QED BY <1>1, <1>2, PTL DEF Spec

\* Arrival notices, their mails and the alerts of saved searches come once, unless
\* replicas swept together or a statement failed (arrival.Service, savedsearch.Service).
THEOREM SweepsExplained == Spec => []SweepsAreExplained
<1>1. SweepsInv => SweepsAreExplained
  BY PlatformAssumption, Common!SweepsMeans DEF SweepsInv, SweepsAreExplained
<1> QED BY <1>1, SweepsAlways, PTL

-----------------------------------------------------------------------------
(* Privacy. *)

ErasureInv == part = "erasure" => Common!ErasureInv

LEMMA ErasureAlways == Spec => []ErasureInv
<1>1. Init => ErasureInv
  BY Common!ErasureInit DEF Init, ErasureInv
<1>2. ErasureInv /\ [Next]_platformVars => ErasureInv'
  <2> SUFFICES ASSUME ErasureInv, [Next]_platformVars, part' = "erasure" PROVE ErasureInv'
    BY DEF ErasureInv
  <2>1. part = "erasure"
    BY PartStays
  <2>2. [Common!Erasures!Next]_(Common!Erasures!erasureVars)
    BY <2>1 DEF Next, platformVars, Common!Erasures!erasureVars
  <2>3. Common!ErasureInv'
    BY <2>1, <2>2, Common!ErasureStep DEF ErasureInv
  <2> QED BY <2>3 DEF ErasureInv
<1> QED BY <1>1, <1>2, PTL DEF Spec

\* A swept table holds nothing of an erased user unless its step failed or a request
\* admitted before wrote later, and a step fails for an error or on the unique payer of a
\* split (privacy.Service.Erase).
THEOREM ErasureExplained == Spec => []ErasureIsExplained
<1>1. ErasureInv => ErasureIsExplained
  BY Common!ErasureMeans DEF ErasureInv, ErasureIsExplained
<1> QED BY <1>1, ErasureAlways, PTL

-----------------------------------------------------------------------------
(* Payment providers. *)

GatewaysInv == part = "gateways" => Trading!GatewaysInv

LEMMA GatewaysAlways == Spec => []GatewaysInv
<1>1. Init => GatewaysInv
  BY PlatformAssumption, Trading!GatewaysInit DEF Init, GatewaysInv
<1>2. GatewaysInv /\ [Next]_platformVars => GatewaysInv'
  <2> SUFFICES ASSUME GatewaysInv, [Next]_platformVars, part' = "gateways" PROVE GatewaysInv'
    BY DEF GatewaysInv
  <2>1. part = "gateways"
    BY PartStays
  <2>2. [Trading!Providers!Next]_(Trading!Providers!gatewayVars)
    BY <2>1 DEF Next, platformVars, Trading!Providers!gatewayVars
  <2>3. Trading!GatewaysInv'
    BY <2>1, <2>2, PlatformAssumption, Trading!GatewaysStep DEF GatewaysInv
  <2> QED BY <2>3 DEF GatewaysInv
<1> QED BY <1>1, <1>2, PTL DEF Spec

\* Whatever the providers and settings, the reference of a payment leads to its money
\* and a webhook of that money leads back, but for a lost answer, two deliveries at once,
\* changed settings or a webhook before the row (RoutingGateway.Authorize, resolve).
THEOREM GatewaysExplained == Spec => []GatewaysAreExplained
<1>1. GatewaysInv => GatewaysAreExplained
  BY PlatformAssumption, Trading!GatewaysMeans DEF GatewaysInv, GatewaysAreExplained
<1> QED BY <1>1, GatewaysAlways, PTL

-----------------------------------------------------------------------------
(* Reviews. *)

ReviewsInv == part = "reviews" => Common!ReviewsInv

LEMMA ReviewsAlways == Spec => []ReviewsInv
<1>1. Init => ReviewsInv
  BY PlatformAssumption, Common!ReviewsInit DEF Init, ReviewsInv
<1>2. ReviewsInv /\ [Next]_platformVars => ReviewsInv'
  <2> SUFFICES ASSUME ReviewsInv, [Next]_platformVars, part' = "reviews" PROVE ReviewsInv'
    BY DEF ReviewsInv
  <2>1. part = "reviews"
    BY PartStays
  <2>2. [Common!Ratings!Next]_(Common!Ratings!reviewVars)
    BY <2>1 DEF Next, platformVars, Common!Ratings!reviewVars
  <2>3. Common!ReviewsInv'
    BY <2>1, <2>2, PlatformAssumption, Common!ReviewsStep DEF ReviewsInv
  <2> QED BY <2>3 DEF ReviewsInv
<1> QED BY <1>1, <1>2, PTL DEF Spec

\* A rating that is not the one of the reviews, or a badge that the ratings do not earn,
\* has a refresh on the way, a statement that failed, a summary that was old when it was
\* stored, or an edit written over (review.Service.refreshPropertyRating).
THEOREM RatingExplained == Spec => []RatingIsExplained
<1>1. ReviewsInv => RatingIsExplained
  BY PlatformAssumption, Common!ReviewsMeans DEF ReviewsInv, RatingIsExplained
<1> QED BY <1>1, ReviewsAlways, PTL

-----------------------------------------------------------------------------
(* Share links and search. *)

BrowsingInv == part = "browsing" => Trading!BrowsingInv

LEMMA BrowsingAlways == Spec => []BrowsingInv
<1>1. Init => BrowsingInv
  BY PlatformAssumption, Trading!BrowsingInit DEF Init, BrowsingInv
<1>2. BrowsingInv /\ [Next]_platformVars => BrowsingInv'
  <2> SUFFICES ASSUME BrowsingInv, [Next]_platformVars, part' = "browsing" PROVE BrowsingInv'
    BY DEF BrowsingInv
  <2>1. part = "browsing"
    BY PartStays
  <2>2. [Trading!Visits!Next]_(Trading!Visits!browsingVars)
    BY <2>1 DEF Next, platformVars, Trading!Visits!browsingVars
  <2>3. Trading!BrowsingInv'
    BY <2>1, <2>2, PlatformAssumption, Trading!BrowsingStep DEF BrowsingInv
  <2> QED BY <2>3 DEF BrowsingInv
<1> QED BY <1>1, <1>2, PTL DEF Spec

\* A withdrawn link stays dead and a link that was handed out works, unless two calls
\* overlapped, and a page or an answer says a total that its rows add up to, unless a write
\* came between its statements (favorite.Service.ShareCollection, application/property).
THEOREM BrowsingExplained == Spec => []BrowsingIsExplained
<1>1. BrowsingInv => BrowsingIsExplained
  BY PlatformAssumption, Trading!BrowsingMeans DEF BrowsingInv, BrowsingIsExplained
<1> QED BY <1>1, BrowsingAlways, PTL

-----------------------------------------------------------------------------
(* Accounts. *)

AccountInv == part = "accounts" => Common!AccountInv

LEMMA AccountAlways == Spec => []AccountInv
<1>1. Init => AccountInv
  BY Common!AccountInit DEF Init, AccountInv
<1>2. AccountInv /\ [Next]_platformVars => AccountInv'
  <2> SUFFICES ASSUME AccountInv, [Next]_platformVars, part' = "accounts" PROVE AccountInv'
    BY DEF AccountInv
  <2>1. part = "accounts"
    BY PartStays
  <2>2. [Common!People!Next]_(Common!People!accountVars)
    BY <2>1 DEF Next, platformVars, Common!People!accountVars
  <2>3. Common!AccountInv'
    BY <2>1, <2>2, Common!AccountStep DEF AccountInv
  <2> QED BY <2>3 DEF AccountInv
<1> QED BY <1>1, <1>2, PTL DEF Spec

\* A suspended or erased account is inactive, what a cascade met is suspended and
\* cancelled, and the payout flag is the provider's, unless an old copy of the row was
\* written or an event overtook another (user.Service.Suspend, connect_webhook_handler.go).
THEOREM AccountExplained == Spec => []AccountIsExplained
<1>1. AccountInv => AccountIsExplained
  BY Common!AccountMeans DEF AccountInv, AccountIsExplained
<1> QED BY <1>1, AccountAlways, PTL

-----------------------------------------------------------------------------
(* Moderation. *)

DeskInv == part = "moderation" => Common!DeskInv

LEMMA DeskAlways == Spec => []DeskInv
<1>1. Init => DeskInv
  BY Common!DeskInit DEF Init, DeskInv
<1>2. DeskInv /\ [Next]_platformVars => DeskInv'
  <2> SUFFICES ASSUME DeskInv, [Next]_platformVars, part' = "moderation" PROVE DeskInv'
    BY DEF DeskInv
  <2>1. part = "moderation"
    BY PartStays
  <2>2. [Common!Desk!Next]_(Common!Desk!moderationVars)
    BY <2>1 DEF Next, platformVars, Common!Desk!moderationVars
  <2>3. Common!DeskInv'
    BY <2>1, <2>2, Common!DeskStep DEF DeskInv
  <2> QED BY <2>3 DEF DeskInv
<1> QED BY <1>1, <1>2, PTL DEF Spec

\* One request of a kind waits, who was told to be verified is, and the trail has one
\* verdict that is the table's, unless two calls passed a look-up together or a statement
\* failed (identity.Service, report.Service, user_handler.go).
THEOREM ModerationExplained == Spec => []ModerationIsExplained
<1>1. DeskInv => ModerationIsExplained
  BY Common!DeskMeans DEF DeskInv, ModerationIsExplained
<1> QED BY <1>1, DeskAlways, PTL

-----------------------------------------------------------------------------
(* Messages. *)

ThreadInv == part = "messages" => Common!ThreadInv

LEMMA ThreadAlways == Spec => []ThreadInv
<1>1. Init => ThreadInv
  BY Common!ThreadInit DEF Init, ThreadInv
<1>2. ThreadInv /\ [Next]_platformVars => ThreadInv'
  <2> SUFFICES ASSUME ThreadInv, [Next]_platformVars, part' = "messages" PROVE ThreadInv'
    BY DEF ThreadInv
  <2>1. part = "messages"
    BY PartStays
  <2>2. [Common!Threads!Next]_(Common!Threads!messagingVars)
    BY <2>1 DEF Next, platformVars, Common!Threads!messagingVars
  <2>3. Common!ThreadInv'
    BY <2>1, <2>2, Common!ThreadStep DEF ThreadInv
  <2> QED BY <2>3 DEF ThreadInv
<1> QED BY <1>1, <1>2, PTL DEF Spec

\* A message counts as unread until a mark of its reader covers it, and as read after,
\* unless it was written late, a mark is on its way or failed, or an old copy of the thread
\* moved a marker back (message_repository.go, MarkRead).
THEOREM UnreadExplained == Spec => []UnreadIsExplained
<1>1. ThreadInv => UnreadIsExplained
  BY Common!ThreadMeans DEF ThreadInv, UnreadIsExplained
<1> QED BY <1>1, ThreadAlways, PTL

-----------------------------------------------------------------------------
(* Notifications. *)

InboxInv == part = "notifications" => Common!InboxInv

LEMMA InboxAlways == Spec => []InboxInv
<1>1. Init => InboxInv
  BY PlatformAssumption, Common!InboxInit DEF Init, InboxInv
<1>2. InboxInv /\ [Next]_platformVars => InboxInv'
  <2> SUFFICES ASSUME InboxInv, [Next]_platformVars, part' = "notifications" PROVE InboxInv'
    BY DEF InboxInv
  <2>1. part = "notifications"
    BY PartStays
  <2>2. [Common!Inboxes!Next]_(Common!Inboxes!notificationVars)
    BY <2>1 DEF Next, platformVars, Common!Inboxes!notificationVars
  <2>3. Common!InboxInv'
    BY <2>1, <2>2, PlatformAssumption, Common!InboxStep DEF InboxInv
  <2> QED BY <2>3 DEF InboxInv
<1> QED BY <1>1, <1>2, PTL DEF Spec

\* An open page with nothing buffered shows all rows of its user, each delivery makes a
\* row for everyone it is for, and a push goes to its user's device, unless a buffer was full,
\* something failed or the device changed hands (application/notification, realtime).
THEOREM InboxExplained == Spec => []InboxIsExplained
<1>1. InboxInv => InboxIsExplained
  BY PlatformAssumption, Common!InboxMeans DEF InboxInv, InboxIsExplained
<1> QED BY <1>1, InboxAlways, PTL

-----------------------------------------------------------------------------
(* Listings. *)

PlaceInv == part = "listings" => Common!PlaceInv

LEMMA PlaceAlways == Spec => []PlaceInv
<1>1. Init => PlaceInv
  BY Common!PlaceInit DEF Init, PlaceInv
<1>2. PlaceInv /\ [Next]_platformVars => PlaceInv'
  <2> SUFFICES ASSUME PlaceInv, [Next]_platformVars, part' = "listings" PROVE PlaceInv'
    BY DEF PlaceInv
  <2>1. part = "listings"
    BY PartStays
  <2>2. [Common!Places!Next]_(Common!Places!listingVars)
    BY <2>1 DEF Next, platformVars, Common!Places!listingVars
  <2>3. Common!PlaceInv'
    BY <2>1, <2>2, Common!PlaceStep DEF PlaceInv
  <2> QED BY <2>3 DEF PlaceInv
<1> QED BY <1>1, <1>2, PTL DEF Spec

\* A cached copy is the row's unless its writer is about to drop it, a reader overlapped a
\* write or something failed; a suspension ends by name; a co-host was let in and an
\* acceptance is of a version's text (property_handler.go, cohost, houserules.Service).
THEOREM ListingExplained == Spec => []ListingIsExplained
<1>1. PlaceInv => ListingIsExplained
  BY Common!PlaceMeans DEF PlaceInv, ListingIsExplained
<1> QED BY <1>1, PlaceAlways, PTL

-----------------------------------------------------------------------------
(* Settlement. *)

PriceInv == part = "settlement" => Trading!PriceInv

LEMMA PriceAlways == Spec => []PriceInv
<1>1. Init => PriceInv
  BY PlatformAssumption, Trading!PriceInit DEF Init, PriceInv
<1>2. PriceInv /\ [Next]_platformVars => PriceInv'
  <2> SUFFICES ASSUME PriceInv, [Next]_platformVars, part' = "settlement" PROVE PriceInv'
    BY DEF PriceInv
  <2>1. part = "settlement"
    BY PartStays
  <2>2. [Trading!Prices!Next]_(Trading!Prices!settlementVars)
    BY <2>1 DEF Next, platformVars, Trading!Prices!settlementVars
  <2>3. Trading!PriceInv'
    BY <2>1, <2>2, PlatformAssumption, Trading!PriceStep DEF PriceInv
  <2> QED BY <2>3 DEF PriceInv
<1> QED BY <1>1, <1>2, PTL DEF Spec

\* What a guest is charged is what the quote said, is what host and platform get, and has
\* the tax and the deposit in it, for any prices, rules, lengths and deposits, until the stay
\* is modified (booking.Service.Create, Quote, payout.Service).
THEOREM StayAddsUp == Spec => []UnmodifiedAddsUp
<1>1. PriceInv => UnmodifiedAddsUp
  BY PlatformAssumption, Trading!PriceMeans DEF PriceInv, UnmodifiedAddsUp
<1> QED BY <1>1, PriceAlways, PTL

-----------------------------------------------------------------------------
(* Stores. *)

StoreInv == part = "stores" => Trading!StoreInv

LEMMA StoreAlways == Spec => []StoreInv
<1>1. Init => StoreInv
  BY PlatformAssumption, Trading!StoreInit DEF Init, StoreInv
<1>2. StoreInv /\ [Next]_platformVars => StoreInv'
  <2> SUFFICES ASSUME StoreInv, [Next]_platformVars, part' = "stores" PROVE StoreInv'
    BY DEF StoreInv
  <2>1. part = "stores"
    BY PartStays
  <2>2. [Trading!Twin!Next]_(Trading!Twin!storesVars)
    BY <2>1 DEF Next, platformVars, Trading!Twin!storesVars
  <2>3. Trading!StoreInv'
    BY <2>1, <2>2, PlatformAssumption, Trading!StoreStep DEF StoreInv
  <2> QED BY <2>3 DEF StoreInv
<1> QED BY <1>1, <1>2, PTL DEF Spec

\* In each of the tables the repositories in memory and in Postgres hold the same rows and
\* give the same answers until one of the listed gaps is met (persistence/memory, postgres).
THEOREM StoresAreAlike == Spec => []StoresAgree
<1>1. StoreInv => StoresAgree
  BY PlatformAssumption, Trading!StoreMeans DEF StoreInv, StoresAgree
<1> QED BY <1>1, StoreAlways, PTL
=============================================================================
