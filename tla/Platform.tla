------------------------------ MODULE Platform ------------------------------
(***************************************************************************)
(* The components around bookings and payments, composed.  They share no   *)
(* state with each other in their modules, so a behaviour picks one of     *)
(* them and stays with it; the variables are shared to keep the states     *)
(* small.  Each part stops where its own bounds stop it.                   *)
(***************************************************************************)

CONSTANTS
  Call, Worker, MaxFaults,                                       \* of most parts
  Sale, SaleTotal, Fee, Shares, Disbursement, Process, MaxDeliveries,  \* Payout
  Payer, Organizer, Amounts, Price, MaxRefusals,                 \* SplitPayment
  Rival,                                                         \* Offers
  Editor, StartTimes, Durations, LastTime, BatchLimit,           \* Experiences
  Key, Body,                                                     \* Idempotency
  Season, City, TaxRule, Deposits, Nights, Guests, Coupons,      \* Settlement
  Photo, Cohost, MaxVersion,                                     \* Listings
  Stay, Home, Place, Rating, MinReviews,                         \* Reviews, Gateways
  EventKinds, Device, Online, Buffer,                            \* Notifications
  MaxTime, MaxEvents, MaxRows,                                   \* Sweeps, Accounts, Moderation
  Person, Admitted,                                              \* Erasure
  Wish, Collection, MaxToken,                                    \* Browsing
  Local, Setting, MaxHolds,                                      \* Gateways
  Ident, Owner                                                   \* Stores

VARIABLES part, v1, v2, v3, v4, v5, v6, v7, v8, v9, v10, v11

-----------------------------------------------------------------------------
Trading == INSTANCE TradeProofs WITH
  stage <- v3, delivered <- v4, ledger <- v5, payout <- v6, rail <- v7,
  ready <- v8, mutex <- v9, task <- v2, faulted <- v1, plan <- v1, held <- v4,
  call <- v2, completed <- v3, announced <- v5, cancelled <- v6, refused <- v7,
  offer <- v5, told <- v7, stay <- v4, everBooked <- v6, late <- v3,
  payable <- v8, ended <- v9, listing <- v6, edit <- v1, row <- v3, clock <- v5,
  raced <- v4, revived <- v8, stored <- v3, effect <- v5, excused <- v4,
  taxes <- v1, season <- v2, quote <- v4, charged <- v5, deal <- v7,
  credit <- v8, sent <- v5, setting <- v4, rerouted <- v6, holds <- v7,
  payment <- v8, seen <- v3, found <- v9, doubled <- v10,
  place <- v3, saved <- v1, shelf <- v5, made <- v6, withdrawn <- v8,
  table <- v1, memory <- v2, durable <- v4, parent <- v5, used <- v6, copy <- v7,
  total <- v8, answer <- v9

Common == INSTANCE CommunityProofs WITH
  task <- v2, faulted <- v1, call <- v2, completed <- v3, announced <- v5,
  told <- v7, stay <- v4, late <- v3, listing <- v6, row <- v3, clock <- v5,
  excused <- v4, cache <- v4, grant <- v5, acted <- v6, granted <- v7,
  rules <- v8, proof <- v9, lift <- v10, reviews <- v4, locked <- v5,
  rating <- v6, badge <- v7, stale <- v8, aged <- v9, conv <- v3,
  messages <- v4, blocks <- v6, team <- v7, template <- v8, shown <- v9,
  marked <- v10, reverted <- v11, event <- v4, opted <- v5, rows <- v3,
  mails <- v6, owner <- v7, screen <- v8, moved <- v9, page <- v10,
  notices <- v6, letters <- v7, place <- v3, search <- v8, alerts <- v9,
  passed <- v10, overlap <- v11, provider <- v7, sent <- v5, decision <- v8,
  cascade <- v9, odd <- v10, links <- v11, trail <- v4, guest <- v6,
  score <- v7, crowded <- v8, contested <- v9, data <- v2, active <- v5,
  erasure <- v6, request <- v7

\* What the proofs assume of the constants.
ASSUME PlatformAssumption ==
  /\ Trading!Payouts!PayoutAssumption /\ Trading!Payouts!OneProcess
  /\ Trading!OffersAssumption /\ Trading!SessionsAssumption /\ Common!SweepsAssumption
  /\ Trading!GatewaysAssumption /\ Common!ReviewsAssumption /\ Trading!BrowsingAssumption
  /\ Trading!SettlementAssumption /\ Common!NotificationsAssumption /\ Trading!StoresAssumption

-----------------------------------------------------------------------------
platformVars == <<part, v1, v2, v3, v4, v5, v6, v7, v8, v9, v10, v11>>

Init ==
  \/ part = "payouts" /\ Trading!Payouts!Init /\ v10 = 0 /\ v11 = 0
  \/ part = "splits" /\ Trading!Splits!Init /\ v8 = 0 /\ v9 = 0 /\ v10 = 0 /\ v11 = 0
  \/ part = "offers" /\ Trading!Offer!Init /\ v10 = 0 /\ v11 = 0
  \/ part = "experiences" /\ Trading!Sessions!Init /\ v9 = 0 /\ v10 = 0 /\ v11 = 0
  \/ part = "idempotency" /\ Trading!Keys!Init /\ v6 = 0 /\ v7 = 0 /\ v8 = 0 /\ v9 = 0 /\ v10 = 0 /\ v11 = 0
  \/ part = "settlement" /\ Trading!Prices!Init /\ v9 = 0 /\ v10 = 0 /\ v11 = 0
  \/ part = "listings" /\ Common!Places!Init /\ v11 = 0
  \/ part = "reviews" /\ Common!Ratings!Init /\ v10 = 0 /\ v11 = 0
  \/ part = "messages" /\ Common!Threads!Init
  \/ part = "notifications" /\ Common!Inboxes!Init /\ v11 = 0
  \/ part = "sweeps" /\ Common!Sweep!Init
  \/ part = "accounts" /\ Common!People!Init
  \/ part = "moderation" /\ Common!Desk!Init /\ v10 = 0 /\ v11 = 0
  \/ part = "erasure" /\ Common!Erasures!Init /\ v8 = 0 /\ v9 = 0 /\ v10 = 0 /\ v11 = 0
  \/ part = "browsing" /\ Trading!Visits!Init /\ v9 = 0 /\ v10 = 0 /\ v11 = 0
  \/ part = "gateways" /\ Trading!Providers!Init /\ v11 = 0
  \/ part = "stores" /\ Trading!Twin!Init /\ v10 = 0 /\ v11 = 0

Next ==
  \/ part = "payouts" /\ Trading!Payouts!Next /\ UNCHANGED <<part, v10, v11>>
  \/ part = "splits" /\ Trading!Splits!Next /\ UNCHANGED <<part, v8, v9, v10, v11>>
  \/ part = "offers" /\ Trading!Offer!Next /\ UNCHANGED <<part, v10, v11>>
  \/ part = "experiences" /\ Trading!Sessions!Next /\ UNCHANGED <<part, v9, v10, v11>>
  \/ part = "idempotency" /\ Trading!Keys!Next /\ UNCHANGED <<part, v6, v7, v8, v9, v10, v11>>
  \/ part = "settlement" /\ Trading!Prices!Next /\ UNCHANGED <<part, v9, v10, v11>>
  \/ part = "listings" /\ Common!Places!Next /\ UNCHANGED <<part, v11>>
  \/ part = "reviews" /\ Common!Ratings!Next /\ UNCHANGED <<part, v10, v11>>
  \/ part = "messages" /\ Common!Threads!Next /\ UNCHANGED <<part>>
  \/ part = "notifications" /\ Common!Inboxes!Next /\ UNCHANGED <<part, v11>>
  \/ part = "sweeps" /\ Common!Sweep!Next /\ UNCHANGED <<part>>
  \/ part = "accounts" /\ Common!People!Next /\ UNCHANGED <<part>>
  \/ part = "moderation" /\ Common!Desk!Next /\ UNCHANGED <<part, v10, v11>>
  \/ part = "erasure" /\ Common!Erasures!Next /\ UNCHANGED <<part, v8, v9, v10, v11>>
  \/ part = "browsing" /\ Trading!Visits!Next /\ UNCHANGED <<part, v9, v10, v11>>
  \/ part = "gateways" /\ Trading!Providers!Next /\ UNCHANGED <<part, v11>>
  \/ part = "stores" /\ Trading!Twin!Next /\ UNCHANGED <<part, v10, v11>>

Spec == Init /\ [][Next]_platformVars

-----------------------------------------------------------------------------
\* However often and in whatever order the events of a booking are handled, its
\* host is credited at most what the booking owes, and is debited only for a
\* booking that was credited: subscriber.go:54-209 and migration 0020.
CreditedOnce == part = "payouts" => Trading!Payouts!CreditedOnce

\* Disbursements that are pending or paid never add up to more than the host has
\* ever earned, whatever requests, refunds, failures and crashes interleave in one
\* process; and what is recorded as paid did leave: service.go:237-313.
CommittedIsEarned == part = "payouts" => Trading!Payouts!CommittedIsEarned

\* However payers, their retries, the organizer and the event handler overtake
\* each other, the event that confirms the booking is recorded only when a hold
\* was placed for every share: service.go:161-219.
CompletionIsFunded == part = "splits" => Trading!Splits!CompletionIsFunded

\* A share that the table calls refunded has no live hold at the gateway, and one
\* it calls paid had a hold: service.go:313-333, splitpayment.go:248.
RefundedIsReleased == part = "splits" => Trading!Splits!RefundedIsReleased

\* Every offer is as its stay, or a failure or an overlapping call, left it:
\* offer/service.go:150-260.
OffersAreExplained == part = "offers" => Trading!Offer!OffersAreExplained

\* A session has one holder, except after a race or a stale write, and is completed
\* only once it was confirmed and is over: experiencebooking/service.go:198-461.
SessionsAreExplained == part = "experiences" => Trading!Sessions!SessionsAreExplained

\* Under one key something took effect twice only if requests ran together, the
\* storage or the server failed, or the day was over; and a replay says what the
\* very same request was answered: idempotency.go:30-50 and 101-126.
ActedOncePerKey == part = "idempotency" => Trading!Keys!ActedOncePerKey

\* A stay that was never modified costs what its quote said while nothing in the
\* catalogue changed, what the host and the platform get is what the guest is
\* charged, and no discount eats into the tax and the deposit that are passed on:
\* service.go:579-646, its copy at 906-975, and payout/service.go:370.
UnmodifiedAddsUp == part = "settlement" => Trading!Prices!UnmodifiedAddsUp

\* What guests see, and who changed it, has an explanation.  A cached copy differs
\* from the row only while its writer is on the way to drop it, after a fault, or
\* when its reader overlapped a write (property_handler.go:91-98, 254-285).  A
\* suspension ends by name, or through a write that overlapped it.  A co-host that
\* acted was granted it once, and a proof of acceptance whose version was asked
\* for is the text of that version (houserules/service.go, booking_handler.go:135).
ListingIsExplained == part = "listings" => Common!Places!ListingIsExplained

\* A rating that is not the one of the reviews has an explanation, and so has a
\* badge that the ratings do not earn (application/review/service.go:254-279): its
\* refresh is on the way, a statement of it failed, the summary it was set from was
\* old when it was stored, or a reply wrote back a rating that had been edited.
RatingIsExplained == part = "reviews" => Common!Ratings!RatingIsExplained

\* Unread counts are right, or there is a reason (message_repository.go:190-232).  A
\* message that no mark of its reader has covered counts as read only when it was
\* made before the reader's mark and written after it.  A message that a mark has
\* covered counts as unread only while that mark is being written, when writing it
\* failed, or after an old copy of the thread moved the marker back.
UnreadIsExplained == part = "messages" => Common!Threads!UnreadIsExplained

\* Between deliveries an open page with nothing buffered shows all rows of its user,
\* unless its buffer was full, the event tells no page, or something failed: a row is
\* there before its update (cmd/api/main.go:472-480).  Each delivery makes a row for
\* everyone it is for, unless something failed, and a push is shown to someone else
\* only on a device that changed hands (pushtoken/service.go, application/realtime).
InboxIsExplained == part = "notifications" => Common!Inboxes!InboxIsExplained

\* A guest has one arrival notice, and a mail with it, unless two replicas swept at
\* once; a mail is missing only after a fault (application/arrival/service.go:80-114).
\* A listing that the mark of a search went past was in an alert, or the search had
\* not found it, and it is in two alerts only if replicas overlapped or a mark was lost
\* (application/savedsearch/service.go:62-99).
SweepsAreExplained == part = "sweeps" => Common!Sweep!SweepsAreExplained

\* The account is what its last events made it (ShutOut, CascadeSwept, FlagFollows).  A
\* suspended or erased account is inactive, unless an old copy of the row was written
\* after it (user_repository.go:40); what the cascade of a suspension saw and could
\* write is suspended and cancelled, whatever else failed (user/service.go:291-320); and
\* the payout flag is the provider's once its events are answered, unless an old copy
\* was written or an event overtook another (connect_webhook_handler.go).
AccountIsExplained == part = "accounts" => Common!People!AccountIsExplained

\* What administrators and services see of a request is one decision (OneWaits,
\* AnnouncedIsVerified, TrailAgrees, DecidedOnce): one request of a kind waits, who was
\* told to be verified is, the trail has one verdict and it is the table's.  Only two
\* calls that passed a look-up together, or a failed statement, explain anything else
\* (identity/service.go:40-80, report/service.go:41-46, user_handler.go).
ModerationIsExplained == part = "moderation" => Common!Desk!ModerationIsExplained

\* An erasure that is over did what its audit row says (SweptTablesAreClean,
\* ErasureIsOnRecord): a swept table holds nothing of the user unless its step is among
\* the failed ones or a request admitted before it wrote later, and a step fails for an
\* error or on the unique payer of a split (privacy/service.go:218-323, migration 0045).
ErasureIsExplained == part = "erasure" => Common!Erasures!ErasureIsExplained

\* Share links and answers are what the last writes made them (LinksAreExplained,
\* AnswersAddUp): a withdrawn link stays dead and a link that was handed out works, unless
\* two calls overlapped between load and write (favorite/service.go:131-146); a page and
\* its total agree unless a write came between their statements.
BrowsingIsExplained == part = "browsing" => Trading!Visits!BrowsingIsExplained

\* The reference of a payment leads to its money, and a webhook of that money leads back
\* (HoldsAreOnRecord, HoldsCanBeReached, WebhooksFindTheirs), unless an answer was lost
\* before the next provider was tried, two deliveries ran at once, the settings changed
\* over a restart, or the webhook came before the row (routing.go:69-133).
GatewaysAreExplained == part = "gateways" => Trading!Providers!GatewaysAreExplained

\* A test on the in-memory store shows what production does: both hold the same rows and
\* gave the same answer, until a situation of Gaps (memory.go 28-3333 and the Postgres
\* repositories with their indexes, foreign keys and transactions).
StoresAgree == part = "stores" => Trading!Twin!StoresAgree
=============================================================================
