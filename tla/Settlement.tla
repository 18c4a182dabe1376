----------------------------- MODULE Settlement -----------------------------
(***************************************************************************)
(* The money of one stay: what is quoted, priced, charged, stored, credited *)
(* to the host and reported to a tax authority.                            *)
(*   domain/booking/pricing.go, application/booking/service.go,            *)
(*   application/tax, application/taxremittance, application/pricerule     *)
(*                                                                         *)
(* A booking is priced in memory and its event carries the total, but the  *)
(* bookings table has columns for a part of the breakdown only: whoever    *)
(* loads the booking later sees no tax lines, no deposit and no fee for     *)
(* extra guests, and an update writes the status alone.                    *)
(***************************************************************************)
EXTENDS FiniteSets, FiniteSetsExt, Integers

CONSTANTS Season,    \* seasonal prices that hosts add: [from, to, price], to excluded
          City,
          TaxRule,   \* [kind, city, amount, cap]
          Deposits,  \* the deposits a listing may ask for
          Lengths, Guests,
          Coupons    \* "none", "half" or "fixed"

VARIABLES
  listing,  \* the city and deposit of the listing
  taxes,    \* the tax_rules table
  season,   \* how far each seasonal price is: none, checked, in the table
  quote,    \* the last quote, until the catalogue changes
  row,      \* the bookings row
  charged,  \* the total of the last booking event, which the payment is held for
  deal,     \* history: what was asked for, and the tax and deposit in the charge
  credit    \* what the ledger owes the host

settlementVars == <<listing, taxes, season, quote, row, charged, deal, credit>>

\* Minor units and percentages of the instance; no case below depends on them.
BasePrice == 10      WeekendPrice == 15
CleaningFee == 4     ExtraGuestFee == 2   CouponAmount == 12
FeePct == 12         TaxPct == 5          WeeklyPct == 60
WeeklyNights == 2    IncludedGuests == 1

NoRow == [status |-> "none", subtotal |-> 0, discount |-> 0, fee |-> 0, total |-> 0]
NoAsk == [len |-> 0, guests |-> 0, coupon |-> "none"]
NoQuote == [ask |-> NoAsk, total |-> 0, fresh |-> FALSE]
Asks  == [len : Lengths, guests : Guests, coupon : Coupons]

Init ==
  /\ listing \in [city : City, deposit : Deposits]
  /\ taxes \in SUBSET TaxRule
  /\ season = [e \in Season |-> "none"]
  /\ quote = NoQuote
  /\ row = NoRow /\ charged = 0 /\ credit = 0
  /\ deal = [ask |-> NoAsk, tax |-> 0, deposit |-> 0, modified |-> FALSE]

-----------------------------------------------------------------------------
(* Prices.                                                                   *)

\* math.Round of a share in percent of a non-negative amount.
Rounded(amount, pct) == (amount * pct + 50) \div 100

AppliesOn(e, n) == season[e] = "in" /\ e.from <= n /\ n < e.to

\* The seasonal rule that starts first, then the weekend price, then the base price.
\* (The starts differ: for two rules of one start the query leaves the order open.)
NightPrice(n) ==
  LET rules == {e \in Season : AppliesOn(e, n)}
  IN IF rules # {} THEN (CHOOSE e \in rules : \A f \in rules : e.from <= f.from).price
     ELSE IF n = 1 THEN WeekendPrice ELSE BasePrice

Subtotal(len) == MapThenSumSet(NightPrice, 1 .. len)

\* DiscountFor: never more than the subtotal.
CouponCents(coupon, subtotal) ==
  LET cents == CASE coupon = "half"  -> Rounded(subtotal, 50)
                 [] coupon = "fixed" -> CouponAmount
                 [] OTHER            -> 0
  IN IF cents > subtotal THEN subtotal ELSE cents

ExtraGuests(ask) ==
  IF ask.guests > IncludedGuests
    THEN (ask.guests - IncludedGuests) * ExtraGuestFee * ask.len ELSE 0

Matches(rule) == rule.city \in {"any", listing.city}
RulesFor == {rule \in taxes : Matches(rule)}

\* One line per rule; percent rules truncate, and a cap of no nights is none.
LineAmount(rule, ask, base) ==
  CASE rule.kind = "percent"  -> (base * rule.amount) \div 100
    [] rule.kind = "perNight" -> rule.amount * ask.guests *
                                 (IF rule.cap > 0 /\ ask.len > rule.cap THEN rule.cap ELSE ask.len)
    [] rule.kind = "perStay"  -> rule.amount

Calculate(ask, base) == {[rule |-> r, amount |-> LineAmount(r, ask, base)] : r \in RulesFor}

\* quoteJurisdictionTax: a negative base is refused, and a booking then has no lines.
TaxLines(ask, base) == IF base < 0 THEN {} ELSE Calculate(ask, base)
Amount(line) == line.amount
Sum(lines) == MapThenSumSet(Amount, lines)

\* The length-of-stay discount and the coupon, together at most the subtotal.
Discount(ask, subtotal, coupon) ==
  LET d == coupon + (IF ask.len >= WeeklyNights THEN Rounded(subtotal, WeeklyPct) ELSE 0)
  IN IF d > subtotal THEN subtotal ELSE d

\* ComputePricingFromSubtotal: the deposit is in the total, free of fee and tax.
Priced(ask, subtotal, coupon, lines) ==
  LET discount == Discount(ask, subtotal, coupon)
      base     == subtotal - discount + CleaningFee + ExtraGuests(ask)
      fee      == Rounded(base, FeePct)
  IN [subtotal |-> subtotal, discount |-> discount, fee |-> fee, lines |-> lines,
      deposit |-> listing.deposit,
      total |-> base + fee + Rounded(base, TaxPct) + Sum(lines) + listing.deposit]

\* The tax base takes the coupon off, and not the length-of-stay discount.
TaxBase(ask, subtotal, coupon) == subtotal - coupon + CleaningFee + ExtraGuests(ask)

\* The chain of Create.
CreatePrice(ask) ==
  LET s == Subtotal(ask.len)   c == CouponCents(ask.coupon, s)
  IN Priced(ask, s, c, TaxLines(ask, TaxBase(ask, s, c)))

\* Its copy in Quote.
QuotePrice(ask) ==
  LET s == Subtotal(ask.len)   c == CouponCents(ask.coupon, s)
  IN Priced(ask, s, c, TaxLines(ask, TaxBase(ask, s, c)))

\* Its copy in Modify has no coupon and no jurisdiction tax.
ModifyPrice(ask) == Priced(ask, Subtotal(ask.len), 0, {})

-----------------------------------------------------------------------------
(* The catalogue.                                                            *)

Stale == quote' = NoQuote
Catalogue == row = NoRow /\ Stale /\ UNCHANGED <<row, charged, deal, credit>>

\* The host saves the listing with another city or deposit, at any time.
EditListing ==
  /\ listing' \in [city : City, deposit : Deposits] /\ listing' # listing
  /\ IF row = NoRow THEN Stale ELSE UNCHANGED quote
  /\ UNCHANGED <<taxes, season, row, charged, deal, credit>>

Save(t) == taxes' = taxes \cup {t}

CreateTaxRule(t) ==
  /\ t \notin taxes /\ Save(t)
  /\ Catalogue /\ UNCHANGED <<listing, season>>

DeleteTaxRule(t) ==
  /\ t \in taxes /\ taxes' = taxes \ {t}
  /\ Catalogue /\ UNCHANGED <<listing, season>>

\* Create of a seasonal price: no rule overlaps; then, a statement later, insert.
ListOverlapping(e) == {f \in Season : season[f] = "in" /\ e.from < f.to /\ f.from < e.to}

CheckSeason(e) ==
  /\ season[e] = "none" /\ ListOverlapping(e) = {}
  /\ season' = [season EXCEPT ![e] = "checked"]
  /\ UNCHANGED <<listing, taxes, quote, row, charged, deal, credit>>

InsertSeason(e) ==
  /\ season[e] = "checked" /\ season' = [season EXCEPT ![e] = "in"]
  /\ Catalogue /\ UNCHANGED <<listing, taxes>>

DeleteSeason(e) ==
  /\ season[e] = "in" /\ season' = [season EXCEPT ![e] = "none"]
  /\ Catalogue /\ UNCHANGED <<listing, taxes>>

-----------------------------------------------------------------------------
(* The stay.                                                                 *)

Quote(ask) ==
  /\ row = NoRow
  /\ quote' = [ask |-> ask, total |-> QuotePrice(ask).total, fresh |-> TRUE]
  /\ UNCHANGED <<listing, taxes, season, row, charged, deal, credit>>

\* The columns of bookings: no tax lines, no deposit, no fee for extra guests.
Stored(p, status) ==
  [status |-> status, subtotal |-> p.subtotal, discount |-> p.discount,
   fee |-> p.fee, total |-> p.total]

\* And what a load makes of them.
Scanned(r) == [fee |-> r.fee, total |-> r.total, lines |-> {}]

Charge(ask, p, modified) ==
  /\ charged' = p.total
  /\ deal' = [ask |-> ask, tax |-> Sum(p.lines), deposit |-> p.deposit,
              modified |-> modified]

Create(ask) ==
  /\ row = NoRow
  /\ LET p == CreatePrice(ask) IN row' = Stored(p, "pending") /\ Charge(ask, p, FALSE)
  /\ UNCHANGED <<listing, taxes, season, quote, credit>>

\* The event tells the new total; the row keeps its amounts.
Modify(ask) ==
  /\ row.status = "pending" /\ ask.coupon = "none"
  /\ Charge(ask, ModifyPrice(ask), TRUE)
  /\ UNCHANGED <<listing, taxes, season, quote, row, credit>>

\* The host's net of the stay: the total without the platform's fee.
\* Fault: the fee is left in.
HostNet_WithFee(b) == b.total
HostNet(b) == b.total - b.fee

\* Confirm, and the earning its event is given from the row.
Confirm ==
  /\ row.status = "pending" /\ row' = [row EXCEPT !.status = "confirmed"]
  /\ credit' = HostNet(Scanned(row))
  /\ UNCHANGED <<listing, taxes, season, quote, charged, deal>>

Complete ==
  /\ row.status = "confirmed" /\ row' = [row EXCEPT !.status = "completed"]
  /\ UNCHANGED <<listing, taxes, season, quote, charged, deal, credit>>

Settled == row.status \in {"confirmed", "completed"}

\* Generate: the lines of the settled bookings, under the listing's city of today.
Reported(city) ==
  IF Settled /\ Scanned(row).lines # {} /\ city = listing.city
    THEN Sum(Scanned(row).lines) ELSE 0

Next ==
  \/ EditListing \/ Confirm \/ Complete
  \/ \E t \in TaxRule : CreateTaxRule(t) \/ DeleteTaxRule(t)
  \/ \E e \in Season : CheckSeason(e) \/ InsertSeason(e) \/ DeleteSeason(e)
  \/ \E ask \in Asks : Quote(ask) \/ Create(ask) \/ Modify(ask)

-----------------------------------------------------------------------------
\* A stay that was never modified costs what its quote said while nothing in the
\* catalogue changed, what the host and the platform get is what the guest is
\* charged, and no discount eats into the tax and the deposit that are passed on:
\* service.go:579-646, its copy at 906-975, and payout/service.go:370.
UnmodifiedAddsUp ==
  row # NoRow /\ ~deal.modified =>
    /\ quote.fresh /\ quote.ask = deal.ask => charged = quote.total
    /\ Settled => credit + row.fee = charged
    /\ row.discount <= row.subtotal
    /\ deal.tax + deal.deposit + CleaningFee <= charged
=============================================================================
