------------------------------ MODULE TradeMath ------------------------------
(***************************************************************************)
(* The integer arithmetic of order reservation and trade settlement:       *)
(* quoteAmount, ceilBigProductDiv and reservation of                       *)
(* internal/trading/service.go, QuoteAmountForScales and FeeAmount of      *)
(* internal/trading/settlement.go, holdConsumed of                         *)
(* internal/trading/postgres/settlement.go.  The code computes in big.Int, *)
(* so the numbers here are unbounded; Quo truncates towards zero, and is   *)
(* only ever applied to numbers that are not negative.                     *)
(***************************************************************************)
EXTENDS Integers

BasisPoints == 10000

ceilBigProductDiv(left, right, divisor) ==
  LET product == left * right
  IN product \div divisor + (IF product % divisor = 0 THEN 0 ELSE 1)

\* Price times quantity in atomic units of the quote asset.
quoteAmount(price, quantity, rules, roundUp) ==
  LET numerator == price * quantity * 10^rules.QuoteScale
      divisor   == 10^(rules.PriceScale + rules.QuantityScale)
  IN IF roundUp THEN ceilBigProductDiv(numerator, 1, divisor) ELSE numerator \div divisor

\* What a trade moves; a trade whose notional is 0 cannot be settled.
QuoteAmountForScales(price, quantity, rules) == quoteAmount(price, quantity, rules, FALSE)

absInt64(value) == IF value < 0 THEN -value ELSE value

FeeAmount(notional, basisPoints) ==
  LET magnitude == (notional * absInt64(basisPoints)) \div BasisPoints
  IN IF basisPoints < 0 THEN -magnitude ELSE magnitude

\* reservation() of a limit buy: the notional and the taker fee, both rounded up.
LimitBuyHold(price, quantity, takerFeeBPS, rules) ==
  LET notional == quoteAmount(price, quantity, rules, TRUE)
  IN notional + (IF takerFeeBPS > 0
                 THEN ceilBigProductDiv(notional, takerFeeBPS, BasisPoints)
                 ELSE 0)

\* What a settled trade takes out of the hold of the order on that side.
holdConsumed(side, notional, quantity, fee) ==
  IF side = "SELL" THEN quantity ELSE notional + (IF fee > 0 THEN fee ELSE 0)

=============================================================================
