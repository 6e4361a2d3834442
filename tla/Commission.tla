----------------------------- MODULE Commission -----------------------------
(***************************************************************************)
(* The money arithmetic of system_settings_service.py.  A Decimal is the   *)
(* integer number of its quantum: stored money in hundredths of a so'm     *)
(* (MONEY_QUANT, column Numeric(12, 2)), a rate in ten-thousandths         *)
(* (RATE_QUANT, column Numeric(5, 4)).  A request body carries a Decimal   *)
(* with more places than the column keeps; one more decimal than the       *)
(* column is enough to reach every rounding case.                          *)
(***************************************************************************)
EXTENDS Integers

RateUnit == 10000          \* the rate 1.0000: the driver keeps nothing
DefaultRate == 1500        \* DEFAULT_DRIVER_COMMISSION_RATE = Decimal("0.15")

FullPercent == 10 * RateUnit   \* 100 percent, in thousandths of a percent

Money == Nat
Rate == 0..RateUnit

\* n / d rounded half up, for n >= 0 and d > 0 (Decimal.quantize with
\* ROUND_HALF_UP, and PostgreSQL's own rounding of a Numeric it stores).
RoundHalfUp(n, d) == (2 * n + d) \div (2 * d)

\* quantize_money of a price in thousandths of a so'm.
QuantizeMoney(mills) == RoundHalfUp(mills, 10)

\* percent_to_rate of a percentage in thousandths of a percent.
PercentToRate(millipercent) == RoundHalfUp(millipercent, 10)

\* quantize_money(gross_income * fee_rate): the product has six decimals.
SystemFee(gross, rate) == RoundHalfUp(gross * rate, RateUnit)

\* Mutant: the driver's share is rounded by itself.
OrderIncomeRoundedTwice(gross, rate) ==
    [price  |-> gross,
     rate   |-> rate,
     fee    |-> SystemFee(gross, rate),
     income |-> SystemFee(gross, RateUnit - rate)]

\* calculate_order_income: the columns final_price, system_fee_rate,
\* system_fee and driver_income that an order keeps from its acceptance.
OrderIncome(gross, rate) ==
    [price  |-> gross,
     rate   |-> rate,
     fee    |-> SystemFee(gross, rate),
     income |-> gross - SystemFee(gross, rate)]

Income == [price: Money, rate: Rate, fee: Money, income: Int]
=============================================================================
