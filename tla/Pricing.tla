------------------------------ MODULE Pricing -------------------------------
(***************************************************************************)
(* The fares of app/services/routing.py, in whole numbers: metres and      *)
(* seconds in, UGX out.  A stored route keeps two decimals of a kilometre  *)
(* and one of a minute, so its distance counts 10 m and its duration 6 s.  *)
(* Products are exact here; the code computes them in binary floats.       *)
(***************************************************************************)
EXTENDS Integers

CONSTANTS
    BaseFee,        \* PRICING_BASE_FEE_UGX
    RatePerKm,      \* PRICING_RATE_PER_KM_UGX
    RatePerMinute,  \* PRICING_RATE_PER_MINUTE_UGX
    MinimumFare     \* PRICING_MINIMUM_FARE_UGX

ASSUME PricingAssumption ==
    /\ {BaseFee, RatePerKm, RatePerMinute, MinimumFare} \subseteq Nat
    /\ MinimumFare % 100 = 0

\* Python's round(n / k): to the nearest quotient, a tie to the even one.
Rounded(n, k) ==
    LET low == n \div k
        twice == 2 * (n % k)
    IN  IF twice > k \/ (twice = k /\ low % 2 = 1) THEN low + 1 ELSE low

\* The formula before rounding, with the minimum enforced.
Charge(metres, seconds) ==
    LET total == BaseFee + (metres * RatePerKm) \div 1000 + (seconds * RatePerMinute) \div 60
    IN  IF total < MinimumFare THEN MinimumFare ELSE total

\* Mutant: the minimum is not enforced.
CalculateFareBelowMinimum(metres, seconds) ==
    100 * Rounded(BaseFee + (metres * RatePerKm) \div 1000
                  + (seconds * RatePerMinute) \div 60, 100)

CalculateFare(metres, seconds) == 100 * Rounded(Charge(metres, seconds), 100)

\* A route OpenRouteService measured: priced before it is rounded for storage.
Measured(metres, seconds) ==
    [distance |-> Rounded(metres, 10), duration |-> Rounded(seconds, 6),
     fare |-> CalculateFare(metres, seconds)]

\* Mutant: the fallback takes its minutes for tenths of a minute.
EstimatedTenfold(straight) ==
    LET distance == Rounded(straight * 135, 1000)
    IN  [distance |-> distance, duration |-> Rounded(distance * 3, 10),
         fare |-> CalculateFare(10 * distance, 60 * Rounded(distance * 3, 10))]

\* The fallback when the service times out: 1.35 times the straight line, at
\* 20 km/h, priced after rounding.
Estimated(straight) ==
    LET distance == Rounded(straight * 135, 1000)
        duration == Rounded(distance * 3, 10)
    IN  [distance |-> distance, duration |-> duration,
         fare |-> CalculateFare(10 * distance, 6 * duration)]

=============================================================================
