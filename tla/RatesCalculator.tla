--------------------------- MODULE RatesCalculator ---------------------------
(***************************************************************************)
(* The interest-rate model of a lending pool                               *)
(* (deployment/avalanche/WavaxVariableUtilisationRatesCalculator.sol): a   *)
(* piecewise linear borrowing rate over the utilisation of the pool, and   *)
(* the deposit rate derived from it.                                       *)
(***************************************************************************)
EXTENDS PoolBase

SLOPE_1      == 50 * PerMille
BREAKPOINT_1 == 600 * PerMille
SLOPE_2      == 200 * PerMille
OFFSET_2     == 90 * PerMille
BREAKPOINT_2 == 800 * PerMille
SLOPE_3      == 500 * PerMille
OFFSET_3     == 330 * PerMille
BREAKPOINT_3 == 900 * PerMille
SLOPE_4      == 29800 * PerMille
OFFSET_4     == 26700 * PerMille
MAX_RATE     == 3100 * PerMille

PoolUtilisation(loans, deposits) ==
    IF deposits = 0 THEN 0 ELSE (loans * WAD) \div deposits

\* One linear piece of the borrowing rate; OFFSET_1 is zero in the contract.
Line(u, slope, offset) == (u * slope) \div WAD - offset

BorrowingRate(loans, deposits) ==
    LET u == PoolUtilisation(loans, deposits)
    IN IF u >= WAD THEN MAX_RATE
       ELSE IF u <= BREAKPOINT_1 THEN Line(u, SLOPE_1, 0)
       ELSE IF u <= BREAKPOINT_2 THEN Line(u, SLOPE_2, OFFSET_2)
       ELSE IF u <= BREAKPOINT_3 THEN Line(u, SLOPE_3, OFFSET_3)
       ELSE Line(u, SLOPE_4, OFFSET_4)

\* Mutant of DepositRate: what borrowers pay on the loans is promised on all
\* deposits.
DepositRateUnscaled(loans, deposits, spread) ==
    IF deposits = 0 THEN 0
    ELSE (BorrowingRate(loans, deposits) * (WAD - spread)) \div WAD

DepositRate(loans, deposits, spread) ==
    IF deposits = 0 THEN 0
    ELSE IF loans >= deposits THEN (MAX_RATE * (WAD - spread)) \div WAD
    ELSE (BorrowingRate(loans, deposits) * (WAD - spread) * loans)
             \div (deposits * WAD)
==============================================================================
