------------------------------- MODULE LoadBank -------------------------------
(***************************************************************************)
(* The load bank: how much load a percentage of the rating asks for        *)
(* (TestManager::configureTest), and which of the four banks a test        *)
(* switches on and how far they are driven (UPSTest::setLoad).             *)
(* Powers are in VA and whole, as in the code.                             *)
(***************************************************************************)
EXTENDS Integers, FiniteSets

\* The ratings SetupSpec::setField lets pass.
UPS_MIN_VA == 100
UPS_MAX_VA == 4000
Rating == UPS_MIN_VA..UPS_MAX_VA

Percent == [LOAD_0P |-> 0, LOAD_25P |-> 25, LOAD_50P |-> 50, LOAD_75P |-> 75,
            LOAD_100P |-> 100]
LoadPercentage == DOMAIN Percent

\* configureTest: the load a test asks for.
TestVARating(rating, load) == (rating * Percent[load]) \div 100

\* Faulty variant: every bank holds a quarter, the last one too.
BankVA_Quarters(rating, n) == (rating \div 4) * n

\* What n banks carry when they are driven fully: singlebankVA, dualbankVA,
\* triplebankVA, maxVARating.
BankVA(rating, n) == IF n = 4 THEN rating ELSE (rating \div 4) * n

\* The banks that carry a load, and the fewest of them; none for a load above the
\* rating.
Carrying(rating, va) == {n \in 1..4 : va <= BankVA(rating, n)}

RequiredBanks(rating, va) ==
  IF Carrying(rating, va) = {} THEN 0
  ELSE CHOOSE n \in Carrying(rating, va) : \A m \in Carrying(rating, va) : n <= m

\* map(): linear from 0..BankVA to 0..255, rounded down.  The adjustments are zero.
PwmOf(rating, va) == LET n == RequiredBanks(rating, va)
                     IN IF n = 0 THEN 0 ELSE (va * 255) \div BankVA(rating, n)

\* selectLoadBank: the relays that are on.
Relays == <<"LOAD25P_ON_PIN", "LOAD50P_ON_PIN", "LOAD75P_ON_PIN", "LOAD_FULL_ON_PIN">>
RelaysOn(n) == {Relays[i] : i \in 1..n}

-------------------------------------------------------------------------------
\* The banks a percentage stands for: one per quarter, and one for no load.
BanksOf(load) == IF load = "LOAD_0P" THEN 1 ELSE Percent[load] \div 25

\* A load is drawn as it should be: with the banks of its percentage, or one more
\* where the rating is not divisible by four; and what they draw, in 255ths of a
\* VA, is at most one step of the PWM below it.
Draws(rating, load, banks, pwm) ==
  LET va == TestVARating(rating, load)
  IN /\ banks \in {BanksOf(load), BanksOf(load) + 1}
     /\ rating % 4 = 0 => banks = BanksOf(load)
     /\ pwm * BankVA(rating, banks) <= 255 * va
     /\ 255 * va < (pwm + 1) * BankVA(rating, banks)
     /\ pwm \in 0..255
===============================================================================
