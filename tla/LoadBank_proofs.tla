---------------------------- MODULE LoadBank_proofs ----------------------------
(***************************************************************************)
(* What setLoad selects and drives, for every rating the device accepts    *)
(* and every load percentage.  The divisions are the point: the rating is  *)
(* divided by four, by a hundred and by the power of the banks, each time  *)
(* rounding down.                                                          *)
(***************************************************************************)
EXTENDS LoadBank, TLAPS

\* Rounding down leaves less than one divisor.
LEMMA RoundsDown ==
  ASSUME NEW a \in Nat, NEW b \in Nat \ {0}
  PROVE  /\ a \div b \in Nat
         /\ (a \div b) * b <= a
         /\ a < (a \div b + 1) * b
  OBVIOUS

\* More banks never carry less, and four carry the rating.
LEMMA BanksGrow ==
  ASSUME NEW rating \in Rating
  PROVE  /\ \A n \in 1..4 : BankVA(rating, n) \in Nat \ {0}
         /\ \A m, n \in 1..4 : m <= n => BankVA(rating, m) <= BankVA(rating, n)
         /\ BankVA(rating, 4) = rating
<1>1. rating \in Nat /\ rating >= 100  BY DEF Rating, UPS_MIN_VA, UPS_MAX_VA
<1>2. rating \div 4 \in Nat /\ 4 * (rating \div 4) <= rating /\ rating \div 4 >= 25  BY <1>1
<1> QED  BY <1>1, <1>2 DEF BankVA

\* A load within the rating gets banks that carry it, and no fewer would.
THEOREM FewestBanks ==
  ASSUME NEW rating \in Rating, NEW va \in Nat, va <= rating
  PROVE  LET n == RequiredBanks(rating, va)
         IN /\ n \in 1..4 /\ va <= BankVA(rating, n)
            /\ \A m \in 1..(n - 1) : BankVA(rating, m) < va
<1>1. 4 \in Carrying(rating, va)  BY BanksGrow DEF Carrying
<1>2. \E n \in Carrying(rating, va) : \A m \in Carrying(rating, va) : n <= m
  <2> DEFINE C(n) == n \in Carrying(rating, va)
  <2>1. \A n \in Carrying(rating, va) : n \in {1, 2, 3, 4}  BY DEF Carrying
  <2>2. CASE C(1)  BY <2>1, <2>2
  <2>3. CASE ~C(1) /\ C(2)  BY <2>1, <2>3
  <2>4. CASE ~C(1) /\ ~C(2) /\ C(3)  BY <2>1, <2>4
  <2>5. CASE ~C(1) /\ ~C(2) /\ ~C(3)  BY <1>1, <2>1, <2>5
  <2> QED  BY <2>2, <2>3, <2>4, <2>5
<1>3. /\ RequiredBanks(rating, va) \in Carrying(rating, va)
      /\ \A m \in Carrying(rating, va) : RequiredBanks(rating, va) <= m
  BY <1>1, <1>2 DEF RequiredBanks
<1>4. RequiredBanks(rating, va) \in 1..4 /\ va <= BankVA(rating, RequiredBanks(rating, va))
  BY <1>3 DEF Carrying
<1>5. ASSUME NEW m \in 1..(RequiredBanks(rating, va) - 1)
      PROVE  BankVA(rating, m) < va
  <2>1. m \in 1..4 /\ m \notin Carrying(rating, va)  BY <1>3, <1>4
  <2> QED  BY <2>1, BanksGrow DEF Carrying
<1> QED  BY <1>4, <1>5

\* A percentage of the rating needs its own banks, or one more when the rating is
\* not divisible by four.
LEMMA BanksOfPercentage ==
  ASSUME NEW rating \in Rating, NEW load \in LoadPercentage
  PROVE  LET va == TestVARating(rating, load)
         IN /\ va \in 0..rating
            /\ RequiredBanks(rating, va) \in {BanksOf(load), BanksOf(load) + 1}
            /\ rating % 4 = 0 => RequiredBanks(rating, va) = BanksOf(load)
<1> DEFINE va == TestVARating(rating, load)
           n  == RequiredBanks(rating, va)
<1>1. rating \in Nat /\ rating >= 100  BY DEF Rating, UPS_MIN_VA, UPS_MAX_VA
<1>2. load \in {"LOAD_0P", "LOAD_25P", "LOAD_50P", "LOAD_75P", "LOAD_100P"}
  BY DEF LoadPercentage, Percent
<1>3. va = CASE load = "LOAD_0P" -> 0
             [] load = "LOAD_25P" -> (rating * 25) \div 100
             [] load = "LOAD_50P" -> (rating * 50) \div 100
             [] load = "LOAD_75P" -> (rating * 75) \div 100
             [] load = "LOAD_100P" -> (rating * 100) \div 100
  BY <1>1, <1>2 DEF TestVARating, Percent
<1>4. BanksOf(load) = CASE load = "LOAD_0P" -> 1
                        [] load = "LOAD_25P" -> 1
                        [] load = "LOAD_50P" -> 2
                        [] load = "LOAD_75P" -> 3
                        [] load = "LOAD_100P" -> 4
  BY <1>2 DEF BanksOf, Percent
<1>5. va \in 0..rating  BY <1>1, <1>2, <1>3
<1>6. /\ n \in 1..4 /\ va <= BankVA(rating, n)
      /\ \A m \in 1..(n - 1) : BankVA(rating, m) < va
  <2>1. va \in Nat /\ va <= rating  BY <1>1, <1>5
  <2> HIDE DEF va
  <2> QED  BY <2>1, FewestBanks
<1>7. /\ BankVA(rating, 1) = rating \div 4 /\ BankVA(rating, 2) = (rating \div 4) * 2
      /\ BankVA(rating, 3) = (rating \div 4) * 3 /\ BankVA(rating, 4) = rating
  BY <1>1 DEF BankVA
<1>8. \A m \in 1..4 : m < n => BankVA(rating, m) < va  BY <1>6
<1> HIDE DEF va, n
<1>9. n \in {BanksOf(load), BanksOf(load) + 1} /\ (rating % 4 = 0 => n = BanksOf(load))
  <2>1. n \in {1, 2, 3, 4}  BY <1>6
  <2>2. CASE load = "LOAD_0P"   BY <2>1, <2>2, <1>1, <1>3, <1>4, <1>6, <1>7, <1>8
  <2>3. CASE load = "LOAD_25P"  BY <2>1, <2>3, <1>1, <1>3, <1>4, <1>6, <1>7, <1>8
  <2>4. CASE load = "LOAD_50P"  BY <2>1, <2>4, <1>1, <1>3, <1>4, <1>6, <1>7, <1>8
  <2>5. CASE load = "LOAD_75P"  BY <2>1, <2>5, <1>1, <1>3, <1>4, <1>6, <1>7, <1>8
  <2>6. CASE load = "LOAD_100P" BY <2>1, <2>6, <1>1, <1>3, <1>4, <1>6, <1>7, <1>8
  <2> QED  BY <1>2, <2>2, <2>3, <2>4, <2>5, <2>6
<1> QED  BY <1>5, <1>9 DEF va, n

\* Every percentage of every rating is drawn: by its own banks, or one more, and at
\* most one step of the PWM below what was asked for (configureTest, setLoad).
THEOREM LoadIsDrawn ==
  ASSUME NEW rating \in Rating, NEW load \in LoadPercentage
  PROVE  LET va == TestVARating(rating, load)
         IN Draws(rating, load, RequiredBanks(rating, va), PwmOf(rating, va))
<1> DEFINE va  == TestVARating(rating, load)
           n   == RequiredBanks(rating, va)
           pwm == PwmOf(rating, va)
           b   == BankVA(rating, n)
<1>1. /\ va \in 0..rating /\ n \in {BanksOf(load), BanksOf(load) + 1}
      /\ rating % 4 = 0 => n = BanksOf(load)
  BY BanksOfPercentage
<1>2. rating \in Nat  BY DEF Rating, UPS_MIN_VA, UPS_MAX_VA
<1>3. va \in Nat /\ va <= rating  BY <1>1, <1>2
<1>4. n \in 1..4 /\ va <= b /\ b \in Nat \ {0}
  <2> HIDE DEF va
  <2> QED  BY <1>3, FewestBanks, BanksGrow
<1>5. pwm = (va * 255) \div b  BY <1>4 DEF PwmOf
<1> HIDE DEF va, n, b, pwm
<1>6. va * 255 \in Nat /\ pwm \in Nat /\ pwm * b <= 255 * va /\ 255 * va < (pwm + 1) * b
  <2> DEFINE x == va * 255
  <2>1. x \in Nat /\ x = 255 * va  BY <1>3
  <2>2. b \in Nat \ {0}  BY <1>4
  <2> HIDE DEF x
  <2>3. x \div b \in Nat /\ (x \div b) * b <= x /\ x < (x \div b + 1) * b
    BY <2>1, <2>2, RoundsDown
  <2> QED  BY <2>1, <2>3, <1>5 DEF x
<1>7. pwm <= 255
  <2>1. pwm * b <= 255 * b  BY <1>3, <1>4, <1>6
  <2> QED  BY <2>1, <1>4, <1>6
<1> QED  BY <1>1, <1>6, <1>7 DEF Draws, va, n, b, pwm
===============================================================================
