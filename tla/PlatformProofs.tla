------------------------- MODULE PlatformProofs -------------------------
(***************************************************************************)
(* The composition of MCPlatform, proved for every value of its constants: *)
(* the ledger's theorems are theorems about the ledger with the schedule   *)
(* engine, and the theorem of each part is one of the platform, in which a *)
(* step of another part changes no variable of this one.                   *)
(***************************************************************************)
EXTENDS MCPlatform, PlatformPartsProofs

-----------------------------------------------------------------------------
(***************************************************************************)
(* The ledger with the schedule engine.  The ledger is proved for any plan *)
(* that keeps a contract (PlanAssumption of InvestmentLedger); the engine  *)
(* keeps it for every loan it can be asked for.                            *)
(***************************************************************************)

(* The contract: as many rows as months, a total that is the sum of its    *)
(* parts, balances that fall by what is repaid, and a last row that clears.*)
KeepsContract(plan, p, n) ==
    /\ plan \in [1..n -> [principal : Nat, interest : Nat, total : Nat, remaining : 0..p]]
    /\ \A k \in 1..n :
          /\ plan[k].total = plan[k].principal + plan[k].interest
          /\ plan[k].principal + plan[k].remaining =
                (IF k = 1 THEN p ELSE plan[k - 1].remaining)
    /\ plan[n].remaining = 0

(* What remains of a balance that is paid off never exceeds it.            *)
LEMMA RemainingFalls ==
    ASSUME NEW p \in Nat, NEW n \in Nat \ {0}, NEW rows, PaysOff(rows, p, n)
    PROVE  \A k \in 1..n : rows[k].remaining \in 0..p
<1>. DEFINE S == {k \in 0..n : k > 0 => rows[k].remaining \in 0..p}
<1>1. 0 \in S
  OBVIOUS
<1>2. ASSUME NEW k \in 0..(n - 1), k \in S PROVE k + 1 \in S
  <2>1. k + 1 \in 1..n /\ (k + 1) - 1 = k /\ k + 1 \in 0..n
    OBVIOUS
  <2>2. rows[k + 1] \in EngineRow
    BY <2>1 DEF PaysOff
  <2>3. rows[k + 1].principal \in Nat /\ rows[k + 1].remaining \in Nat
    BY <2>2 DEF EngineRow
  <2>4. rows[k + 1].principal + rows[k + 1].remaining
            = (IF k + 1 = 1 THEN p ELSE rows[(k + 1) - 1].remaining)
    BY <2>1 DEF PaysOff
  <2>5. CASE k = 0
    BY <2>1, <2>3, <2>4, <2>5
  <2>6. CASE k > 0
    <3>1. rows[k].remaining \in 0..p
      BY <1>2, <2>6
    <3>. QED  BY <2>1, <2>3, <2>4, <2>6, <3>1
  <2>. QED  BY <2>5, <2>6
<1>. HIDE DEF S
<1>3. 0..n \subseteq S
  BY <1>1, <1>2, SetInduction
<1>. QED  BY <1>3 DEF S

(* The engine keeps the contract for every loan, principal, number of      *)
(* months and grace (schedule.engine.ts:56-124).                           *)
THEOREM EngineKeepsContract ==
    ASSUME NEW t \in ScheduleInput, NEW p \in Nat \ {0}, NEW n \in Nat \ {0}, NEW g \in Nat
    PROVE  KeepsContract(MCPlan(t, p, n, g), p, n)
<1>. DEFINE loan == [t EXCEPT !.principal = p, !.term = n, !.grace = g]
            rows == GenerateRepaymentSchedule(loan)
            plan == MCPlan(t, p, n, g)
<1>1. loan \in ScheduleInput /\ loan.principal = p /\ loan.term = n
  BY DEF ScheduleInput
<1>2. plan = [k \in 1..n |->
                 [principal |-> rows[k].principal, interest |-> rows[k].interest,
                  total |-> rows[k].total, remaining |-> rows[k].remaining]]
  BY DEF MCPlan
<1>. HIDE DEF loan, plan
<1>3. PaysOff(rows, p, n)
  BY <1>1, SchedulePaysOff
<1>. HIDE DEF rows
<1>4. \A k \in 1..n : rows[k] \in EngineRow /\ rows[k].remaining \in 0..p
  BY <1>3, RemainingFalls DEF PaysOff
<1>5. plan \in [1..n -> [principal : Nat, interest : Nat, total : Nat, remaining : 0..p]]
  BY <1>2, <1>4 DEF EngineRow
<1>6. \A k \in 1..n : /\ plan[k].principal = rows[k].principal
                      /\ plan[k].interest = rows[k].interest
                      /\ plan[k].total = rows[k].total
                      /\ plan[k].remaining = rows[k].remaining
  BY <1>2
<1>7. ASSUME NEW k \in 1..n
      PROVE  /\ plan[k].total = plan[k].principal + plan[k].interest
             /\ plan[k].principal + plan[k].remaining =
                    (IF k = 1 THEN p ELSE plan[k - 1].remaining)
  <2>1. k # 1 => k - 1 \in 1..n
    OBVIOUS
  <2>. QED  BY <1>3, <1>6, <2>1 DEF PaysOff
<1>8. plan[n].remaining = 0
  BY <1>3, <1>6 DEF PaysOff
<1>. QED  BY <1>5, <1>7, <1>8 DEF KeepsContract, plan

(* So the ledger of the platform is one the ledger's theorems are about.   *)
LEMMA LedgerAssumptions ==
    ASSUME BookInvestors # {}, IsFiniteSet(Slots), Cardinality(Slots) <= 100
    PROVE  /\ Ledger!BoundsAssumption /\ Ledger!TermsAssumption
           /\ Ledger!PlanAssumption /\ Ledger!InstalmentAssumption
<1>1. Ledger!BoundsAssumption
  <2>1. /\ Ledger!Cardinality(Slots) = Cardinality(Slots)
        /\ Ledger!IsFiniteSet(Slots) <=> IsFiniteSet(Slots)
    BY DEF Ledger!Cardinality, Cardinality, Ledger!IsFiniteSet, IsFiniteSet
  <2>2. Ledger!IsFiniteSet(Slots) /\ Ledger!Cardinality(Slots) <= 100
    BY <2>1
  <2>3. {200} \subseteq Nat \ {0} /\ {10} \subseteq Nat
    OBVIOUS
  <2>4. {"active", "closed"} \subseteq Ledger!Statuses
    BY DEF Ledger!Statuses
  <2>. QED  BY <2>2, <2>3, <2>4 DEF Ledger!BoundsAssumption
<1>2. ASSUME NEW t \in OneMonth
      PROVE  /\ t \in ScheduleInput /\ t.principal = 100 /\ t.term = 1
             /\ t.start = 0 /\ t.grace = 0 /\ t.rate \in Rates
  BY DEF OneMonth, Loan, ScheduleInput, Models, Rates
<1>3. Ledger!TermsAssumption
  <2>1. OneMonth # {}
    BY DEF OneMonth
  <2>. QED  BY <1>2, <2>1
<1>4. Ledger!InstalmentAssumption
  BY <1>2, InstalmentType DEF MCInstalment
<1>5. ASSUME NEW t \in OneMonth, NEW p \in 1..100, NEW n \in 1..2, NEW g \in {0, t.grace}
      PROVE  /\ MCPlan(t, p, n, g) \in [1..n -> Ledger!PlanRow]
             /\ \A k \in 1..n :
                   /\ MCPlan(t, p, n, g)[k].total
                          = MCPlan(t, p, n, g)[k].principal + MCPlan(t, p, n, g)[k].interest
                   /\ MCPlan(t, p, n, g)[k].principal + MCPlan(t, p, n, g)[k].remaining =
                          (IF k = 1 THEN p ELSE MCPlan(t, p, n, g)[k - 1].remaining)
             /\ MCPlan(t, p, n, g)[n].remaining = 0
  <2>. DEFINE plan == MCPlan(t, p, n, g)
  <2>1. p \in Nat \ {0} /\ n \in Nat \ {0} /\ g \in Nat /\ t \in ScheduleInput
    BY <1>2
  <2>2. KeepsContract(plan, p, n)
    BY <2>1, EngineKeepsContract
  <2>. HIDE DEF plan
  <2>3. [principal : Nat, interest : Nat, total : Nat, remaining : 0..p] \subseteq Ledger!PlanRow
    BY DEF Ledger!PlanRow, Ledger!Money
  <2>4. plan \in [1..n -> Ledger!PlanRow]
    BY <2>2, <2>3 DEF KeepsContract
  <2>. QED  BY <2>2, <2>4 DEF KeepsContract, plan
<1>6. Ledger!PlanAssumption
  BY <1>5
<1>. QED  BY <1>1, <1>3, <1>4, <1>6

-----------------------------------------------------------------------------
(***************************************************************************)
(* The calendar, for every year from 1970 on.  Remainders and quotients by *)
(* constants are linear once the year is cut into its parts of 400, 100, 4 *)
(* and 1: a year has 365 days or 366, a day has one year, Easter is a      *)
(* Sunday after the full moon, and no five days in a row are all free.     *)
(***************************************************************************)

(* The first day of a year, and the day a leap year has more.              *)
YearBegins(y) == Calendar!UtcDate(y, 1, 1)
LeapDay(y) == IF Calendar!IsLeap(y) THEN 1 ELSE 0

(* A number of years in a cycle of 400, as the formulas cut it up.         *)
LEMMA YearParts ==
    ASSUME NEW y \in Nat
    PROVE  \E q \in Nat, r \in 0..3, s \in 0..24, t \in 0..3 :
               /\ y = 100 * (4 * q + r) + 4 * s + t
               /\ y \div 100 = 4 * q + r /\ y % 100 = 4 * s + t
               /\ y \div 4 = 25 * (4 * q + r) + s /\ y % 4 = t
               /\ y \div 400 = q /\ y % 400 = 100 * r + 4 * s + t
<1>. DEFINE b == y \div 100
            c == y % 100
            q == b \div 4
            r == b % 4
            s == c \div 4
            t == c % 4
<1>1. y = 100 * b + c /\ b \in Nat /\ c \in 0..99
  OBVIOUS
<1>2. b = 4 * q + r /\ q \in Nat /\ r \in 0..3
  BY <1>1
<1>3. c = 4 * s + t /\ s \in 0..24 /\ t \in 0..3
  BY <1>1
<1>. HIDE DEF b, c, q, r, s, t
<1>4. y = 100 * (4 * q + r) + 4 * s + t
  BY <1>1, <1>2, <1>3
<1>5. y \div 4 = 25 * (4 * q + r) + s /\ y % 4 = t
  BY <1>2, <1>3, <1>4
<1>6. y \div 400 = q /\ y % 400 = 100 * r + 4 * s + t
  BY <1>2, <1>3, <1>4
<1>7. y \div 100 = 4 * q + r /\ y % 100 = 4 * s + t
  BY <1>2, <1>3, <1>4
<1>. QED  BY <1>2, <1>3, <1>4, <1>5, <1>6, <1>7

(* A quotient by a constant grows by one at each of its multiples.         *)
LEMMA QuotientSteps ==
    ASSUME NEW y \in Nat \ {0}
    PROVE  /\ y \div 4 = (y - 1) \div 4 + IF y % 4 = 0 THEN 1 ELSE 0
           /\ y \div 100 = (y - 1) \div 100 + IF y % 100 = 0 THEN 1 ELSE 0
           /\ y \div 400 = (y - 1) \div 400 + IF y % 400 = 0 THEN 1 ELSE 0
<1>1. y \div 4 = (y - 1) \div 4 + IF y % 4 = 0 THEN 1 ELSE 0
  OBVIOUS
<1>2. y \div 100 = (y - 1) \div 100 + IF y % 100 = 0 THEN 1 ELSE 0
  OBVIOUS
<1>3. y \div 400 = (y - 1) \div 400 + IF y % 400 = 0 THEN 1 ELSE 0
  OBVIOUS
<1>. QED  BY <1>1, <1>2, <1>3

(* A year has 365 days, a leap year one more.                              *)
LEMMA YearLength ==
    ASSUME NEW y \in Nat \ {0}
    PROVE  /\ YearBegins(y) \in Int /\ LeapDay(y) \in {0, 1}
           /\ YearBegins(y + 1) = YearBegins(y) + 365 + LeapDay(y)
           /\ Calendar!LeapsBefore(y) + LeapDay(y) = y \div 4 - y \div 100 + y \div 400
<1>1. Calendar!LeapsBefore(y) + LeapDay(y) = y \div 4 - y \div 100 + y \div 400
  <2>1. y % 400 = 0 => y % 100 = 0
    OBVIOUS
  <2>2. y % 100 = 0 => y % 4 = 0
    OBVIOUS
  <2>. QED
    BY <2>1, <2>2, QuotientSteps DEF Calendar!LeapsBefore, LeapDay, Calendar!IsLeap
<1>2. Calendar!LeapsBefore(y + 1) = y \div 4 - y \div 100 + y \div 400
  <2>1. (y + 1) - 1 = y
    OBVIOUS
  <2>. QED  BY <2>1 DEF Calendar!LeapsBefore
<1>3. Calendar!LeapsBefore(y) \in Int /\ Calendar!LeapsBefore(1970) \in Int /\ LeapDay(y) \in {0, 1}
  BY DEF Calendar!LeapsBefore, LeapDay
<1>4. \A x \in Nat : YearBegins(x) = 365 * (x - 1970) + Calendar!LeapsBefore(x) - Calendar!LeapsBefore(1970)
  BY DEF YearBegins, Calendar!UtcDate, Calendar!DaysBefore, Calendar!LeapsBefore
<1>. QED  BY <1>1, <1>2, <1>3, <1>4

(* Years follow one another without overlapping.                           *)
LEMMA YearsInOrder ==
    ASSUME NEW x \in Nat, NEW y \in Nat, x <= y, x >= 1
    PROVE  /\ YearBegins(x) <= YearBegins(y)
           /\ x < y => YearBegins(x + 1) <= YearBegins(y)
<1>1. ASSUME NEW u \in Nat, NEW v \in Nat, u <= v
      PROVE  u \div 4 - u \div 100 + u \div 400 <= v \div 4 - v \div 100 + v \div 400
  <2>1. u \div 4 - u \div 100 <= v \div 4 - v \div 100
    BY <1>1
  <2>2. u \div 400 <= v \div 400
    BY <1>1
  <2>. QED  BY <2>1, <2>2
<1>2. ASSUME NEW u \in Nat, NEW v \in Nat, u <= v, u >= 1
      PROVE  YearBegins(u) <= YearBegins(v)
  <2>1. Calendar!LeapsBefore(u) <= Calendar!LeapsBefore(v)
    <3>1. u - 1 \in Nat /\ v - 1 \in Nat /\ u - 1 <= v - 1
      BY <1>2
    <3>. HIDE DEF Calendar!LeapsBefore
    <3>. QED  BY <3>1, <1>1 DEF Calendar!LeapsBefore
  <2>2. \A z \in Nat : YearBegins(z) = 365 * (z - 1970) + Calendar!LeapsBefore(z) - Calendar!LeapsBefore(1970)
    BY DEF YearBegins, Calendar!UtcDate, Calendar!DaysBefore, Calendar!LeapsBefore
  <2>3. \A z \in Nat : Calendar!LeapsBefore(z) \in Int
    BY DEF Calendar!LeapsBefore
  <2>. QED  BY <1>2, <2>1, <2>2, <2>3
<1>. QED  BY <1>2

(* From 1970 on, a year begins 365 or 366 days for each year after it.     *)
LEMMA YearEstimate ==
    ASSUME NEW y \in Nat, y >= 1970
    PROVE  365 * (y - 1970) <= YearBegins(y) /\ YearBegins(y) <= 366 * (y - 1970)
<1>1. Calendar!LeapsBefore(1970) = 477
  BY DEF Calendar!LeapsBefore
<1>2. YearBegins(y) = 365 * (y - 1970) + Calendar!LeapsBefore(y) - Calendar!LeapsBefore(1970)
  BY DEF YearBegins, Calendar!UtcDate, Calendar!DaysBefore, Calendar!LeapsBefore
<1>3. 477 <= Calendar!LeapsBefore(y) /\ Calendar!LeapsBefore(y) <= 477 + (y - 1970)
  <2>1. PICK x \in Nat : y = 1970 + x
    <3>. y - 1970 \in Nat /\ y = 1970 + (y - 1970)
      OBVIOUS
    <3>. QED  OBVIOUS
  <2>2. y - 1 = 1969 + x
    BY <2>1
  <2>3. (1969 + x) \div 4 - (1969 + x) \div 100 <= 473 + x
    OBVIOUS
  <2>4. (1969 + x) \div 4 - (1969 + x) \div 100 >= 473
    OBVIOUS
  <2>5. (1969 + x) \div 4 - (1969 + x) \div 100 + (1969 + x) \div 400 <= 477 + x
    OBVIOUS
  <2>6. (1969 + x) \div 400 >= 4
    OBVIOUS
  <2>. QED  BY <2>1, <2>2, <2>4, <2>5, <2>6 DEF Calendar!LeapsBefore
<1>4. Calendar!LeapsBefore(y) \in Int
  BY DEF Calendar!LeapsBefore
<1>. QED  BY <1>1, <1>2, <1>3, <1>4

(* UtcYear finds the year a day is in.                                     *)
LEMMA YearOfDay ==
    ASSUME NEW y \in Nat, y >= 1970, NEW date \in Int,
           YearBegins(y) <= date, date < YearBegins(y + 1)
    PROVE  Calendar!UtcYear(date) = y /\ date \in Nat
<1>. DEFINE Years1 == 1970 + date \div 366 .. 1970 + date \div 365 + 1
<1>1. YearBegins(y) \in Int /\ YearBegins(y + 1) \in Int
  BY YearLength
<1>2. 365 * (y - 1970) <= date /\ date < 366 * (y + 1 - 1970)
  BY YearEstimate, <1>1
<1>3. y \in Years1 /\ date \in Nat
  BY <1>2
<1>4. ASSUME NEW x \in Years1, YearBegins(x) <= date, date < YearBegins(x + 1)
      PROVE  x = y
  <2>1. x \in Nat /\ x >= 1970
    BY <1>3
  <2>2. YearBegins(x) \in Int /\ YearBegins(x + 1) \in Int
    BY <2>1, YearLength
  <2>3. ~(x < y)
    BY <1>1, <1>4, <2>1, <2>2, YearsInOrder
  <2>4. ~(y < x)
    BY <1>1, <1>4, <2>1, <2>2, YearsInOrder
  <2>. QED  BY <2>1, <2>3, <2>4
<1>5. Calendar!UtcYear(date) = CHOOSE x \in Years1 : YearBegins(x) <= date /\ date < YearBegins(x + 1)
  BY DEF Calendar!UtcYear, YearBegins
<1>. HIDE DEF Years1
<1>. QED  BY <1>3, <1>4, <1>5

(* The days of March and April, from the first of March on.                *)
LEMMA SpringDays ==
    ASSUME NEW y \in Nat \ {0}, NEW n \in 114 .. 148
    PROVE  Calendar!UtcDate(y, n \div 31, (n % 31) + 1)
             = YearBegins(y) + 59 + LeapDay(y) + n - 93
<1>1. \A d \in Int :
        /\ Calendar!UtcDate(y, 3, d) = YearBegins(y) + 59 + LeapDay(y) + d - 1
        /\ Calendar!UtcDate(y, 4, d) = YearBegins(y) + 90 + LeapDay(y) + d - 1
  BY DEF YearBegins, LeapDay, Calendar!UtcDate, Calendar!DaysBefore, Calendar!LeapsBefore
<1>2. YearBegins(y) \in Int /\ LeapDay(y) \in {0, 1}
  BY YearLength
<1>3. CASE n < 124
  <2>1. n \div 31 = 3 /\ n % 31 = n - 93
    BY <1>3
  <2>. QED  BY <1>1, <1>2, <2>1
<1>4. CASE n >= 124
  <2>1. n \div 31 = 4 /\ n % 31 = n - 124
    BY <1>4
  <2>. QED  BY <1>1, <1>2, <2>1
<1>. QED  BY <1>3, <1>4

(* What EasterSundayUtc computes: h days after 21 March is the full moon,  *)
(* but for two corrections, and l more days are the days to the Sunday.    *)
EasterParts(y, h, l) ==
    LET b == y \div 100
        c == y % 100
    IN  /\ h = ((19 * (y % 19)) + b - b \div 4 - (b - (b + 8) \div 25 + 1) \div 3 + 15) % 30
        /\ l = (32 + 2 * (b % 4) + 2 * (c \div 4) - h - (c % 4)) % 7
LateMoon(y, h) == h = 29 \/ (h = 28 /\ y % 19 >= 11)
EasterOffset(y, h, l) == h + l - IF l = 6 /\ LateMoon(y, h) THEN 7 ELSE 0

(* Easter is from 22 March to 25 April.                                    *)
LEMMA EasterInSpring ==
    ASSUME NEW y \in Nat \ {0}
    PROVE  \E h \in 0 .. 29, l \in 0 .. 6 :
               /\ EasterParts(y, h, l) /\ EasterOffset(y, h, l) \in 0 .. 34
               /\ Calendar!EasterSundayUtc(y)
                    = YearBegins(y) + 80 + LeapDay(y) + EasterOffset(y, h, l)
<1>. DEFINE a == y % 19
            b == y \div 100
            c == y % 100
            h == ((19 * a) + b - b \div 4 - (b - (b + 8) \div 25 + 1) \div 3 + 15) % 30
            l == (32 + 2 * (b % 4) + 2 * (c \div 4) - h - (c % 4)) % 7
            n == h + l - 7 * ((a + 11 * h + 22 * l) \div 451) + 114
<1>1. a \in 0 .. 18 /\ b \in Nat /\ c \in 0 .. 99
  OBVIOUS
<1>2. h \in 0 .. 29
  BY <1>1
<1>3. l \in 0 .. 6
  <2>. HIDE DEF h
  <2>. QED  BY <1>1, <1>2
<1>4. Calendar!EasterSundayUtc(y) = Calendar!UtcDate(y, n \div 31, (n % 31) + 1)
  BY DEF Calendar!EasterSundayUtc
<1>5. EasterParts(y, h, l)
  BY DEF EasterParts
<1>. HIDE DEF h, l
<1>6. (a + 11 * h + 22 * l) \div 451 = IF l = 6 /\ LateMoon(y, h) THEN 1 ELSE 0
  BY <1>1, <1>2, <1>3 DEF LateMoon
<1>7. n = 114 + EasterOffset(y, h, l) /\ EasterOffset(y, h, l) \in 0 .. 34
  BY <1>2, <1>3, <1>6 DEF EasterOffset, LateMoon
<1>. HIDE DEF n
<1>8. Calendar!EasterSundayUtc(y) = YearBegins(y) + 59 + LeapDay(y) + n - 93
  BY <1>4, <1>7, SpringDays
<1>9. YearBegins(y) \in Int /\ LeapDay(y) \in {0, 1}
  BY YearLength
<1>. QED  BY <1>2, <1>3, <1>5, <1>7, <1>8, <1>9

(* It is a Sunday.                                                         *)
LEMMA EasterIsSunday ==
    ASSUME NEW y \in Nat \ {0}
    PROVE  Calendar!UtcDay(Calendar!EasterSundayUtc(y)) = 0
<1>1. PICK h \in 0 .. 29, l \in 0 .. 6 :
        /\ EasterParts(y, h, l) /\ EasterOffset(y, h, l) \in 0 .. 34
        /\ Calendar!EasterSundayUtc(y)
             = YearBegins(y) + 80 + LeapDay(y) + EasterOffset(y, h, l)
  BY EasterInSpring
<1>2. PICK q \in Nat, r \in 0..3, s \in 0..24, t \in 0..3 :
        /\ y = 100 * (4 * q + r) + 4 * s + t
        /\ y \div 100 = 4 * q + r /\ y % 100 = 4 * s + t
        /\ y \div 4 = 25 * (4 * q + r) + s /\ y % 4 = t
        /\ y \div 400 = q /\ y % 400 = 100 * r + 4 * s + t
  BY YearParts
<1>3. (y \div 100) % 4 = r /\ (y % 100) \div 4 = s /\ (y % 100) % 4 = t
  BY <1>2
<1>4. l = (32 + 2 * r + 2 * s - h - t) % 7
  BY <1>1, <1>3 DEF EasterParts
<1>5. PICK p \in Int : l = 32 + 2 * r + 2 * s - h - t - 7 * p
  <2>. DEFINE x == 32 + 2 * r + 2 * s - h - t
  <2>1. x \in Int /\ l = x % 7
    BY <1>4
  <2>. HIDE DEF x
  <2>2. x \div 7 \in Int /\ x % 7 = x - 7 * (x \div 7)
    BY <2>1
  <2>3. \E p \in Int : l = x - 7 * p
    BY <2>1, <2>2
  <2>. QED  BY <2>3 DEF x
<1>6. PICK m \in {0, 1} : EasterOffset(y, h, l) = h + l - 7 * m
  BY DEF EasterOffset
<1>7. YearBegins(y) + LeapDay(y)
        = 365 * (y - 1970) + (25 * (4 * q + r) + s) - (4 * q + r) + q - 477
  <2>1. YearBegins(y) = 365 * (y - 1970) + Calendar!LeapsBefore(y) - Calendar!LeapsBefore(1970)
    BY DEF YearBegins, Calendar!UtcDate, Calendar!DaysBefore, Calendar!LeapsBefore
  <2>2. Calendar!LeapsBefore(1970) = 477 /\ Calendar!LeapsBefore(y) \in Int
    BY DEF Calendar!LeapsBefore
  <2>. QED  BY <1>2, <2>1, <2>2, YearLength
<1>8. PICK k \in Int : Calendar!EasterSundayUtc(y) + 4 = 7 * k
  <2>. DEFINE x == Calendar!EasterSundayUtc(y) + 4
  <2>1. x = 365 * (y - 1970) + 97 * q + 24 * r + s - 477 + 84 + h + l - 7 * m
    <3>1. YearBegins(y) \in Int /\ LeapDay(y) \in {0, 1}
      BY YearLength
    <3>. QED  BY <1>1, <1>6, <1>7, <3>1
  <2>2. x = 365 * (400 * q + 100 * r + 4 * s + t - 1970) + 97 * q + 24 * r + s - 393
              + 32 + 2 * r + 2 * s - t - 7 * p - 7 * m
    BY <1>2, <1>5, <2>1
  <2>3. x = 7 * (20871 * q + 5218 * r + 209 * s + 52 * t - 102773 - p - m)
    BY <2>2
  <2>. DEFINE k == 20871 * q + 5218 * r + 209 * s + 52 * t - 102773 - p - m
  <2>4. k \in Int /\ x = 7 * k
    BY <2>3
  <2>. HIDE DEF k
  <2>. QED  BY <2>4
<1>. QED  BY <1>8 DEF Calendar!UtcDay

(* The full moon of the church's tables is h days after 21 March, a day    *)
(* less where the tables shorten a lunation.                               *)
LEMMA PaschalMoon ==
    ASSUME NEW y \in Nat \ {0}, NEW h \in 0 .. 29, NEW l \in 0 .. 6, EasterParts(y, h, l)
    PROVE  Calendar!FullMoon(y)
             = YearBegins(y) + 79 + LeapDay(y) + h - IF LateMoon(y, h) THEN 1 ELSE 0
<1>. DEFINE a == y % 19
            b == y \div 100
            e == (11 * (a + 1) + 20 + (8 * (b + 1) + 5) \div 25 - 5
                     - ((3 * (b + 1)) \div 4 - 12)) % 30
            epact == IF e = 24 \/ (e = 25 /\ a + 1 > 11) THEN e + 1 ELSE e
            n == IF 44 - epact < 21 THEN 74 - epact ELSE 44 - epact
<1>1. a \in 0 .. 18 /\ b \in Nat
  OBVIOUS
<1>2. Calendar!FullMoon(y) = Calendar!UtcDate(y, 3, 1) + n - 1
  BY DEF Calendar!FullMoon
<1>3. h = ((19 * a) + b - b \div 4 - (b - (b + 8) \div 25 + 1) \div 3 + 15) % 30
  BY DEF EasterParts
<1>. HIDE DEF a, b
<1>4. (b - (b + 8) \div 25 + 1) \div 3 = (8 * (b + 1) + 5) \div 25
  <2>. DEFINE u == (b + 8) \div 25
              v == (b + 8) % 25
  <2>1. b = 25 * u + v - 8 /\ u \in Int /\ v \in 0 .. 24
    BY <1>1
  <2>. HIDE DEF v
  <2>2. (b - u + 1) \div 3 = 8 * u + (v - 7) \div 3
    BY <2>1
  <2>3. (8 * (b + 1) + 5) \div 25 = 8 * u + (8 * v - 51) \div 25
    <3>1. 8 * (b + 1) + 5 = 200 * u + 8 * v - 51
      BY <2>1
    <3>. QED  BY <2>1, <3>1
  <2>4. (v - 7) \div 3 = (8 * v - 51) \div 25
    BY <2>1
  <2>. QED  BY <2>2, <2>3, <2>4
<1>5. (3 * (b + 1)) \div 4 = b - b \div 4
  BY <1>1
<1>6. (e + h) % 30 = 23 /\ e \in 0 .. 29
  <2>. DEFINE f == (8 * (b + 1) + 5) \div 25
              g == b - b \div 4
  <2>1. f \in Int /\ g \in Int
    BY <1>1
  <2>2. h = (19 * a + g - f + 15) % 30 /\ e = (11 * a + 38 + f - g) % 30
    <3>1. h = ((19 * a) + b - b \div 4 - f + 15) % 30
      BY <1>3, <1>4
    <3>2. e = (11 * (a + 1) + 20 + f - 5 - (g - 12)) % 30
      BY <1>5
    <3>3. ((19 * a) + b - b \div 4 - f + 15) = 19 * a + g - f + 15
      BY <1>1, <2>1
    <3>4. (11 * (a + 1) + 20 + f - 5 - (g - 12)) = 11 * a + 38 + f - g
      BY <1>1, <2>1
    <3>. QED  BY <3>1, <3>2, <3>3, <3>4
  <2>. HIDE DEF e, f, g
  <2>3. (11 * a + 38 + f - g) + (19 * a + g - f + 15) = 30 * (a + 1) + 23
    BY <1>1, <2>1
  <2>. QED  BY <1>1, <2>1, <2>2, <2>3
<1>. HIDE DEF e
<1>7. n = 21 + h - IF LateMoon(y, h) THEN 1 ELSE 0
  BY <1>1, <1>6 DEF LateMoon, a
<1>. HIDE DEF n
<1>8. Calendar!UtcDate(y, 3, 1) = YearBegins(y) + 59 + LeapDay(y)
  BY DEF YearBegins, LeapDay, Calendar!UtcDate, Calendar!DaysBefore, Calendar!LeapsBefore
<1>9. YearBegins(y) \in Int /\ LeapDay(y) \in {0, 1}
  BY YearLength
<1>. QED  BY <1>2, <1>7, <1>8, <1>9

(* EasterSundayUtc is right for every year: what it computes is a Sunday,  *)
(* and the first one after the paschal full moon of the church's tables.   *)
THEOREM EasterAfterTheMoon ==
    ASSUME NEW y \in Nat \ {0}
    PROVE  /\ Calendar!UtcDay(Calendar!EasterSundayUtc(y)) = 0
           /\ Calendar!EasterSundayUtc(y) - Calendar!FullMoon(y) \in 1 .. 7
<1>1. PICK h \in 0 .. 29, l \in 0 .. 6 :
        /\ EasterParts(y, h, l) /\ EasterOffset(y, h, l) \in 0 .. 34
        /\ Calendar!EasterSundayUtc(y)
             = YearBegins(y) + 80 + LeapDay(y) + EasterOffset(y, h, l)
  BY EasterInSpring
<1>2. Calendar!FullMoon(y)
        = YearBegins(y) + 79 + LeapDay(y) + h - IF LateMoon(y, h) THEN 1 ELSE 0
  BY <1>1, PaschalMoon
<1>3. YearBegins(y) \in Int /\ LeapDay(y) \in {0, 1}
  BY YearLength
<1>4. Calendar!EasterSundayUtc(y) - Calendar!FullMoon(y) \in 1 .. 7
  BY <1>1, <1>2, <1>3 DEF EasterOffset
<1>. QED  BY <1>4, EasterIsSunday

(* A holiday of some year, whatever calendar was built; a day off.         *)
Holiday(d) == \E z \in Nat \ {0} : d \in Calendar!HolidaysForYear(z)
Off(d) == Calendar!IsWeekendUtc(d) \/ Holiday(d)
InYear(d, y) == YearBegins(y) <= d /\ d < YearBegins(y + 1)

(* The holidays of a year, by the days since it began: five are fixed, the *)
(* others are a Friday, two Mondays and a Thursday around a Sunday.        *)
LEMMA HolidaysOfAYear ==
    ASSUME NEW y \in Nat \ {0}
    PROVE  \E easter \in Int :
               /\ easter - YearBegins(y) - LeapDay(y) \in 80 .. 114
               /\ (easter + 4) % 7 = 0
               /\ Calendar!HolidaysForYear(y) =
                    {YearBegins(y), YearBegins(y) + 120 + LeapDay(y),
                     YearBegins(y) + 275 + LeapDay(y), YearBegins(y) + 358 + LeapDay(y),
                     YearBegins(y) + 359 + LeapDay(y),
                     easter - 2, easter + 1, easter + 39, easter + 50}
<1>. DEFINE easter == Calendar!EasterSundayUtc(y)
<1>1. YearBegins(y) \in Int /\ LeapDay(y) \in {0, 1}
  BY YearLength
<1>2. /\ easter \in Int
      /\ easter - YearBegins(y) - LeapDay(y) \in 80 .. 114
  <2>1. PICK h \in 0 .. 29, l \in 0 .. 6 :
          /\ EasterOffset(y, h, l) \in 0 .. 34
          /\ easter = YearBegins(y) + 80 + LeapDay(y) + EasterOffset(y, h, l)
    BY EasterInSpring
  <2>. HIDE DEF easter
  <2>. QED  BY <1>1, <2>1
<1>3. (easter + 4) % 7 = 0
  BY EasterIsSunday DEF Calendar!UtcDay
<1>4. /\ Calendar!UtcDate(y, 5, 1) = YearBegins(y) + 120 + LeapDay(y)
      /\ Calendar!UtcDate(y, 10, 3) = YearBegins(y) + 275 + LeapDay(y)
      /\ Calendar!UtcDate(y, 12, 25) = YearBegins(y) + 358 + LeapDay(y)
      /\ Calendar!UtcDate(y, 12, 26) = YearBegins(y) + 359 + LeapDay(y)
      /\ Calendar!UtcDate(y, 1, 1) = YearBegins(y)
  BY DEF YearBegins, LeapDay, Calendar!UtcDate, Calendar!DaysBefore, Calendar!LeapsBefore
<1>5. Calendar!HolidaysForYear(y) =
        {YearBegins(y), YearBegins(y) + 120 + LeapDay(y),
         YearBegins(y) + 275 + LeapDay(y), YearBegins(y) + 358 + LeapDay(y),
         YearBegins(y) + 359 + LeapDay(y)}
        \cup {easter + days : days \in {-2, 1, 39, 50}}
  BY <1>4 DEF Calendar!HolidaysForYear
<1>. HIDE DEF easter
<1>6. {easter + days : days \in {-2, 1, 39, 50}}
        = {easter - 2, easter + 1, easter + 39, easter + 50}
  <2>1. easter + (-2) = easter - 2
    BY <1>2
  <2>. QED  BY <2>1
<1>7. Calendar!HolidaysForYear(y) =
        {YearBegins(y), YearBegins(y) + 120 + LeapDay(y),
         YearBegins(y) + 275 + LeapDay(y), YearBegins(y) + 358 + LeapDay(y),
         YearBegins(y) + 359 + LeapDay(y),
         easter - 2, easter + 1, easter + 39, easter + 50}
  BY <1>5, <1>6
<1>. QED  BY <1>2, <1>3, <1>7

(* A holiday lies in its year, at its beginning or after the winter.       *)
LEMMA HolidaysLieInTheirYear ==
    ASSUME NEW y \in Nat \ {0}, NEW d \in Calendar!HolidaysForYear(y)
    PROVE  d \in Int /\ InYear(d, y) /\ (d = YearBegins(y) \/ d >= YearBegins(y) + 78)
<1>1. YearBegins(y) \in Int /\ LeapDay(y) \in {0, 1}
      /\ YearBegins(y + 1) = YearBegins(y) + 365 + LeapDay(y)
  BY YearLength
<1>2. PICK easter \in Int :
        /\ easter - YearBegins(y) - LeapDay(y) \in 80 .. 114
        /\ Calendar!HolidaysForYear(y) =
             {YearBegins(y), YearBegins(y) + 120 + LeapDay(y),
              YearBegins(y) + 275 + LeapDay(y), YearBegins(y) + 358 + LeapDay(y),
              YearBegins(y) + 359 + LeapDay(y),
              easter - 2, easter + 1, easter + 39, easter + 50}
  BY HolidaysOfAYear
<1>. QED  BY <1>1, <1>2 DEF InYear

(* A day has one year.                                                     *)
LEMMA OneYear ==
    ASSUME NEW x \in Nat \ {0}, NEW y \in Nat \ {0}, NEW d \in Int, InYear(d, x), InYear(d, y)
    PROVE  x = y
<1>1. /\ YearBegins(x) \in Int /\ YearBegins(x + 1) \in Int
      /\ YearBegins(y) \in Int /\ YearBegins(y + 1) \in Int
  BY YearLength
<1>2. ~(x < y)
  BY <1>1, YearsInOrder DEF InYear
<1>3. ~(y < x)
  BY <1>1, YearsInOrder DEF InYear
<1>. QED  BY <1>2, <1>3

(* A calendar that has the year of a day knows whether it is a holiday.    *)
LEMMA CalendarKnows ==
    ASSUME NEW y \in Nat \ {0}, NEW d \in Int, InYear(d, y)
    PROVE  /\ Holiday(d) <=> d \in Calendar!HolidaysForYear(y)
           /\ \A first, last \in Nat :
                 1 <= first /\ first <= y /\ y <= last =>
                     (Calendar!IsNonBusinessDay(d, Calendar!BuildHolidaySet(first, last)) <=> Off(d))
<1>1. ASSUME NEW z \in Nat \ {0}, d \in Calendar!HolidaysForYear(z)
      PROVE  z = y
  BY <1>1, HolidaysLieInTheirYear, OneYear
<1>2. Holiday(d) <=> d \in Calendar!HolidaysForYear(y)
  BY <1>1 DEF Holiday
<1>3. ASSUME NEW first \in Nat, NEW last \in Nat, 1 <= first, first <= y, y <= last
      PROVE  Calendar!IsNonBusinessDay(d, Calendar!BuildHolidaySet(first, last)) <=> Off(d)
  <2>1. d \in Calendar!BuildHolidaySet(first, last)
          <=> \E z \in first .. last : d \in Calendar!HolidaysForYear(z)
    BY Zenon DEF Calendar!BuildHolidaySet
  <2>2. \A z \in first .. last : z \in Nat \ {0}
    BY <1>3
  <2>3. y \in first .. last
    BY <1>3
  <2>4. d \in Calendar!BuildHolidaySet(first, last) <=> Holiday(d)
    BY <1>1, <1>2, <2>1, <2>2, <2>3, Zenon
  <2>. QED  BY <2>4, Zenon DEF Off, Calendar!IsNonBusinessDay
<1>. QED  BY <1>2, <1>3

(* Of five days in a row one is a business day, wherever they begin: the   *)
(* only fixed holidays side by side are the two at Christmas, and the      *)
(* others fall on a Friday, a Monday and a Thursday.                       *)
LEMMA NeverFiveDaysOff ==
    ASSUME NEW y \in Nat \ {0}, NEW d \in Int, InYear(d, y)
    PROVE  \E i \in 0 .. 4 : ~Off(d + i)
<1>. DEFINE J == YearBegins(y)
            lp == LeapDay(y)
<1>1. J \in Int /\ lp \in {0, 1} /\ YearBegins(y + 1) = J + 365 + lp
  BY YearLength
<1>2. PICK easter \in Int :
        /\ easter - J - lp \in 80 .. 114
        /\ (easter + 4) % 7 = 0
        /\ Calendar!HolidaysForYear(y) =
             {J, J + 120 + lp, J + 275 + lp, J + 358 + lp, J + 359 + lp,
              easter - 2, easter + 1, easter + 39, easter + 50}
  BY HolidaysOfAYear
<1>3. ASSUME NEW i \in 0 .. 4, Holiday(d + i)
      PROVE  d + i \in {J, J + 120 + lp, J + 275 + lp, J + 358 + lp, J + 359 + lp, J + 365 + lp,
                        easter - 2, easter + 1, easter + 39, easter + 50}
  <2>1. CASE d + i < J + 365 + lp
    <3>1. InYear(d + i, y)
      BY <1>1, <2>1 DEF InYear
    <3>2. d + i \in Calendar!HolidaysForYear(y)
      BY <1>3, <3>1, CalendarKnows
    <3>. QED  BY <1>2, <3>2, Zenon
  <2>2. CASE d + i >= J + 365 + lp
    <3>1. LeapDay(y + 1) \in {0, 1} /\ YearBegins(y + 2) = YearBegins(y + 1) + 365 + LeapDay(y + 1)
      <4>1. y + 1 \in Nat \ {0} /\ (y + 1) + 1 = y + 2
        OBVIOUS
      <4>. QED  BY <4>1, YearLength
    <3>2. InYear(d + i, y + 1)
      <4>1. (y + 1) + 1 = y + 2
        OBVIOUS
      <4>. QED  BY <1>1, <2>2, <3>1, <4>1 DEF InYear
    <3>3. d + i \in Calendar!HolidaysForYear(y + 1)
      BY <1>3, <3>2, CalendarKnows
    <3>4. d + i = YearBegins(y + 1) \/ d + i >= YearBegins(y + 1) + 78
      BY <3>3, HolidaysLieInTheirYear
    <3>5. d + i = J + 365 + lp
      BY <1>1, <2>2, <3>4 DEF InYear
    <3>. QED  BY <3>5
  <2>. QED  BY <1>1, <2>1, <2>2
<1>4. J <= d /\ d < J + 365 + lp
  BY <1>1 DEF InYear
<1>. DEFINE Red(e) == e \in {J, J + 120 + lp, J + 275 + lp, J + 358 + lp, J + 359 + lp, J + 365 + lp,
                            easter - 2, easter + 1, easter + 39, easter + 50}
            Closed(e) == (e + 4) % 7 \in {0, 6} \/ Red(e)
<1>5. \A i \in 0 .. 4 : Off(d + i) => Closed(d + i)
  BY <1>3 DEF Off, Calendar!IsWeekendUtc, Calendar!UtcDay
<1>. HIDE DEF J, lp
<1>6. \E i \in 0 .. 4 : ~Closed(d + i)
  <2>1. PICK p \in Int : easter + 4 = 7 * p
    <3>1. easter + 4 = 7 * ((easter + 4) \div 7) /\ (easter + 4) \div 7 \in Int
      BY <1>2
    <3>. QED  BY <3>1
  <2>2. PICK q \in Int, w \in 0 .. 6 : d + 4 = 7 * q + w
    <3>1. d + 4 = 7 * ((d + 4) \div 7) + ((d + 4) % 7) /\ (d + 4) \div 7 \in Int /\ (d + 4) % 7 \in 0 .. 6
      OBVIOUS
    <3>. QED  BY <3>1
  <2>3. CASE w \in {0, 1, 2}
    <3>. DEFINE i == 2 - w
    <3>1. /\ ~Closed(d + i) \/ ~Closed(d + (i + 1)) \/ ~Closed(d + (i + 2))
      BY <1>1, <1>2, <1>4, <2>1, <2>2, <2>3
    <3>. QED  BY <2>3, <3>1
  <2>4. CASE w = 3
    <3>1. ~Closed(d) \/ ~Closed(d + 1) \/ ~Closed(d + 2)
      BY <1>1, <1>2, <1>4, <2>1, <2>2, <2>4
    <3>. QED  BY <3>1
  <2>5. CASE w = 4
    <3>1. ~Closed(d) \/ ~Closed(d + 1) \/ ~Closed(d + 4)
      BY <1>1, <1>2, <1>4, <2>1, <2>2, <2>5
    <3>. QED  BY <3>1
  <2>6. CASE w = 5
    <3>1. ~Closed(d) \/ ~Closed(d + 3) \/ ~Closed(d + 4)
      BY <1>1, <1>2, <1>4, <2>1, <2>2, <2>6
    <3>. QED  BY <3>1
  <2>7. CASE w = 6
    <3>1. ~Closed(d + 2) \/ ~Closed(d + 3) \/ ~Closed(d + 4)
      BY <1>1, <1>2, <1>4, <2>1, <2>2, <2>7
    <3>. QED  BY <3>1
  <2>. QED  BY <2>2, <2>3, <2>4, <2>5, <2>6, <2>7
<1>. HIDE DEF Closed
<1>. QED  BY <1>5, <1>6

(* The least element of a set of days of which one is near the first.      *)
LEMMA LeastOfDays ==
    ASSUME NEW date \in Int, NEW S, S \subseteq date .. date + 9,
           \E i \in 0 .. 4 : date + i \in S
    PROVE  /\ Calendar!Min(S) \in S /\ Calendar!Min(S) \in date .. date + 4
           /\ \A e \in S : Calendar!Min(S) <= e
<1>1. \A e \in S : e \in Int /\ e >= date
  OBVIOUS
<1>2. \E i \in 0 .. 4 : date + i \in S /\ \A j \in 0 .. 4 : j < i => date + j \notin S
  <2>1. CASE date + 0 \in S
    BY <2>1
  <2>2. CASE date + 0 \notin S /\ date + 1 \in S
    BY <2>2
  <2>3. CASE date + 0 \notin S /\ date + 1 \notin S /\ date + 2 \in S
    BY <2>3
  <2>4. CASE date + 0 \notin S /\ date + 1 \notin S /\ date + 2 \notin S /\ date + 3 \in S
    BY <2>4
  <2>5. CASE date + 0 \notin S /\ date + 1 \notin S /\ date + 2 \notin S /\ date + 3 \notin S
    BY <2>5
  <2>. QED  BY <2>1, <2>2, <2>3, <2>4, <2>5
<1>3. PICK i \in 0 .. 4 : date + i \in S /\ \A j \in 0 .. 4 : j < i => date + j \notin S
  BY <1>2
<1>4. ASSUME NEW e \in S
      PROVE  date + i <= e
  <2>1. e - date \in Nat /\ date + (e - date) = e
    BY <1>1
  <2>2. e - date >= i
    BY <1>3, <2>1
  <2>. QED  BY <1>1, <2>1, <2>2
<1>5. Calendar!Min(S) = CHOOSE x \in S : \A e \in S : x <= e
  BY DEF Calendar!Min
<1>6. Calendar!Min(S) \in S /\ \A e \in S : Calendar!Min(S) <= e
  BY <1>3, <1>4, <1>5, Zenon
<1>7. Calendar!Min(S) <= date + i /\ Calendar!Min(S) \in Int /\ Calendar!Min(S) >= date
  BY <1>1, <1>3, <1>6
<1>. QED  BY <1>6, <1>7

(* Under the default policy a date moves to the first business day from it *)
(* on, at most four days on; the four years of holidays the code builds    *)
(* are enough to see it.                                                   *)
THEOREM NextBusinessDayFound ==
    ASSUME NEW y \in Nat, y >= 1970, NEW date \in Int, InYear(date, y)
    PROVE  LET due == Calendar!DueDate(date, "next_business_day")
           IN  /\ due \in date .. date + 4 /\ ~Off(due)
               /\ \A e \in date .. due - 1 : Off(e)
               /\ Calendar!IsNonBusinessDay(date, Calendar!CalendarOf(date)) <=> Off(date)
<1>. DEFINE cal == Calendar!CalendarOf(date)
            S == {d \in date .. date + 9 : ~Calendar!IsNonBusinessDay(d, cal)}
<1>1. cal = Calendar!BuildHolidaySet(y - 1, y + 2)
  <2>1. Calendar!UtcYear(date) = y
    BY YearOfDay DEF InYear
  <2>. QED  BY <2>1 DEF Calendar!CalendarOf
<1>2. ASSUME NEW d \in date .. date + 4
      PROVE  Calendar!IsNonBusinessDay(d, cal) <=> Off(d)
  <2>1. d \in Int /\ y \in Nat \ {0} /\ y + 1 \in Nat \ {0} /\ y - 1 \in Nat /\ y + 2 \in Nat
        /\ 1 <= y - 1 /\ y - 1 <= y /\ y <= y + 2 /\ y - 1 <= y + 1 /\ y + 1 <= y + 2
    OBVIOUS
  <2>2. InYear(d, y) \/ InYear(d, y + 1)
    <3>1. YearBegins(y + 1) \in Int /\ YearBegins(y) \in Int
          /\ YearBegins((y + 1) + 1) = YearBegins(y + 1) + 365 + LeapDay(y + 1)
          /\ LeapDay(y + 1) \in {0, 1}
      BY <2>1, YearLength
    <3>. QED  BY <3>1 DEF InYear
  <2>. HIDE DEF cal
  <2>. QED  BY <1>1, <2>1, <2>2, CalendarKnows
<1>3. Calendar!NextBusinessDay(date, cal) = Calendar!Min(S)
  BY DEF Calendar!NextBusinessDay
<1>4. Calendar!DueDate(date, "next_business_day")
        = IF ~Calendar!IsNonBusinessDay(date, cal) THEN date ELSE Calendar!Min(S)
  BY <1>3 DEF Calendar!DueDate
<1>5. date \in date .. date + 4 /\ (Calendar!IsNonBusinessDay(date, cal) <=> Off(date))
  BY <1>2
<1>6. CASE ~Off(date)
  <2>1. Calendar!DueDate(date, "next_business_day") = date
    BY <1>4, <1>5, <1>6
  <2>. QED  BY <1>5, <1>6, <2>1
<1>7. CASE Off(date)
  <2>. DEFINE due == Calendar!Min(S)
  <2>1. Calendar!DueDate(date, "next_business_day") = due
    BY <1>4, <1>5, <1>7
  <2>2. ASSUME NEW d \in date .. date + 4
        PROVE  d \in S <=> ~Off(d)
    <3>1. d \in date .. date + 9
      OBVIOUS
    <3>2. d \in S <=> ~Calendar!IsNonBusinessDay(d, cal)
      BY <3>1 DEF S
    <3>. QED  BY <1>2, <3>2
  <2>3. S \subseteq date .. date + 9
    OBVIOUS
  <2>. HIDE DEF S, due
  <2>4. \E i \in 0 .. 4 : date + i \in S
    <3>1. PICK i \in 0 .. 4 : ~Off(date + i)
      BY NeverFiveDaysOff
    <3>. QED  BY <2>2, <3>1
  <2>5. due \in S /\ due \in date .. date + 4 /\ \A e \in S : due <= e
    <3>. HIDE DEF due
    <3>1. Calendar!Min(S) \in S /\ Calendar!Min(S) \in date .. date + 4 /\ \A e \in S : Calendar!Min(S) <= e
      BY ONLY <2>3, <2>4, date \in Int, LeastOfDays
    <3>. QED  BY <3>1 DEF due
  <2>6. \A e \in date .. due - 1 : Off(e)
    BY <2>2, <2>5
  <2>7. ~Off(due)
    BY <2>2, <2>5
  <2>. QED  BY <1>5, <2>1, <2>5, <2>6, <2>7
<1>. QED  BY <1>6, <1>7

(* What a due date promises, of every day from 1970 on.                    *)
LEMMA DueDates ==
    ASSUME NEW y \in Nat, y >= 1970, NEW date \in Int, InYear(date, y),
           NEW p \in {"keep_contractual", "next_business_day"},
           NEW due, due = Calendar!DueDate(date, p)
    PROVE  /\ Calendar!UtcDay(Calendar!EasterSundayUtc(Calendar!UtcYear(date))) = 0
           /\ Calendar!EasterSundayUtc(Calendar!UtcYear(date))
                - Calendar!FullMoon(Calendar!UtcYear(date)) \in 1 .. 7
           /\ LET always == Calendar!BuildHolidaySet(Calendar!UtcYear(date) - 3,
                                                     Calendar!UtcYear(date) + 3)
              IN  p = "next_business_day" =>
                    /\ ~Calendar!IsNonBusinessDay(due, always)
                    /\ \A d \in date .. due - 1 : Calendar!IsNonBusinessDay(d, always)
           /\ due \in Int /\ due - date \in 0 .. 4
           /\ due <= Calendar!DueDate(date + 1, p)
           /\ due < Calendar!DueDate(date + 28, p)
<1>1. Calendar!UtcYear(date) = y /\ y \in Nat \ {0} /\ y + 1 \in Nat \ {0}
  BY YearOfDay DEF InYear
<1>2. Calendar!UtcDay(Calendar!EasterSundayUtc(y)) = 0
      /\ Calendar!EasterSundayUtc(y) - Calendar!FullMoon(y) \in 1 .. 7
  BY <1>1, EasterAfterTheMoon
<1>3. ASSUME NEW i \in 0 .. 40
      PROVE  date + i \in Int /\ (InYear(date + i, y) \/ InYear(date + i, y + 1))
  <2>1. YearBegins(y + 1) \in Int /\ YearBegins(y) \in Int
        /\ YearBegins((y + 1) + 1) = YearBegins(y + 1) + 365 + LeapDay(y + 1)
        /\ LeapDay(y + 1) \in {0, 1}
    BY <1>1, YearLength
  <2>. QED  BY <2>1 DEF InYear
<1>4. ASSUME NEW i \in 0 .. 28
      PROVE  LET D == Calendar!DueDate(date + i, "next_business_day")
             IN  D \in date + i .. date + i + 4 /\ ~Off(D)
                 /\ \A e \in date + i .. D - 1 : Off(e)
  <2>1. date + i \in Int /\ y + 1 \in Nat /\ y + 1 >= 1970
        /\ (InYear(date + i, y) \/ InYear(date + i, y + 1))
    BY <1>3
  <2>. QED  BY <2>1, NextBusinessDayFound
<1>5. \A i \in 0 .. 28 : Calendar!DueDate(date + i, "keep_contractual") = date + i
  BY DEF Calendar!DueDate
<1>6. date + 0 = date
  OBVIOUS
<1>. DEFINE always == Calendar!BuildHolidaySet(y - 3, y + 3)
<1>7. ASSUME NEW i \in 0 .. 40
      PROVE  Calendar!IsNonBusinessDay(date + i, always) <=> Off(date + i)
  <2>1. y - 3 \in Nat /\ y + 3 \in Nat /\ 1 <= y - 3 /\ y - 3 <= y /\ y <= y + 3
        /\ y - 3 <= y + 1 /\ y + 1 <= y + 3
    OBVIOUS
  <2>2. date + i \in Int /\ (InYear(date + i, y) \/ InYear(date + i, y + 1))
    BY <1>3
  <2>. QED  BY <1>1, <2>1, <2>2, CalendarKnows
<1>. HIDE DEF always
<1>8. CASE p = "keep_contractual"
  <2>1. due = date /\ Calendar!DueDate(date + 1, p) = date + 1
        /\ Calendar!DueDate(date + 28, p) = date + 28
    BY <1>5, <1>6, <1>8
  <2>. QED  BY <1>1, <1>2, <1>8, <2>1
<1>9. CASE p = "next_business_day"
  <2>1. due \in date .. date + 4 /\ ~Off(due) /\ \A e \in date .. due - 1 : Off(e)
    BY <1>4, <1>6, <1>9
  <2>2. \A d \in date .. date + 4 : Calendar!IsNonBusinessDay(d, always) <=> Off(d)
    <3>1. \A d \in date .. date + 4 : d - date \in 0 .. 40 /\ date + (d - date) = d
      OBVIOUS
    <3>. QED  BY <1>7, <3>1
  <2>3. /\ ~Calendar!IsNonBusinessDay(due, always)
        /\ \A d \in date .. due - 1 : Calendar!IsNonBusinessDay(d, always)
    <3>1. \A d \in date .. due - 1 : d \in date .. date + 4
      BY <2>1
    <3>. QED  BY <2>1, <2>2, <3>1
  <2>4. PICK D \in date + 1 .. date + 1 + 4 :
          D = Calendar!DueDate(date + 1, p) /\ ~Off(D)
    BY <1>4, <1>9
  <2>5. PICK F \in date + 28 .. date + 28 + 4 : F = Calendar!DueDate(date + 28, p)
    BY <1>4, <1>9
  <2>6. due <= D
    BY <2>1, <2>4
  <2>7. due < F
    BY <2>1, <2>5
  <2>. QED  BY <1>1, <1>2, <2>1, <2>3, <2>4, <2>5, <2>6, <2>7 DEF always
<1>. QED  BY <1>8, <1>9

CalendarYears == Years \subseteq {y \in Nat : y >= 1970}

(* A step gives a date of the years a due date that keeps the promises.    *)
LEMMA CalendarGives ==
    ASSUME CalendarYears, Calendar!Next
    PROVE  Calendar!TypeOK' /\ Calendar!DueDatesSound'
<1>1. PICK y \in Years, value \in {"keep_contractual", "next_business_day", "unset"} :
        \E date \in Calendar!UtcDate(y, 1, 1) .. Calendar!UtcDate(y, 12, 31) :
            LET free == Calendar!IsNonBusinessDay(date, Calendar!CalendarOf(date)) IN
            /\ dayContractual = Calendar!NoDate /\ dayContractual' = date
            /\ dayPolicy' = Calendar!ResolvePaymentDatePolicy(value)
            /\ dayDue' = Calendar!DueDate(date, dayPolicy')
            /\ dayAdjusted' = (free /\ dayPolicy' = "next_business_day")
            /\ dayNote' = CASE ~free -> ""
                            [] Calendar!IsWeekendUtc(date) -> "weekend"
                            [] OTHER -> "public holiday"
  BY Zenon DEF Calendar!Next, Calendar!ApplyPaymentDatePolicy
<1>2. PICK date \in Calendar!UtcDate(y, 1, 1) .. Calendar!UtcDate(y, 12, 31) :
            LET free == Calendar!IsNonBusinessDay(date, Calendar!CalendarOf(date)) IN
            /\ dayContractual = Calendar!NoDate /\ dayContractual' = date
            /\ dayPolicy' = Calendar!ResolvePaymentDatePolicy(value)
            /\ dayDue' = Calendar!DueDate(date, dayPolicy')
            /\ dayAdjusted' = (free /\ dayPolicy' = "next_business_day")
            /\ dayNote' = CASE ~free -> ""
                            [] Calendar!IsWeekendUtc(date) -> "weekend"
                            [] OTHER -> "public holiday"
  BY <1>1
<1>. DEFINE p == dayPolicy'
            free == Calendar!IsNonBusinessDay(date, Calendar!CalendarOf(date))
<1>3. p \in {"keep_contractual", "next_business_day"}
  BY <1>2 DEF Calendar!ResolvePaymentDatePolicy
<1>4. y \in Nat /\ y >= 1970
  BY DEF CalendarYears
<1>5. date \in Int /\ InYear(date, y)
  <2>1. Calendar!UtcDate(y, 12, 31) = YearBegins(y) + 364 + LeapDay(y)
    BY <1>4 DEF YearBegins, LeapDay, Calendar!UtcDate, Calendar!DaysBefore, Calendar!LeapsBefore
  <2>2. YearBegins(y) \in Int /\ LeapDay(y) \in {0, 1}
        /\ YearBegins(y + 1) = YearBegins(y) + 365 + LeapDay(y)
    BY <1>4, YearLength
  <2>3. date \in YearBegins(y) .. YearBegins(y) + 364 + LeapDay(y)
    BY <2>1 DEF YearBegins
  <2>. QED  BY <2>2, <2>3 DEF InYear
<1>6. dayContractual' = date /\ dayDue' = Calendar!DueDate(date, p)
      /\ dayAdjusted' = (free /\ p = "next_business_day")
      /\ dayNote' \in {"", "weekend", "public holiday"}
      /\ (dayNote' # "" <=> free)
  <2>1. dayContractual' = date /\ dayDue' = Calendar!DueDate(date, p)
        /\ dayAdjusted' = (free /\ p = "next_business_day")
    BY <1>2, Zenon
  <2>2. CASE free
    <3>1. dayNote' \in {"weekend", "public holiday"}
      BY <1>2, <2>2
    <3>. QED  BY <2>1, <2>2, <3>1
  <2>3. CASE ~free
    <3>1. dayNote' = CASE ~free -> ""
                       [] Calendar!IsWeekendUtc(date) -> "weekend"
                       [] OTHER -> "public holiday"
      BY <1>2, Zenon
    <3>2. Calendar!IsWeekendUtc(date) => free
      BY DEF Calendar!IsNonBusinessDay
    <3>. HIDE DEF free
    <3>3. dayNote' = ""
      BY <2>3, <3>1, <3>2
    <3>. QED  BY <2>1, <2>3, <3>3
  <2>. QED  BY <2>2, <2>3
<1>. HIDE DEF free, p
<1>7. /\ Calendar!UtcDay(Calendar!EasterSundayUtc(Calendar!UtcYear(date))) = 0
      /\ Calendar!EasterSundayUtc(Calendar!UtcYear(date))
           - Calendar!FullMoon(Calendar!UtcYear(date)) \in 1 .. 7
      /\ LET always == Calendar!BuildHolidaySet(Calendar!UtcYear(date) - 3,
                                                Calendar!UtcYear(date) + 3)
         IN  p = "next_business_day" =>
               /\ ~Calendar!IsNonBusinessDay(dayDue', always)
               /\ \A d \in date .. dayDue' - 1 : Calendar!IsNonBusinessDay(d, always)
      /\ dayDue' \in Int /\ dayDue' - date \in 0 .. 4
      /\ dayDue' <= Calendar!DueDate(date + 1, p)
      /\ dayDue' < Calendar!DueDate(date + 28, p)
  <2>1. PICK q \in {"keep_contractual", "next_business_day"} : q = p
    BY <1>3
  <2>4. PICK D : D = dayDue'
    OBVIOUS
  <2>2. D = Calendar!DueDate(date, q)
    BY <1>6, <2>1, <2>4
  <2>3. /\ Calendar!UtcDay(Calendar!EasterSundayUtc(Calendar!UtcYear(date))) = 0
        /\ Calendar!EasterSundayUtc(Calendar!UtcYear(date))
             - Calendar!FullMoon(Calendar!UtcYear(date)) \in 1 .. 7
        /\ LET always == Calendar!BuildHolidaySet(Calendar!UtcYear(date) - 3,
                                                  Calendar!UtcYear(date) + 3)
           IN  q = "next_business_day" =>
                 /\ ~Calendar!IsNonBusinessDay(D, always)
                 /\ \A d \in date .. D - 1 : Calendar!IsNonBusinessDay(d, always)
        /\ D \in Int /\ D - date \in 0 .. 4
        /\ D <= Calendar!DueDate(date + 1, q)
        /\ D < Calendar!DueDate(date + 28, q)
    BY ONLY <1>4, <1>5, <2>2, y \in Years, DueDates
  <2>. QED  BY <2>1, <2>3, <2>4, Zenon
<1>8. dayNote' # "" <=> dayAdjusted' \/ Calendar!DueDate(date, "next_business_day") # dayDue'
  <2>1. free <=> Off(date)
    BY <1>4, <1>5, NextBusinessDayFound DEF free
  <2>2. CASE ~free
    <3>1. Calendar!DueDate(date, "next_business_day") = date /\ dayDue' = date
      BY <1>3, <1>6, <2>2 DEF Calendar!DueDate, free
    <3>. QED  BY <1>6, <2>2, <3>1
  <2>3. CASE free /\ p = "next_business_day"
    BY <1>6, <2>3
  <2>4. CASE free /\ p = "keep_contractual"
    <3>1. dayDue' = date
      BY <1>6, <2>4 DEF Calendar!DueDate
    <3>2. ~Off(Calendar!DueDate(date, "next_business_day"))
      BY <1>4, <1>5, NextBusinessDayFound
    <3>. QED  BY <1>6, <2>1, <2>4, <3>1, <3>2
  <2>. QED  BY <1>3, <2>2, <2>3, <2>4
<1>9. Calendar!TypeOK'
  BY <1>3, <1>5, <1>6, <1>7 DEF Calendar!TypeOK, p
<1>10. Calendar!EasterIsTheSundayAfterTheFullMoon'
  BY <1>6, <1>7, Zenon DEF Calendar!EasterIsTheSundayAfterTheFullMoon
<1>11. Calendar!DueOnTheNextBusinessDay'
  BY <1>6, <1>7, Zenon DEF Calendar!DueOnTheNextBusinessDay, p
<1>12. Calendar!InstalmentsStayInOrder'
  BY <1>6, <1>7, <1>8, Zenon DEF Calendar!InstalmentsStayInOrder, p
<1>. QED  BY <1>9, <1>10, <1>11, <1>12 DEF Calendar!DueDatesSound

(* Every due date of every year from 1970 on is sound.                     *)
LEMMA CalendarSound ==
    ASSUME CalendarYears
    PROVE  Calendar!Spec => [](Calendar!TypeOK /\ Calendar!DueDatesSound)
<1>. DEFINE I == Calendar!TypeOK /\ Calendar!DueDatesSound
<1>1. Calendar!Init => I
  <2>1. Calendar!Init => Calendar!TypeOK /\ ~Calendar!Given
    <3>1. Calendar!NoDate \in Int
      BY DEF Calendar!NoDate
    <3>. QED  BY <3>1, Zenon DEF Calendar!Init, Calendar!TypeOK, Calendar!Given
  <2>2. ~Calendar!Given => Calendar!DueDatesSound
    BY Zenon DEF Calendar!DueDatesSound, Calendar!EasterIsTheSundayAfterTheFullMoon,
       Calendar!DueOnTheNextBusinessDay, Calendar!InstalmentsStayInOrder
  <2>. QED  BY <2>1, <2>2
<1>2. I /\ [Calendar!Next]_Calendar!vars => I'
  <2>1. I /\ Calendar!Next => I'
    BY CalendarGives
  <2>2. ASSUME I, UNCHANGED Calendar!vars
        PROVE  I'
    <3>1. /\ dayContractual' = dayContractual /\ dayPolicy' = dayPolicy /\ dayDue' = dayDue
          /\ dayAdjusted' = dayAdjusted /\ dayNote' = dayNote
      BY <2>2, Zenon DEF Calendar!vars
    <3>2. Calendar!TypeOK' /\ (Calendar!Given' <=> Calendar!Given)
      BY <2>2, <3>1 DEF Calendar!TypeOK, Calendar!Given
    <3>3. Calendar!EasterIsTheSundayAfterTheFullMoon'
      BY <2>2, <3>1, <3>2 DEF Calendar!DueDatesSound, Calendar!EasterIsTheSundayAfterTheFullMoon
    <3>4. Calendar!DueOnTheNextBusinessDay'
      BY <2>2, <3>1, <3>2 DEF Calendar!DueDatesSound, Calendar!DueOnTheNextBusinessDay
    <3>5. Calendar!InstalmentsStayInOrder'
      BY <2>2, <3>1, <3>2 DEF Calendar!DueDatesSound, Calendar!InstalmentsStayInOrder
    <3>. QED  BY <3>2, <3>3, <3>4, <3>5 DEF Calendar!DueDatesSound
  <2>. QED  BY <2>1, <2>2
<1>. QED  BY <1>1, <1>2, PTL DEF Calendar!Spec

-----------------------------------------------------------------------------
(* A behaviour of the platform is one of each of its parts: their initial  *)
(* states are initial states of it, and a step of another part changes     *)
(* nothing of this one.                                                    *)
LEMMA TotalsInPlatform ==
    (PlatformInit => Totals!Init) /\ ([PlatformNext]_platformVars => [Totals!Next]_(Totals!vars))
<1>1. PlatformInit => Totals!Init
  BY DEF PlatformInit
<1>2. ASSUME [PlatformNext]_platformVars, UNCHANGED totalVars PROVE UNCHANGED Totals!vars
  BY <1>2 DEF totalVars, Totals!vars
<1>. QED
  BY <1>1, <1>2 DEF PlatformNext, platformVars, ScheduleStep, LedgerStep, TotalsStep,
     TokenStep, CodeStep, UserStep, DocumentStep, StatementStep, ListStep, CalendarStep

(* The same of the documents.                                              *)
LEMMA LibraryInPlatform ==
    (PlatformInit => Library!Init) /\ ([PlatformNext]_platformVars => [Library!Next]_(Library!vars))
<1>1. PlatformInit => Library!Init
  BY DEF PlatformInit
<1>2. ASSUME [PlatformNext]_platformVars, UNCHANGED docVars PROVE UNCHANGED Library!vars
  BY <1>2 DEF docVars, Library!vars, Library!history
<1>. QED
  BY <1>1, <1>2 DEF PlatformNext, platformVars, ScheduleStep, LedgerStep, TotalsStep,
     TokenStep, CodeStep, UserStep, DocumentStep, StatementStep, ListStep, CalendarStep

(* The same of the codes.                                                  *)
LEMMA CodesInPlatform ==
    (PlatformInit => Recovery!Init) /\ ([PlatformNext]_platformVars => [Recovery!Next]_(Recovery!vars))
<1>1. PlatformInit => Recovery!Init
  BY DEF PlatformInit
<1>2. ASSUME [PlatformNext]_platformVars, UNCHANGED codeVars PROVE UNCHANGED Recovery!vars
  BY <1>2 DEF codeVars, Recovery!vars, Recovery!connection, Recovery!codes, Recovery!tokens,
     Recovery!history
<1>. QED
  BY <1>1, <1>2 DEF PlatformNext, platformVars, ScheduleStep, LedgerStep, TotalsStep,
     TokenStep, CodeStep, UserStep, DocumentStep, StatementStep, ListStep, CalendarStep

(* The same of the accounts.                                               *)
LEMMA UsersInPlatform ==
    (PlatformInit => Directory!Init) /\ ([PlatformNext]_platformVars => [Directory!Next]_(Directory!vars))
<1>1. PlatformInit => Directory!Init
  BY DEF PlatformInit
<1>2. ASSUME [PlatformNext]_platformVars, UNCHANGED userVars PROVE UNCHANGED Directory!vars
  BY <1>2 DEF userVars, Directory!vars, Directory!database, Directory!history
<1>. QED
  BY <1>1, <1>2 DEF PlatformNext, platformVars, ScheduleStep, LedgerStep, TotalsStep,
     TokenStep, CodeStep, UserStep, DocumentStep, StatementStep, ListStep, CalendarStep

(* The same of the sessions.                                               *)
LEMMA SessionsInPlatform ==
    (PlatformInit => Sessions!Init)
    /\ ([PlatformNext]_platformVars => [Sessions!Next]_(Sessions!vars))
<1>1. PlatformInit => Sessions!Init
  BY DEF PlatformInit
<1>2. ASSUME [PlatformNext]_platformVars, UNCHANGED tokenVars PROVE UNCHANGED Sessions!vars
  BY <1>2 DEF tokenVars, Sessions!vars, Sessions!environment, Sessions!signed, Sessions!client,
     Sessions!history
<1>. QED
  BY <1>1, <1>2 DEF PlatformNext, platformVars, ScheduleStep, LedgerStep, TotalsStep,
     TokenStep, CodeStep, UserStep, DocumentStep, StatementStep, ListStep, CalendarStep

(* The same of the lists.                                                  *)
LEMMA ListsInPlatform ==
    (PlatformInit => Walk!Init) /\ ([PlatformNext]_platformVars => [Walk!Next]_(Walk!vars))
<1>1. PlatformInit => Walk!Init
  BY DEF PlatformInit
<1>2. ASSUME [PlatformNext]_platformVars, UNCHANGED listVars PROVE UNCHANGED Walk!vars
  BY <1>2 DEF listVars, Walk!vars, Walk!answer, Walk!history
<1>. QED
  BY <1>1, <1>2 DEF PlatformNext, platformVars, ScheduleStep, LedgerStep, TotalsStep,
     TokenStep, CodeStep, UserStep, DocumentStep, StatementStep, ListStep, CalendarStep

(* The same of the statements.                                             *)
LEMMA StatementsInPlatform ==
    (PlatformInit => Reading!Init) /\ ([PlatformNext]_platformVars => [Reading!Next]_(Reading!vars))
<1>1. PlatformInit => Reading!Init
  BY DEF PlatformInit
<1>2. ASSUME [PlatformNext]_platformVars, UNCHANGED readVars PROVE UNCHANGED Reading!vars
  BY <1>2 DEF readVars, Reading!vars
<1>. QED
  BY <1>1, <1>2 DEF PlatformNext, platformVars, ScheduleStep, LedgerStep, TotalsStep,
     TokenStep, CodeStep, UserStep, DocumentStep, StatementStep, ListStep, CalendarStep

(* The same of the ledger.                                                 *)
LEMMA LedgerInPlatform ==
    (PlatformInit => Ledger!Init) /\ ([PlatformNext]_platformVars => [Ledger!Next]_(Ledger!vars))
<1>1. PlatformInit => Ledger!Init
  BY DEF PlatformInit
<1>2. ASSUME [PlatformNext]_platformVars, UNCHANGED bookVars PROVE UNCHANGED Ledger!vars
  BY <1>2 DEF bookVars, Ledger!vars
<1>. QED
  BY <1>1, <1>2 DEF PlatformNext, platformVars, ScheduleStep, LedgerStep, TotalsStep,
     TokenStep, CodeStep, UserStep, DocumentStep, StatementStep, ListStep, CalendarStep

(* The same of the calendar.                                               *)
LEMMA CalendarInPlatform ==
    (PlatformInit => Calendar!Init)
    /\ ([PlatformNext]_platformVars => [Calendar!Next]_(Calendar!vars))
<1>1. PlatformInit => Calendar!Init
  BY DEF PlatformInit
<1>2. ASSUME [PlatformNext]_platformVars, UNCHANGED dayVars PROVE UNCHANGED Calendar!vars
  BY <1>2 DEF dayVars, Calendar!vars
<1>. QED
  BY <1>1, <1>2 DEF PlatformNext, platformVars, ScheduleStep, LedgerStep, TotalsStep,
     TokenStep, CodeStep, UserStep, DocumentStep, StatementStep, ListStep, CalendarStep

(* The same of the schedule.                                               *)
LEMMA ScheduleInPlatform ==
    (PlatformInit => Init) /\ ([PlatformNext]_platformVars => [Next]_vars)
<1>1. PlatformInit => Init
  BY DEF PlatformInit
<1>2. ASSUME [PlatformNext]_platformVars, UNCHANGED scheduleVars PROVE UNCHANGED vars
  BY <1>2 DEF scheduleVars, vars
<1>. QED
  BY <1>1, <1>2 DEF PlatformNext, platformVars, ScheduleStep, LedgerStep, TotalsStep,
     TokenStep, CodeStep, UserStep, DocumentStep, StatementStep, ListStep, CalendarStep

(* The schedule of a loan of the platform loses no cent of the principal,  *)
(* keeps its instalments level, leaves the balloon for the last of them,   *)
(* and costs what it cost before when the tail of it is rebuilt, but for   *)
(* the rounding of the months in between (schedule.engine.ts).             *)
THEOREM PlatformSchedulesSound ==
    PlatformSpec => /\ []PrincipalConserved
                    /\ []InstalmentsLevel
                    /\ []BalloonLeftForTheEnd
                    /\ []TailReproducesSchedule
<1>1. Spec => [](/\ PrincipalConserved
                 /\ InstalmentsLevel
                 /\ BalloonLeftForTheEnd
                 /\ TailReproducesSchedule)
  BY PrincipalAlwaysConserved, InstalmentsAlwaysLevel, BalloonAlwaysLeft,
     TailAlwaysReproduces, PTL
<1>. QED  BY <1>1, ScheduleInPlatform, PTL DEF PlatformSpec, Spec

(* With the schedule engine as it is, and no more investments than a page  *)
(* holds, the totals of an investor follow every request (syncTotals).     *)
THEOREM PlatformTotalsFresh ==
    ASSUME BookInvestors # {}, IsFiniteSet(Slots), Cardinality(Slots) <= 100
    PROVE  PlatformSpec => []TotalsFresh
<1>1. /\ Ledger!BoundsAssumption /\ Ledger!TermsAssumption
      /\ Ledger!PlanAssumption /\ Ledger!InstalmentAssumption
  BY LedgerAssumptions
<1>2. 2 <= 100
  OBVIOUS
<1>3. Ledger!Spec => []Ledger!TotalsFresh
  BY <1>1, <1>2, Ledger!TotalsAlwaysFresh
<1>. QED  BY <1>3, LedgerInPlatform, PTL DEF PlatformSpec, Ledger!Spec, TotalsFresh

(* A profile of the platform shows the sums of its investments when no     *)
(* request is being served, unless synchronisations overlapped or were cut *)
(* short and none has run alone since (syncTotals).                        *)
THEOREM PlatformTotalsCatchUp ==
    ASSUME TotalsPage \in Nat
    PROVE  PlatformSpec => []TotalsCatchUp
<1>1. Totals!Spec => []Totals!TotalsCatchUp
  BY TotalsAlwaysCatchUp
<1>. QED  BY <1>1, TotalsInPlatform, PTL DEF PlatformSpec, Totals!Spec, TotalsCatchUp

(* And its documents keep their files, shared or not, and an investor is   *)
(* sent none that no document assigned to them ever had                    *)
(* (document.service.ts behind the upload middlewares).                    *)
THEOREM PlatformLibraryConsistent ==
    ASSUME MaxFiles \in Nat
    PROVE  PlatformSpec => []LibraryConsistent
<1>1. Library!Spec => []Library!LibraryConsistent
  BY LibraryIsConsistent
<1>. QED  BY <1>1, LibraryInPlatform, PTL DEF PlatformSpec, Library!Spec, LibraryConsistent

(* Its one-time codes and reset tokens follow the rules of the recovery    *)
(* (otp.service.ts, token.service.ts).                                     *)
THEOREM PlatformRecoveryRules ==
    ASSUME MaxAttempts \in Nat, MaxCodes \in Nat
    PROVE  PlatformSpec => []RecoveryRules
<1>. QED
  BY RecoveryAlwaysRules, CodesInPlatform, PTL
     DEF PlatformSpec, Recovery!Spec, RecoveryRules

(* Its accounts and profiles stay consistent (auth.service.ts,             *)
(* investor.service.ts, user.service.ts).                                  *)
THEOREM PlatformAccountsConsistent == PlatformSpec => []AccountsConsistent
<1>. QED
  BY AccountsAlwaysConsistent, UsersInPlatform, PTL
     DEF PlatformSpec, Directory!Spec, AccountsConsistent

(* A session that refreshes one request at a time keeps one working token, *)
(* and a token is replaced once (token.service.ts:180-215).                *)
THEOREM PlatformSessionsKept ==
    ASSUME MaxTokens \in Nat \ {0}
    PROVE  PlatformSpec => []SessionsKept
<1>1. Sessions!Spec => [](Sessions!SessionsKept /\ Sessions!SessionsEnded)
  BY Sessions!SessionsAlwaysKept
<1>. QED  BY <1>1, SessionsInPlatform, PTL DEF PlatformSpec, Sessions!Spec, SessionsKept

(* A session that was logged out or revoked has no token that works, and   *)
(* the copies agree with Redis (token.service.ts:217-251).                 *)
THEOREM PlatformSessionsEnded ==
    ASSUME MaxTokens \in Nat \ {0}
    PROVE  PlatformSpec => []SessionsEnded
<1>1. Sessions!Spec => [](Sessions!SessionsKept /\ Sessions!SessionsEnded)
  BY Sessions!SessionsAlwaysKept
<1>. QED  BY <1>1, SessionsInPlatform, PTL DEF PlatformSpec, Sessions!Spec, SessionsEnded

(* What its statements say of an investment and of its payments differs    *)
(* only by the markings a reader met and, of a list, the rows beyond its   *)
(* page; its exports are all in the history (DomainExportService and       *)
(* DashboardService of document.service.ts).                               *)
THEOREM PlatformStatementsSound ==
    ASSUME StatementPage \in Nat, MaxTerm \in Nat
    PROVE  PlatformSpec => []StatementsSound
<1>1. Reading!Spec => []Reading!StatementsSound
  BY StatementsAreSound
<1>. QED  BY <1>1, StatementsInPlatform, PTL DEF PlatformSpec, Reading!Spec, StatementsSound

(* And a client of its lists that reads to the end misses nothing and sees *)
(* nothing twice, but for what comes and goes between two of its queries   *)
(* and for documents that share their key with another, which every page   *)
(* may order anew (findMany, base.repository.ts).                          *)
THEOREM PlatformWalkFaithful ==
    ASSUME Asked \subseteq Nat, ListPage \in Nat, AtStart \in Nat, Keys \subseteq Int
    PROVE  PlatformSpec => []WalkFaithful
<1>1. Walk!Spec => []Walk!WalkFaithful
  BY WalksAreFaithful
<1>. QED  BY <1>1, ListsInPlatform, PTL DEF PlatformSpec, Walk!Spec, WalkFaithful

(* Its instalments fall due on business days, the first from the day of    *)
(* the contract on, at most four days later, and stay in order, in every   *)
(* year from 1970 on (applyPaymentDatePolicy, businessCalendar.ts).        *)
THEOREM PlatformDueDatesSound ==
    ASSUME CalendarYears
    PROVE  PlatformSpec => []DueDatesSound
<1>1. Calendar!Spec => [](Calendar!TypeOK /\ Calendar!DueDatesSound)
  BY CalendarSound
<1>. QED  BY <1>1, CalendarInPlatform, PTL DEF PlatformSpec, Calendar!Spec, DueDatesSound

-----------------------------------------------------------------------------
(***************************************************************************)
(* The types of the parts.  The theorem of a part rests on the types of    *)
(* what it is about; here are the rest: what counts is within its bounds.  *)
(***************************************************************************)

TotalsBounds ==
    /\ MaxInvestments \in Nat /\ MaxChanges \in Nat /\ MaxShocks \in Nat
    /\ Principals \subseteq Nat

(* A balance that moves stays within what was lent.                        *)
LEMMA TotalsTypesStep ==
    ASSUME TotalsBounds, TotalsIInv, Totals!TypeOK, Totals!Next
    PROVE  Totals!TypeOK'
<1>1. /\ totalInvestments \in Seq(TotalsInvestment) /\ DOMAIN totalRequest = Slots
      /\ \A s \in Slots : totalRequest[s].alone \in BOOLEAN
      /\ totalRemoved \in BOOLEAN /\ totalStale \in BOOLEAN
  BY DEF TotalsIInv, TotalsShapes
<1>. DEFINE Balanced(docs) ==
                /\ Len(docs) <= MaxInvestments
                /\ \A i \in DOMAIN docs : docs[i].outstanding \in 0 .. docs[i].principal
<1>2. Balanced(totalInvestments) /\ totalChanges \in 0 .. MaxChanges
      /\ totalShocks \in 0 .. MaxShocks
  BY DEF Totals!TypeOK
<1>3. ASSUME NEW s \in Slots, Totals!Changed(s), Balanced(totalInvestments')
      PROVE  Totals!TypeOK'
  <2>1. totalChanges < MaxChanges /\ totalChanges' = totalChanges + 1
        /\ totalStale' \in BOOLEAN /\ UNCHANGED <<totalRemoved, totalShocks>>
    BY <1>3 DEF Totals!Changed
  <2>. QED  BY <1>1, <1>2, <1>3, <2>1 DEF TotalsBounds, Totals!TypeOK
<1>4. ASSUME UNCHANGED totalInvestments, totalRemoved' \in BOOLEAN, totalStale' \in BOOLEAN,
             totalChanges' = totalChanges, totalShocks' \in 0 .. MaxShocks
      PROVE  Totals!TypeOK'
  BY <1>2, <1>4 DEF Totals!TypeOK
<1>5. ASSUME NEW s \in Slots, Totals!CreateInvestment(s)
      PROVE  Totals!TypeOK'
  <2>1. PICK p \in Principals : totalInvestments' = Append(totalInvestments,
            [principal |-> p, outstanding |-> p, status |-> "open"])
    BY <1>5 DEF Totals!CreateInvestment
  <2>2. Len(totalInvestments) < MaxInvestments /\ p \in Nat
    BY <1>5 DEF Totals!CreateInvestment, TotalsBounds
  <2>. DEFINE new == [principal |-> p, outstanding |-> p, status |-> "open"]
  <2>3. new.outstanding \in 0 .. new.principal
    BY <2>2
  <2>. HIDE DEF new
  <2>4. Balanced(totalInvestments')
    BY <1>1, <1>2, <2>1, <2>2, <2>3 DEF TotalsBounds
  <2>. QED  BY <1>3, <1>5, <2>4 DEF Totals!CreateInvestment
<1>6. ASSUME NEW s \in Slots, Totals!ChangeBalance(s)
      PROVE  Totals!TypeOK'
  <2>1. PICK i \in DOMAIN totalInvestments, b \in 0 .. Totals!Max(Principals) :
            /\ b <= totalInvestments[i].principal
            /\ totalInvestments' = [totalInvestments EXCEPT ![i].outstanding = b]
    BY <1>6 DEF Totals!ChangeBalance
  <2>2. totalInvestments[i] \in TotalsInvestment /\ b \in Int /\ b >= 0
    BY <1>1, <2>1
  <2>. DEFINE new == [totalInvestments[i] EXCEPT !.outstanding = b]
  <2>3. new.outstanding = b /\ new.principal = totalInvestments[i].principal
    BY <2>2 DEF TotalsInvestment
  <2>4. totalInvestments[i].principal \in Nat
    BY <2>2 DEF TotalsInvestment, TotalsBounds
  <2>5. totalInvestments' = [totalInvestments EXCEPT ![i] = new]
    BY <2>1
  <2>. HIDE DEF new
  <2>6. Balanced(totalInvestments')
    BY <1>1, <1>2, <2>1, <2>2, <2>3, <2>4, <2>5
  <2>. QED  BY <1>3, <1>6, <2>6 DEF Totals!ChangeBalance
<1>7. ASSUME NEW s \in Slots, Totals!CloseInvestment(s)
      PROVE  Totals!TypeOK'
  <2>1. PICK i \in DOMAIN totalInvestments :
            totalInvestments' = [totalInvestments EXCEPT ![i].status = "closed"]
    BY <1>7 DEF Totals!CloseInvestment
  <2>2. totalInvestments[i] \in TotalsInvestment
    BY <1>1, <2>1
  <2>. DEFINE new == [totalInvestments[i] EXCEPT !.status = "closed"]
  <2>3. new.outstanding = totalInvestments[i].outstanding
        /\ new.principal = totalInvestments[i].principal
    BY <2>2 DEF TotalsInvestment
  <2>5. totalInvestments' = [totalInvestments EXCEPT ![i] = new]
    BY <2>1
  <2>. HIDE DEF new
  <2>6. Balanced(totalInvestments')
    BY <1>1, <1>2, <2>1, <2>3, <2>5
  <2>. QED  BY <1>3, <1>7, <2>6 DEF Totals!CloseInvestment
<1>8. ASSUME NEW s \in Slots, Totals!ReadInvestments(s)
      PROVE  Totals!TypeOK'
  BY <1>1, <1>2, <1>4, <1>8 DEF Totals!ReadInvestments
<1>9. ASSUME NEW s \in Slots, Totals!WriteTotals(s)
      PROVE  Totals!TypeOK'
  BY <1>1, <1>2, <1>4, <1>9 DEF Totals!WriteTotals
<1>10. ASSUME NEW s \in Slots, Totals!CutShort(s)
       PROVE  Totals!TypeOK'
  BY <1>1, <1>2, <1>4, <1>10 DEF Totals!CutShort, TotalsBounds
<1>11. ASSUME Totals!RemoveInvestor
       PROVE  Totals!TypeOK'
  BY <1>1, <1>2, <1>4, <1>11 DEF Totals!RemoveInvestor
<1>. QED
  BY <1>5, <1>6, <1>7, <1>8, <1>9, <1>10, <1>11 DEF Totals!Next

(* The balances of an investor's investments are within what was lent.     *)
LEMMA TotalsAreTyped ==
    ASSUME TotalsBounds, TotalsPage \in Nat
    PROVE  Totals!Spec => []Totals!TypeOK
<1>. DEFINE I == TotalsIInv /\ Totals!TypeOK
<1>1. Totals!Init => I
  <2>1. ASSUME Totals!Init
        PROVE  Totals!TypeOK
    <3>1. /\ totalInvestments = <<>> /\ totalChanges = 0 /\ totalShocks = 0
          /\ totalRemoved = FALSE /\ totalStale = FALSE
      BY <2>1, Zenon DEF Totals!Init
    <3>2. Len(totalInvestments) = 0 /\ \A i \in DOMAIN totalInvestments : FALSE
      BY <3>1
    <3>3. totalRemoved \in BOOLEAN /\ totalStale \in BOOLEAN
      BY <3>1
    <3>. QED  BY <3>1, <3>2, <3>3 DEF Totals!TypeOK, TotalsBounds
  <2>. QED  BY <2>1, TotalsInitKeeps
<1>2. I /\ [Totals!Next]_(Totals!vars) => I'
  <2>1. TotalsIInv /\ [Totals!Next]_(Totals!vars) => TotalsIInv'
    BY TotalsNextStep
  <2>2. Totals!TypeOK /\ UNCHANGED Totals!vars => Totals!TypeOK'
    BY DEF Totals!vars, Totals!TypeOK
  <2>. QED  BY <2>1, <2>2, TotalsTypesStep
<1>. QED  BY <1>1, <1>2, PTL DEF Totals!Spec

-----------------------------------------------------------------------------
(* What LibraryShapes leaves open of the types of the documents.           *)
LibraryMore ==
    docLeftover \subseteq 1 .. docUploaded /\ docRepointed \subseteq DOMAIN docDocuments

(* No step leaves over a file that was never uploaded, or writes the       *)
(* fileUrl of a document that does not exist.                              *)
LEMMA LibraryTypesStep ==
    ASSUME LibraryIInv, LibraryMore, Library!Next
    PROVE  LibraryMore'
<1>1. /\ docUploaded \in Nat /\ docDisk \subseteq 1 .. docUploaded
      /\ docDocuments \in Seq(LibraryDocuments)
      /\ \A d \in DOMAIN docDocuments : docDocuments[d].file \in docDisk \cup {Library!NoFile}
      /\ \A s \in Slots : docRequest[s].file \in docDisk \cup {Library!NoFile}
  BY DEF LibraryIInv, LibraryShapes, LibraryServed
<1>2. ASSUME docUploaded' \in {docUploaded, docUploaded + 1},
             DOMAIN docDocuments \subseteq DOMAIN docDocuments',
             docLeftover' \subseteq docLeftover \cup docDisk,
             docRepointed' \subseteq docRepointed \cup DOMAIN docDocuments'
      PROVE  LibraryMore'
  <2>1. 1 .. docUploaded \subseteq 1 .. docUploaded'
    BY <1>1, <1>2
  <2>. QED  BY <1>1, <1>2, <2>1 DEF LibraryMore
<1>3. /\ \A s \in Slots : Library!Uploaded(docRequest[s].file) \subseteq docDisk
      /\ \A d \in DOMAIN docDocuments : Library!Uploaded(docDocuments[d].file) \subseteq docDisk
  BY <1>1 DEF Library!Uploaded
<1>4. ASSUME NEW s \in Slots, Library!Upload(s)
      PROVE  LibraryMore'
  <2>1. docUploaded' = docUploaded + 1 /\ UNCHANGED <<docDocuments, docLeftover, docRepointed>>
    BY <1>4, Zenon DEF Library!Upload, Library!history
  <2>. QED  BY <1>2, <2>1
<1>5. ASSUME NEW s \in Slots, Library!PostWithoutFile(s) \/ Library!ValidateMagicBytes(s)
      PROVE  LibraryMore'
  <2>1. UNCHANGED <<docUploaded, docDocuments, docLeftover, docRepointed>>
    BY <1>5, Zenon DEF Library!PostWithoutFile, Library!ValidateMagicBytes, Library!history
  <2>. QED  BY <1>2, <2>1
<1>6. ASSUME NEW s \in Slots, Library!ValidateFields(s)
      PROVE  LibraryMore'
  <2>1. /\ UNCHANGED <<docUploaded, docDocuments, docRepointed>>
        /\ \/ UNCHANGED docLeftover
           \/ docLeftover' = docLeftover \cup Library!Uploaded(docRequest[s].file)
    BY <1>6, Zenon DEF Library!ValidateFields
  <2>. QED  BY <1>2, <1>3, <2>1
<1>7. ASSUME NEW s \in Slots, NEW kind, Library!CreateDocument(s, kind)
      PROVE  LibraryMore'
  <2>1. PICK file, new :
          /\ docDocuments' = Append(docDocuments, new)
          /\ docLeftover'
               = docLeftover \cup (Library!Uploaded(docRequest[s].file) \ {file})
          /\ docRepointed' \subseteq docRepointed \cup {Len(docDocuments) + 1}
    BY <1>7 DEF Library!CreateDocument
  <2>2. docUploaded' = docUploaded
    BY <1>7, Zenon DEF Library!CreateDocument
  <2>3. /\ DOMAIN docDocuments = 1 .. Len(docDocuments) /\ Len(docDocuments) \in Nat
        /\ DOMAIN docDocuments' = 1 .. Len(docDocuments) + 1
    BY <1>1, <2>1
  <2>4. DOMAIN docDocuments \subseteq DOMAIN docDocuments'
        /\ Len(docDocuments) + 1 \in DOMAIN docDocuments'
    BY <2>3
  <2>. QED  BY <1>2, <1>3, <2>1, <2>2, <2>4
<1>8. ASSUME NEW s \in Slots, NEW kind, Library!UpdateDocument(s, kind)
      PROVE  LibraryMore'
  <2>1. PICK d \in DOMAIN docDocuments :
          /\ Library!OneStep(s, d, kind)
          /\ DOMAIN docDocuments' = DOMAIN docDocuments
          /\ docLeftover' \subseteq docLeftover \cup Library!Uploaded(docDocuments[d].file)
          /\ docRepointed' \subseteq docRepointed \cup {d}
    BY <1>1, <1>8 DEF Library!UpdateDocument
  <2>2. docUploaded' = docUploaded
    BY <2>1 DEF Library!OneStep
  <2>. QED  BY <1>2, <1>3, <2>1, <2>2
<1>9. ASSUME NEW s \in Slots, NEW kind, Library!DeleteDocument(s, kind)
      PROVE  LibraryMore'
  <2>1. DOMAIN docDocuments' = DOMAIN docDocuments
        /\ UNCHANGED <<docUploaded, docLeftover, docRepointed>>
    BY <1>1, <1>9 DEF Library!DeleteDocument, Library!OneStep, Library!history
  <2>. QED  BY <1>2, <2>1
<1>10. ASSUME NEW s \in Slots, NEW d, NEW who, Library!StartDownload(s, d, who)
       PROVE  LibraryMore'
  <2>1. UNCHANGED <<docUploaded, docDocuments, docLeftover, docRepointed>>
    BY <1>10, Zenon DEF Library!StartDownload, Library!history
  <2>. QED  BY <1>2, <2>1
<1>11. ASSUME NEW s \in Slots, Library!SendFile(s)
       PROVE  LibraryMore'
  <2>1. UNCHANGED <<docUploaded, docDocuments, docLeftover, docRepointed>>
    BY <1>11, Zenon DEF Library!SendFile, Library!history
  <2>. QED  BY <1>2, <2>1
<1>12. ASSUME NEW s \in Slots, Library!CutShort(s)
       PROVE  LibraryMore'
  <2>1. /\ UNCHANGED <<docUploaded, docDocuments, docRepointed>>
        /\ docLeftover' \subseteq docLeftover \cup Library!Uploaded(docRequest[s].file)
    BY <1>12 DEF Library!CutShort
  <2>. QED  BY <1>2, <1>3, <2>1
<1>. QED
  BY <1>4, <1>5, <1>6, <1>7, <1>8, <1>9, <1>10, <1>11, <1>12
     DEF Library!Next, Library!CreateReport, Library!CreateContract, Library!UpdateReport,
         Library!UpdateContract, Library!DeleteReport, Library!DeleteContract,
         Library!DownloadReport, Library!DownloadContract

(* Files are named by what was uploaded, documents by what was created.    *)
LEMMA LibraryIsTyped ==
    ASSUME MaxFiles \in Nat
    PROVE  Library!Spec => []Library!TypeOK
<1>1. Library!Init => LibraryMore
  BY DEF Library!Init, LibraryMore
<1>2. LibraryIInv /\ LibraryMore /\ [Library!Next]_(Library!vars) => LibraryMore'
  <2>1. LibraryMore /\ UNCHANGED Library!vars => LibraryMore'
    BY DEF Library!vars, Library!history, LibraryMore
  <2>. QED  BY <2>1, LibraryTypesStep
<1>3. ASSUME LibraryIInv, LibraryMore
      PROVE  Library!TypeOK
  <2>1. LibraryShapes
    BY <1>3 DEF LibraryIInv
  <2>2. \A d \in DOMAIN docDocuments : docDocuments[d].assigned \subseteq Readers
    <3>1. \A d \in DOMAIN docDocuments : docDocuments[d] \in LibraryDocuments
      BY <2>1 DEF LibraryShapes
    <3>. QED  BY <3>1 DEF LibraryDocuments
  <2>3. docDisk \cup {Library!NoFile} \subseteq 0 .. docUploaded
    <3>1. docUploaded \in Nat /\ docDisk \subseteq 1 .. docUploaded
      BY <2>1 DEF LibraryShapes
    <3>. QED  BY <3>1 DEF Library!NoFile
  <2>4. /\ \A d \in DOMAIN docDocuments : docDocuments[d].file \in 0 .. docUploaded
        /\ \A s \in Slots : docRequest[s].file \in 0 .. docUploaded
    BY <1>3, <2>1, <2>3 DEF LibraryIInv, LibraryServed, LibraryShapes
  <2>. QED  BY <1>3, <2>1, <2>2, <2>4 DEF LibraryShapes, LibraryMore, Library!TypeOK
<1>. QED  BY <1>1, <1>2, <1>3, LibraryInitStep, LibraryNextStep, PTL DEF Library!Spec

-----------------------------------------------------------------------------
(* When one slot joins or leaves a set of slots the set grows or shrinks   *)
(* by one.                                                                 *)
LEMMA OneSlotMoves ==
    ASSUME NEW S, IsFiniteSet(S), NEW T, NEW s, S \ {s} = T \ {s}
    PROVE  /\ IsFiniteSet(T) /\ Cardinality(S) \in Nat /\ Cardinality(T) \in Nat
           /\ s \in S => Cardinality(S) >= 1
           /\ Cardinality(T) - Cardinality(S)
                = (IF s \in T THEN 1 ELSE 0) - (IF s \in S THEN 1 ELSE 0)
<1>. DEFINE R == S \ {s}
<1>1. /\ IsFiniteSet(R) /\ Cardinality(R) \in Nat /\ Cardinality(S) \in Nat
      /\ Cardinality(R) = IF s \in S THEN Cardinality(S) - 1 ELSE Cardinality(S)
  BY FS_RemoveElement, FS_CardinalityType
<1>2. T = R \/ T = R \cup {s}
  OBVIOUS
<1>3. IsFiniteSet(T) /\ Cardinality(T) = IF s \in T THEN Cardinality(R) + 1 ELSE Cardinality(R)
  <2>1. CASE s \in T
    <3>1. T = R \cup {s} /\ s \notin R
      BY <2>1
    <3>. HIDE DEF R
    <3>. QED  BY <1>1, <2>1, <3>1, FS_AddElement
  <2>2. CASE s \notin T
    <3>1. T = R
      BY <2>2
    <3>. QED  BY <1>1, <2>2, <3>1
  <2>. QED  BY <2>1, <2>2
<1>. HIDE DEF R
<1>. QED  BY <1>1, <1>3

(* The exports whose row in the history is still to come.                  *)
StatementWaiting == {s \in Slots : readRequest[s].op = "export" /\ readRequest[s].todo # {}}

(* Each row that was marked, each marking a reader met and each export has *)
(* a request of its own.                                                   *)
StatementMore ==
    /\ readTerm \in 1 .. MaxTerm /\ readShocks <= MaxShocks
    /\ readBegun \in 0 .. StatementRequests /\ StatementPaid <= readBegun
    /\ \A s \in Slots : readRequest[s].met <= readBegun
    /\ IsFiniteSet(StatementWaiting)
    /\ readExports + Cardinality(StatementWaiting) <= readBegun

StatementBounds ==
    /\ StatementPage \in Nat /\ MaxTerm \in Nat
    /\ StatementRequests \in Nat /\ MaxShocks \in Nat

(* The exports of the other slots stay.                                    *)
LEMMA StatementCounts ==
    ASSUME StatementMore, NEW s \in Slots,
           \A x \in Slots \ {s} : /\ readRequest'[x].op = readRequest[x].op
                                  /\ readRequest'[x].todo = readRequest[x].todo
    PROVE  /\ IsFiniteSet(StatementWaiting')
           /\ Cardinality(StatementWaiting) \in Nat /\ Cardinality(StatementWaiting') \in Nat
           /\ Cardinality(StatementWaiting') - Cardinality(StatementWaiting)
                = (IF readRequest'[s].op = "export" /\ readRequest'[s].todo # {} THEN 1 ELSE 0)
                  - (IF readRequest[s].op = "export" /\ readRequest[s].todo # {} THEN 1 ELSE 0)
<1>1. /\ StatementWaiting \ {s} = StatementWaiting' \ {s}
      /\ (s \in StatementWaiting <=> readRequest[s].op = "export" /\ readRequest[s].todo # {})
      /\ (s \in StatementWaiting' <=> readRequest'[s].op = "export" /\ readRequest'[s].todo # {})
  BY DEF StatementWaiting
<1>2. IsFiniteSet(StatementWaiting)
  BY DEF StatementMore
<1>3. /\ IsFiniteSet(StatementWaiting')
      /\ Cardinality(StatementWaiting) \in Nat /\ Cardinality(StatementWaiting') \in Nat
      /\ Cardinality(StatementWaiting') - Cardinality(StatementWaiting)
           = (IF s \in StatementWaiting' THEN 1 ELSE 0) - (IF s \in StatementWaiting THEN 1 ELSE 0)
  BY ONLY <1>1, <1>2, OneSlotMoves
<1>. QED  BY <1>1, <1>3

(* No step takes a counter past its bound.                                 *)
LEMMA StatementTypesStep ==
    ASSUME StatementBounds, StatementIInv, StatementMore, Reading!Next
    PROVE  StatementMore'
<1>1. /\ readRequest \in [Slots -> StatementRecords] /\ readExports \in Nat /\ readShocks \in Nat
      /\ \A s \in Slots : StatementRequest(readRequest[s]) /\ readRequest[s].met \in Nat
      /\ readTerm \in Nat /\ readPaid \subseteq 1 .. readTerm
  BY DEF StatementIInv, StatementShapes, StatementRecords
<1>2. /\ IsFiniteSet(readPaid) /\ StatementPaid \in Nat /\ StatementMarks \in Nat
      /\ readRepaid + StatementMarks <= StatementPaid /\ readRepaid \in Nat
  <2>1. StatementShapes /\ IsFiniteSet(Reading!Marking)
    BY DEF StatementIInv, StatementMarking
  <2>. QED  BY <2>1, StatementNumbers DEF StatementBounds, StatementIInv, StatementMarking,
                                          StatementShapes
<1>3. /\ readBegun \in Nat /\ readBegun <= StatementRequests /\ StatementRequests \in Nat
      /\ MaxShocks \in Nat /\ StatementPaid <= readBegun
  BY DEF StatementBounds, StatementMore
<1>. DEFINE Others(s) == \A x \in Slots \ {s} : /\ readRequest'[x].op = readRequest[x].op
                                                /\ readRequest'[x].todo = readRequest[x].todo
            Waits(s) == readRequest[s].op = "export" /\ readRequest[s].todo # {}
            One(b) == IF b THEN 1 ELSE 0
<1>4. ASSUME NEW s \in Slots, Others(s), readTerm' = readTerm,
             readShocks' \in Nat, readShocks' <= MaxShocks,
             readBegun' \in readBegun .. StatementRequests, StatementPaid' <= readBegun',
             \A x \in Slots : readRequest'[x].met <= readBegun',
             readExports' \in Nat,
             readExports' - readExports + One(Waits(s)') - One(Waits(s))
               <= readBegun' - readBegun
      PROVE  StatementMore'
  <2>1. /\ IsFiniteSet(StatementWaiting')
        /\ Cardinality(StatementWaiting) \in Nat /\ Cardinality(StatementWaiting') \in Nat
        /\ Cardinality(StatementWaiting') - Cardinality(StatementWaiting)
             = One(Waits(s)') - One(Waits(s))
    BY <1>4, StatementCounts
  <2>. HIDE DEF One, Waits
  <2>2. One(Waits(s)') \in {0, 1} /\ One(Waits(s)) \in {0, 1}
    BY DEF One
  <2>3. PICK a \in {0, 1}, b \in {0, 1}, c \in Nat, d \in Nat :
          /\ a = One(Waits(s)') /\ b = One(Waits(s))
          /\ c = Cardinality(StatementWaiting) /\ d = Cardinality(StatementWaiting')
    BY <2>1, <2>2
  <2>4. /\ d - c = a - b /\ readExports' - readExports + a - b <= readBegun' - readBegun
        /\ readExports + c <= readBegun
    BY <1>4, <2>1, <2>3 DEF StatementMore
  <2>5. readExports' + d <= readBegun'
    BY <1>1, <1>3, <1>4, <2>3, <2>4
  <2>6. readBegun' \in 0 .. StatementRequests
    BY <1>3, <1>4
  <2>. QED  BY <1>4, <2>1, <2>3, <2>5, <2>6 DEF StatementMore
<1>5. Reading!Idle.op = "idle" /\ Reading!Idle.met = 0
  BY DEF Reading!Idle
<1>6. ASSUME NEW s \in Slots, NEW r, readRequest' = [readRequest EXCEPT ![s] = r]
      PROVE  /\ Others(s) /\ readRequest'[s] = r
             /\ \A x \in Slots \ {s} : readRequest'[x] = readRequest[x]
  BY <1>1, <1>6
\* A request goes on or ends: it waits for the history only if it did before.
<1>7. ASSUME NEW s \in Slots, NEW r, readRequest' = [readRequest EXCEPT ![s] = r],
             r.met <= readBegun, r.op = "export" /\ r.todo # {} => Waits(s),
             UNCHANGED <<readTerm, readPaid, readExports, readBegun>>,
             readShocks' \in Nat, readShocks' <= MaxShocks
      PROVE  StatementMore'
  <2>1. /\ Others(s) /\ readRequest'[s] = r
        /\ \A x \in Slots \ {s} : readRequest'[x] = readRequest[x]
    BY <1>6, <1>7
  <2>2. StatementPaid' <= readBegun' /\ readBegun' \in readBegun .. StatementRequests
    BY <1>3, <1>7 DEF StatementPaid
  <2>3. \A x \in Slots : readRequest'[x].met <= readBegun'
    BY <1>7, <2>1 DEF StatementMore
  <2>4. readExports' - readExports + One(Waits(s)') - One(Waits(s)) <= readBegun' - readBegun
    <3>1. Waits(s)' => Waits(s)
      BY <1>7, <2>1
    <3>2. One(Waits(s)') - One(Waits(s)) <= 0
      BY <3>1
    <3>3. One(Waits(s)') \in {0, 1} /\ One(Waits(s)) \in {0, 1}
      OBVIOUS
    <3>. HIDE DEF One, Waits
    <3>. QED  BY <1>1, <1>3, <1>7, <3>2, <3>3
  <2>. HIDE DEF One, Waits, Others
  <2>. QED  BY <1>1, <1>4, <1>7, <2>1, <2>2, <2>3, <2>4
<1>8. readShocks <= MaxShocks /\ \A s \in Slots : readRequest[s].met <= readBegun
  BY DEF StatementMore
<1>9. ASSUME NEW s \in Slots, NEW op \in Reading!Reading, Reading!StartReading(s, op)
      PROVE  StatementMore'
  <2>. DEFINE r == [op |-> op, todo |-> Reading!After(op, "begin"), head |-> 0, rows |-> 0,
                    met |-> Reading!Cardinality(Reading!Marking)]
  <2>1. /\ readRequest[s].op = "idle" /\ readBegun < StatementRequests
        /\ readBegun' = readBegun + 1 /\ readRequest' = [readRequest EXCEPT ![s] = r]
        /\ UNCHANGED <<readTerm, readPaid, readExports, readShocks>>
    BY <1>9, Zenon DEF Reading!StartReading, Reading!Begin, Reading!Busy
  <2>2. r.met = StatementMarks
    BY StatementSameSize DEF StatementMarks
  <2>. HIDE DEF r
  <2>3. /\ Others(s) /\ readRequest'[s] = r
        /\ \A x \in Slots \ {s} : readRequest'[x] = readRequest[x]
    BY <1>6, <2>1
  <2>4. StatementPaid' <= readBegun' /\ readBegun' \in readBegun .. StatementRequests
    BY <1>2, <1>3, <2>1 DEF StatementPaid
  <2>5. \A x \in Slots : readRequest'[x].met <= readBegun'
    <3>1. r.met <= readBegun'
      BY <1>2, <1>3, <2>1, <2>2
    <3>2. \A x \in Slots : readRequest[x].met <= readBegun'
      BY <1>1, <1>3, <1>8, <2>1
    <3>. QED  BY <2>3, <3>1, <3>2
  <2>6. ~Waits(s)
    BY <2>1
  <2>7. readExports' - readExports + One(Waits(s)') - One(Waits(s)) <= readBegun' - readBegun
    <3>1. One(Waits(s)') \in {0, 1} /\ One(Waits(s)) = 0
      BY <2>6
    <3>. HIDE DEF One, Waits
    <3>. QED  BY <1>1, <1>3, <2>1, <3>1
  <2>. HIDE DEF One, Waits, Others
  <2>. QED  BY <1>1, <1>4, <1>8, <2>1, <2>3, <2>4, <2>5, <2>7
<1>10. ASSUME NEW s \in Slots, Reading!ReadInvestment(s) \/ Reading!ReadPayments(s)
       PROVE  StatementMore'
  <2>1. /\ readRequest[s].todo # {}
        /\ UNCHANGED <<readTerm, readPaid, readExports, readShocks, readBegun>>
    BY <1>10 DEF Reading!ReadInvestment, Reading!ReadPayments
  <2>2. PICK r : /\ r.op = readRequest[s].op /\ r.met = readRequest[s].met
                 /\ readRequest' = [readRequest EXCEPT ![s] = r]
    <3>1. \A h, k : LET q == readRequest[s] IN
              /\ [q EXCEPT !.head = h, !.todo = k].op = q.op
              /\ [q EXCEPT !.head = h, !.todo = k].met = q.met
              /\ [q EXCEPT !.rows = h, !.todo = k].op = q.op
              /\ [q EXCEPT !.rows = h, !.todo = k].met = q.met
      BY <1>1 DEF StatementRecords
    <3>. QED  BY <1>10, <3>1 DEF Reading!ReadInvestment, Reading!ReadPayments
  <2>3. r.op = "export" /\ r.todo # {} => Waits(s)
    BY <2>1, <2>2
  <2>4. r.met <= readBegun /\ readShocks' \in Nat /\ readShocks' <= MaxShocks
    BY <1>1, <1>8, <2>1, <2>2
  <2>. HIDE DEF Waits
  <2>. QED  BY <1>7, <2>1, <2>2, <2>3, <2>4
<1>11. ASSUME NEW s \in Slots, Reading!RecordExport(s)
       PROVE  StatementMore'
  <2>. DEFINE r == [readRequest[s] EXCEPT !.todo = @ \ {"history"}]
  <2>1. /\ "history" \in readRequest[s].todo /\ readExports' = readExports + 1
        /\ UNCHANGED <<readTerm, readPaid, readShocks, readBegun>>
        /\ readRequest' = [readRequest EXCEPT ![s] = r]
    BY <1>11 DEF Reading!RecordExport
  <2>2. readRequest[s].op = "export" /\ readRequest[s].todo = {"history"}
    BY <1>1, <2>1 DEF StatementRequest, StatementRecords, StatementTodos
  <2>3. r.met = readRequest[s].met /\ r.todo = {}
    BY <1>1, <2>2 DEF StatementRecords
  <2>. HIDE DEF r
  <2>4. /\ Others(s) /\ readRequest'[s] = r
        /\ \A x \in Slots \ {s} : readRequest'[x] = readRequest[x]
    BY <1>6, <2>1
  <2>5. StatementPaid' <= readBegun' /\ readBegun' \in readBegun .. StatementRequests
    BY <1>3, <2>1 DEF StatementPaid
  <2>6. \A x \in Slots : readRequest'[x].met <= readBegun'
    BY <1>8, <2>1, <2>3, <2>4
  <2>7. Waits(s) /\ ~Waits(s)'
    BY <2>2, <2>3, <2>4
  <2>8. readExports' - readExports + One(Waits(s)') - One(Waits(s)) <= readBegun' - readBegun
    <3>1. One(Waits(s)') = 0 /\ One(Waits(s)) = 1
      BY <2>7
    <3>. HIDE DEF One, Waits
    <3>. QED  BY <1>1, <1>3, <2>1, <3>1
  <2>. HIDE DEF One, Waits, Others
  <2>. QED  BY <1>1, <1>4, <1>8, <2>1, <2>4, <2>5, <2>6, <2>8
<1>12. ASSUME NEW s \in Slots, Reading!Answer(s) \/ Reading!CutShort(s)
                                \/ Reading!MarkInvestment(s)
       PROVE  StatementMore'
  <2>1. /\ readRequest' = [readRequest EXCEPT ![s] = Reading!Idle]
        /\ UNCHANGED <<readTerm, readPaid, readExports, readBegun>>
        /\ \/ readShocks' = readShocks
           \/ readShocks < MaxShocks /\ readShocks' = readShocks + 1
    BY <1>12 DEF Reading!Answer, Reading!CutShort, Reading!MarkInvestment, Reading!Done
  <2>2. readShocks' \in Nat /\ readShocks' <= MaxShocks
    BY <1>1, <1>3, <1>8, <2>1
  <2>3. Reading!Idle.met <= readBegun
    BY <1>3, <1>5
  <2>. HIDE DEF Waits
  <2>. QED  BY <1>5, <1>7, <2>1, <2>2, <2>3
<1>13. ASSUME NEW s \in Slots, Reading!MarkRow(s)
       PROVE  StatementMore'
  <2>1. PICK p \in (1 .. readTerm) \ readPaid :
          /\ readRequest[s].op = "idle" /\ readPaid' = readPaid \cup {p}
          /\ readBegun < StatementRequests /\ readBegun' = readBegun + 1
          /\ readRequest' = [x \in Slots |->
                 IF x = s THEN [op |-> "mark", todo |-> Reading!After("mark", "begin"),
                                head |-> 0, rows |-> 0, met |-> 0]
                 ELSE IF readRequest[x].op \in Reading!Reading
                      THEN [readRequest[x] EXCEPT !.met = @ + 1]
                      ELSE readRequest[x]]
          /\ UNCHANGED <<readTerm, readExports, readShocks>>
    BY <1>13 DEF Reading!MarkRow, Reading!Begin, Reading!Busy
  <2>2. \A x \in Slots : LET q == readRequest[x] IN
            /\ [q EXCEPT !.met = @ + 1].op = q.op /\ [q EXCEPT !.met = @ + 1].todo = q.todo
            /\ [q EXCEPT !.met = @ + 1].met = q.met + 1
    BY <1>1 DEF StatementRecords
  <2>3. /\ Others(s) /\ readRequest'[s].op = "mark" /\ readRequest'[s].met = 0
        /\ \A x \in Slots \ {s} : \/ readRequest'[x].met = readRequest[x].met
                                  \/ readRequest'[x].met = readRequest[x].met + 1
    BY <2>1, <2>2
  <2>4. readBegun' \in readBegun .. StatementRequests
    BY <1>3, <2>1
  <2>5. StatementPaid' <= readBegun'
    <3>1. Cardinality(readPaid') = Cardinality(readPaid) + 1
      BY <1>2, <2>1, FS_AddElement
    <3>. QED  BY <1>2, <1>3, <2>1, <3>1 DEF StatementPaid
  <2>6. \A x \in Slots : readRequest'[x].met <= readBegun'
    BY <1>1, <1>3, <1>8, <2>1, <2>3
  <2>7. readExports' - readExports + One(Waits(s)') - One(Waits(s)) <= readBegun' - readBegun
    <3>1. One(Waits(s)') = 0 /\ One(Waits(s)) = 0
      BY <2>1, <2>3
    <3>. HIDE DEF One, Waits
    <3>. QED  BY <1>1, <1>3, <2>1, <3>1
  <2>. HIDE DEF One, Waits, Others
  <2>. QED  BY <1>1, <1>4, <1>8, <2>1, <2>3, <2>4, <2>5, <2>6, <2>7
<1>14. {"export", "dashboard", "adminStats"} \subseteq Reading!Reading
  BY DEF Reading!Reading
<1>. HIDE DEF Others, Waits, One
<1>. QED
  BY <1>9, <1>10, <1>11, <1>12, <1>13, <1>14
     DEF Reading!Next, Reading!ExportInvestmentPayments, Reading!InvestorDashboard,
         Reading!AdminStats

(* What was repaid and exported is within what there is to repay and what  *)
(* was asked for.                                                          *)
LEMMA StatementsAreTyped ==
    ASSUME StatementBounds
    PROVE  Reading!Spec => []Reading!TypeOK
<1>1. ASSUME Reading!Init
      PROVE  StatementMore
  <2>1. /\ readTerm \in 1 .. MaxTerm /\ readPaid = {} /\ readExports = 0 /\ readBegun = 0
        /\ readShocks = 0 /\ readRequest = [s \in Slots |-> Reading!Idle]
    BY <1>1, Zenon DEF Reading!Init
  <2>2. StatementWaiting = {} /\ \A s \in Slots : readRequest[s].met = 0
    BY <2>1 DEF StatementWaiting, Reading!Idle
  <2>3. IsFiniteSet({}) /\ Cardinality({}) = 0
    BY FS_EmptySet
  <2>. QED  BY <2>1, <2>2, <2>3 DEF StatementMore, StatementBounds, StatementPaid
<1>2. StatementIInv /\ StatementMore /\ [Reading!Next]_(Reading!vars) => StatementMore'
  <2>1. StatementMore /\ UNCHANGED Reading!vars => StatementMore'
    BY DEF Reading!vars, StatementMore, StatementWaiting, StatementPaid
  <2>. QED  BY <2>1, StatementTypesStep
<1>3. ASSUME StatementIInv, StatementMore
      PROVE  Reading!TypeOK
  <2>1. /\ readTerm \in 1 .. MaxTerm /\ readPaid \subseteq 1 .. readTerm /\ readTerm \in Nat
        /\ readRepaid \in Nat /\ readExports \in Nat /\ readAnswers \in Nat /\ readShocks \in Nat
    BY <1>3 DEF StatementIInv, StatementShapes, StatementMore
  <2>2. StatementPaid <= readTerm /\ StatementPaid \in Nat /\ StatementMarks \in Nat
    <3>1. IsFiniteSet(1 .. readTerm) /\ Cardinality(1 .. readTerm) = readTerm
      BY <2>1, FS_Interval
    <3>2. StatementShapes /\ IsFiniteSet(Reading!Marking)
      BY <1>3 DEF StatementIInv, StatementMarking
    <3>. QED  BY <2>1, <3>1, <3>2, FS_Subset, StatementNumbers
                 DEF StatementPaid, StatementBounds
  <2>3. readRepaid \in 0 .. readTerm
    <3>1. readRepaid + StatementMarks <= StatementPaid
      BY <1>3 DEF StatementIInv, StatementMarking
    <3>. QED  BY <2>1, <2>2, <3>1
  <2>4. /\ IsFiniteSet(StatementUnsent) /\ IsFiniteSet(StatementWaiting)
        /\ readAnswers + Cardinality(StatementUnsent) <= readExports
        /\ readExports + Cardinality(StatementWaiting) <= readBegun
        /\ readBegun \in 0 .. StatementRequests /\ readShocks <= MaxShocks
        /\ StatementRequests \in Nat /\ MaxShocks \in Nat
    BY <1>3 DEF StatementIInv, StatementExports, StatementMore, StatementBounds
  <2>5. Cardinality(StatementUnsent) \in Nat /\ Cardinality(StatementWaiting) \in Nat
    BY <2>4, FS_CardinalityType
  <2>6. /\ readExports \in 0 .. StatementRequests /\ readAnswers \in 0 .. StatementRequests
        /\ readShocks \in 0 .. MaxShocks
    BY <2>1, <2>4, <2>5
  <2>7. \A s \in Slots : readRequest[s].met \in 0 .. StatementRequests
    <3>1. \A s \in Slots : readRequest[s].met \in Nat
      BY <1>3 DEF StatementIInv, StatementShapes, StatementRecords
    <3>2. \A s \in Slots : readRequest[s].met <= readBegun
      BY <1>3 DEF StatementMore
    <3>. QED  BY <2>4, <3>1, <3>2
  <2>. QED  BY <2>1, <2>3, <2>4, <2>6, <2>7 DEF Reading!TypeOK
<1>4. StatementPage \in Nat /\ MaxTerm \in Nat
  BY DEF StatementBounds
<1>. QED
  BY <1>1, <1>2, <1>3, <1>4, StatementInitStep, StatementNextStep, PTL DEF Reading!Spec

-----------------------------------------------------------------------------
WalkBounds ==
    /\ Asked \subseteq Nat \ {0} /\ ListPage \in Nat \ {0}
    /\ AtStart \in Nat /\ MaxListWrites \in Nat /\ Keys \subseteq Int

(* What WalkShapes leaves open of the types of the lists.                  *)
WalkMore ==
    /\ listWritten \in 0 .. MaxListWrites /\ listCreated <= AtStart + listWritten
    /\ DOMAIN listDocuments \subseteq 1 .. listCreated
    /\ listLimit \in 1 .. ListPage /\ listTotal <= AtStart + MaxListWrites
    /\ Len(listData) <= listLimit

(* A page is within its limit, a count within the number of documents.     *)
LEMMA WalkTypesStep ==
    ASSUME WalkBounds, WalkIInv, WalkMore, Walk!Next
    PROVE  WalkMore'
<1>1. /\ WalkCollection(listDocuments) /\ listCreated \in Nat /\ listLimit \in Nat
      /\ listPage \in Nat /\ listTotal \in Nat /\ (listTodo # {} => listPage > 0)
  BY DEF WalkIInv, WalkShapes
<1>2. /\ AtStart \in Nat /\ MaxListWrites \in Nat /\ Keys \subseteq Int
      /\ listWritten \in 0 .. MaxListWrites /\ listCreated <= AtStart + listWritten
      /\ DOMAIN listDocuments \subseteq 1 .. listCreated
  BY DEF WalkBounds, WalkMore
<1>3. CASE Walk!Ask
  <2>1. UNCHANGED <<listDocuments, listCreated, listWritten, listLimit, listTotal, listData>>
    BY <1>3, Zenon DEF Walk!Ask, Walk!answer
  <2>. QED  BY <2>1 DEF WalkMore
<1>4. CASE Walk!Find
  <2>1. /\ "find" \in listTodo
        /\ UNCHANGED <<listDocuments, listCreated, listWritten, listLimit, listTotal>>
    BY <1>4, Zenon DEF Walk!Find
  <2>2. PICK v \in Walk!Orders(listDocuments) : listData' = Walk!Window(v)
    BY <1>4 DEF Walk!Find
  <2>3. v \in Seq(Nat) /\ listPage > 0
    BY <1>1, <1>2, <2>1, WalkPosition
  <2>. DEFINE r == (listPage - 1) * listLimit
              q == listPage * listLimit
  <2>4. r \in Nat /\ q = r + listLimit
    BY <1>1, <2>3, WalkPageEnds
  <2>5. listData' \in Seq(Nat) /\ \A i \in 1 .. Len(listData') : r + i <= q
    BY <1>1, <2>2, <2>3, WalkWindow
  <2>. HIDE DEF r, q
  <2>6. Len(listData') <= listLimit
    <3>1. PICK n \in Nat : n = Len(listData')
      BY <2>5
    <3>2. n = 0 \/ r + n <= q
      BY <2>5, <3>1
    <3>. QED  BY <1>1, <2>4, <3>1, <3>2
  <2>. QED  BY <2>1, <2>6 DEF WalkMore
<1>5. CASE Walk!CountDocuments
  <2>1. /\ listTotal' = WalkSize(listDocuments)
        /\ UNCHANGED <<listDocuments, listCreated, listWritten, listLimit, listData>>
    BY <1>5, WalkSameSize, Zenon DEF Walk!CountDocuments, WalkSize
  <2>2. IsFiniteSet(1 .. listCreated) /\ Cardinality(1 .. listCreated) = listCreated
    BY <1>1, FS_Interval
  <2>3. Walk!Visible(listDocuments) \subseteq 1 .. listCreated
    BY <1>2 DEF Walk!Visible
  <2>4. WalkSize(listDocuments) <= listCreated /\ WalkSize(listDocuments) \in Nat
    BY <1>1, <2>2, <2>3, FS_Subset, WalkSizes DEF WalkSize
  <2>5. listTotal' <= AtStart + MaxListWrites
    BY <1>1, <1>2, <2>1, <2>4
  <2>. QED  BY <2>1, <2>5 DEF WalkMore
<1>6. CASE Walk!Answer
  <2>1. /\ listData' = <<>> /\ listTotal' = 0
        /\ UNCHANGED <<listDocuments, listCreated, listWritten, listLimit>>
    BY <1>6, Zenon DEF Walk!Answer
  <2>2. Len(listData') = 0
    BY <2>1
  <2>. QED  BY <1>1, <1>2, <2>1, <2>2 DEF WalkMore
<1>7. ASSUME NEW docs, Walk!Become(docs), listCreated' \in Nat,
             listCreated' \in {listCreated, listCreated + 1},
             DOMAIN docs \subseteq 1 .. listCreated'
      PROVE  WalkMore'
  <2>1. /\ listWritten < MaxListWrites /\ listWritten' = listWritten + 1
        /\ listDocuments' = docs /\ UNCHANGED <<listLimit, listTotal, listData>>
    BY <1>7, Zenon DEF Walk!Become, Walk!answer
  <2>2. listWritten' \in 0 .. MaxListWrites /\ listCreated' <= AtStart + listWritten'
    BY <1>1, <1>2, <1>7, <2>1
  <2>. QED  BY <1>7, <2>1, <2>2 DEF WalkMore
<1>8. CASE Walk!CreateOne
  <2>1. PICK docs : /\ Walk!Become(docs)
                    /\ DOMAIN docs = DOMAIN listDocuments \cup {listCreated + 1}
    BY <1>8 DEF Walk!CreateOne
  <2>2. listCreated' = listCreated + 1
    BY <1>8 DEF Walk!CreateOne
  <2>3. listCreated' \in Nat /\ DOMAIN docs \subseteq 1 .. listCreated'
    BY <1>1, <1>2, <2>1, <2>2
  <2>. QED  BY <1>7, <2>1, <2>2, <2>3
<1>9. CASE Walk!RemoveOne \/ Walk!ChangeOne
  <2>1. PICK docs : Walk!Become(docs) /\ DOMAIN docs \subseteq DOMAIN listDocuments
    <3>1. CASE Walk!RemoveOne
      <4>1. PICK r : Walk!Become([d \in DOMAIN listDocuments \ {r} |-> listDocuments[d]])
        BY <3>1 DEF Walk!RemoveOne
      <4>2. DOMAIN [d \in DOMAIN listDocuments \ {r} |-> listDocuments[d]]
              \subseteq DOMAIN listDocuments
        OBVIOUS
      <4>. QED  BY <4>1, <4>2
    <3>2. CASE Walk!ChangeOne
      <4>1. PICK c, new : Walk!Become([d \in DOMAIN listDocuments |->
                                           IF d = c THEN new ELSE listDocuments[d]])
        BY <3>2 DEF Walk!ChangeOne
      <4>2. DOMAIN [d \in DOMAIN listDocuments |-> IF d = c THEN new ELSE listDocuments[d]]
              \subseteq DOMAIN listDocuments
        OBVIOUS
      <4>. QED  BY <4>1, <4>2
    <3>. QED  BY <1>9, <3>1, <3>2
  <2>2. listCreated' = listCreated
    BY <1>9 DEF Walk!RemoveOne, Walk!ChangeOne
  <2>3. listCreated' \in Nat /\ DOMAIN docs \subseteq 1 .. listCreated'
    BY <1>1, <1>2, <2>1, <2>2
  <2>. QED  BY <1>7, <2>1, <2>2, <2>3
<1>. QED  BY <1>3, <1>4, <1>5, <1>6, <1>8, <1>9 DEF Walk!Next

(* What a client reads is within the limits of a page and of the list.     *)
LEMMA WalksAreTyped ==
    ASSUME WalkBounds
    PROVE  Walk!Spec => []Walk!TypeOK
<1>1. ASSUME Walk!Init
      PROVE  WalkMore
  <2>1. PICK n \in 0 .. AtStart :
            listDocuments \in [1 .. n -> Walk!Documents] /\ listCreated = n
    BY <1>1 DEF Walk!Init
  <2>2. PICK asked \in Asked : listLimit = Walk!LimitOf(asked)
    BY <1>1 DEF Walk!Init
  <2>3. listLimit \in 1 .. ListPage
    BY <2>2 DEF Walk!LimitOf, WalkBounds
  <2>4. listWritten = 0 /\ listTotal = 0 /\ listData = <<>>
    BY <1>1, Zenon DEF Walk!Init
  <2>5. Len(listData) = 0 /\ n \in Nat /\ n <= AtStart /\ AtStart \in Nat /\ MaxListWrites \in Nat
    BY <2>1, <2>4 DEF WalkBounds
  <2>6. DOMAIN listDocuments \subseteq 1 .. listCreated
    BY <2>1
  <2>. QED  BY <2>1, <2>3, <2>4, <2>5, <2>6 DEF WalkMore
<1>2. WalkIInv /\ WalkMore /\ [Walk!Next]_(Walk!vars) => WalkMore'
  <2>1. WalkMore /\ UNCHANGED Walk!vars => WalkMore'
    BY DEF Walk!vars, Walk!answer, WalkMore
  <2>. QED  BY <2>1, WalkTypesStep
<1>3. ASSUME WalkIInv, WalkMore
      PROVE  Walk!TypeOK
  <2>1. /\ listCreated \in Nat /\ listTotal \in Nat /\ listPage \in Nat
        /\ listTodo \subseteq {"find", "countDocuments", "answer"}
    BY <1>3 DEF WalkIInv, WalkShapes
  <2>2. /\ AtStart \in Nat /\ MaxListWrites \in Nat /\ listWritten \in 0 .. MaxListWrites
        /\ listCreated <= AtStart + listWritten /\ listTotal <= AtStart + MaxListWrites
    BY <1>3 DEF WalkMore, WalkBounds
  <2>3. /\ listCreated \in 0 .. AtStart + MaxListWrites
        /\ listTotal \in 0 .. AtStart + MaxListWrites
    BY <2>1, <2>2
  <2>. QED  BY <1>3, <2>1, <2>2, <2>3 DEF WalkMore, Walk!TypeOK
<1>4. Asked \subseteq Nat /\ ListPage \in Nat /\ AtStart \in Nat /\ Keys \subseteq Int
  BY DEF WalkBounds
<1>. QED
  BY <1>1, <1>2, <1>3, <1>4, WalkInitStep, WalkNextStep, PTL DEF Walk!Spec

-----------------------------------------------------------------------------
CodeBounds ==
    /\ MaxAttempts \in Nat /\ MaxCodes \in Nat /\ CodeRequests \in Nat /\ MaxShocks \in Nat

(* The requests in flight: each may still issue one reset token.           *)
CodeBusy == {s \in Slots : codeRequest[s].op # "idle"}

(* An entry is of a code that was generated and counts no more attempts    *)
(* than are allowed.                                                       *)
CodeWithin(e, g) == e.otp \in 0 .. g /\ e.attempts \in 0 .. MaxAttempts

(* What CodeShapes leaves open of the types of the recovery.               *)
CodeMore ==
    /\ codeShocks \in 0 .. MaxShocks /\ codeGenerated <= MaxCodes
    /\ CodeWithin(codeInRedis, codeGenerated) /\ CodeWithin(codeInMemory, codeGenerated)
    /\ \A s \in Slots : CodeWithin(codeRequest[s].entry, codeGenerated)
    /\ codePointer \in 0 .. codeExchanged
    /\ IsFiniteSet(CodeBusy) /\ codeBegun \in 0 .. CodeRequests
    /\ codeExchanged + Cardinality(CodeBusy) <= codeBegun

(* An attempt is counted while one is left, and a request that issues a    *)
(* token ends.                                                             *)
LEMMA CodeTypesStep ==
    ASSUME CodeBounds, CodeIInv, CodeMore, Recovery!Next
    PROVE  CodeMore'
<1>. DEFINE Within(e) == CodeWithin(e, codeGenerated')
            One(op) == IF op # "idle" THEN 1 ELSE 0
<1>1. /\ codeGenerated \in Nat /\ codeExchanged \in Nat /\ DOMAIN codeRequest = Slots
      /\ codeInRedis \in CodeEntries /\ codeInMemory \in CodeEntries
      /\ \A s \in Slots : /\ codeRequest[s] \in CodeRecords
                          /\ codeRequest[s].op = "idle" => codeRequest[s].at = "idle"
  BY DEF CodeIInv, CodeShapes, CodeRequestOK
<1>2. /\ MaxAttempts \in Nat /\ MaxCodes \in Nat /\ CodeRequests \in Nat /\ MaxShocks \in Nat
  BY DEF CodeBounds
<1>3. CodeWithin(Recovery!NoEntry, codeGenerated) /\ Recovery!Idle.entry = Recovery!NoEntry
      /\ Recovery!Idle.op = "idle"
  BY <1>1, <1>2 DEF CodeWithin, Recovery!NoEntry, Recovery!Idle, Recovery!None
<1>4. ASSUME NEW s \in Slots, NEW r, codeRequest' = [codeRequest EXCEPT ![s] = r],
             codeGenerated' \in codeGenerated .. MaxCodes, Within(r.entry),
             Within(codeInRedis'), Within(codeInMemory'),
             codeExchanged' \in Nat, codePointer' \in 0 .. codeExchanged',
             codeBegun' \in 0 .. CodeRequests, codeShocks' = codeShocks,
             codeExchanged' - codeExchanged + One(r.op) - One(codeRequest[s].op)
               <= codeBegun' - codeBegun
      PROVE  CodeMore'
  <2>1. codeRequest'[s] = r /\ \A x \in Slots \ {s} : codeRequest'[x] = codeRequest[x]
    BY <1>1, <1>4
  <2>2. \A x \in Slots : Within(codeRequest'[x].entry)
    <3>1. \A e : CodeWithin(e, codeGenerated) => Within(e)
      BY <1>1, <1>2, <1>4 DEF CodeWithin
    <3>2. \A x \in Slots : CodeWithin(codeRequest[x].entry, codeGenerated)
      BY DEF CodeMore
    <3>. QED  BY <1>4, <2>1, <3>1, <3>2
  <2>3. /\ CodeBusy \ {s} = CodeBusy' \ {s}
        /\ (s \in CodeBusy <=> codeRequest[s].op # "idle") /\ (s \in CodeBusy' <=> r.op # "idle")
    BY <2>1 DEF CodeBusy
  <2>4. IsFiniteSet(CodeBusy)
    BY DEF CodeMore
  <2>5. /\ IsFiniteSet(CodeBusy') /\ Cardinality(CodeBusy) \in Nat /\ Cardinality(CodeBusy') \in Nat
        /\ Cardinality(CodeBusy') - Cardinality(CodeBusy)
             = (IF s \in CodeBusy' THEN 1 ELSE 0) - (IF s \in CodeBusy THEN 1 ELSE 0)
    BY ONLY <2>3, <2>4, OneSlotMoves
  <2>6. PICK c \in Nat, d \in Nat : c = Cardinality(CodeBusy) /\ d = Cardinality(CodeBusy')
    BY <2>5
  <2>7. codeExchanged' - codeExchanged + (d - c) <= codeBegun' - codeBegun
    <3>1. /\ One(r.op) \in {0, 1} /\ One(codeRequest[s].op) \in {0, 1}
          /\ d - c = One(r.op) - One(codeRequest[s].op)
      BY <2>3, <2>5, <2>6
    <3>2. codeExchanged \in Int /\ codeExchanged' \in Int
      BY <1>1, <1>4
    <3>. HIDE DEF One
    <3>. QED  BY <1>4, <3>1, <3>2
  <2>8. codeExchanged' + Cardinality(CodeBusy') <= codeBegun'
    <3>1. codeExchanged \in Int /\ codeExchanged' \in Int /\ codeBegun' \in Int
      BY <1>1, <1>2, <1>4
    <3>2. codeBegun \in Int /\ codeExchanged + c <= codeBegun
      BY <1>2, <2>6 DEF CodeMore
    <3>3. codeExchanged' + d <= codeBegun'
      BY <2>6, <2>7, <3>1, <3>2
    <3>. QED  BY <2>6, <3>3
  <2>. QED  BY <1>1, <1>2, <1>4, <2>2, <2>5, <2>8 DEF CodeMore
\* A step that issues nothing.
<1>5. ASSUME NEW s \in Slots, NEW r, codeRequest' = [codeRequest EXCEPT ![s] = r],
             r.op = codeRequest[s].op \/ r.op = "idle", CodeWithin(r.entry, codeGenerated),
             UNCHANGED <<codeShocks, codeGenerated, codeExchanged, codeBegun>>,
             codePointer' = codePointer \/ codePointer' = 0,
             CodeWithin(codeInRedis', codeGenerated), CodeWithin(codeInMemory', codeGenerated)
      PROVE  CodeMore'
  <2>1. codeGenerated' \in codeGenerated .. MaxCodes /\ codePointer' \in 0 .. codeExchanged'
        /\ codeBegun' \in 0 .. CodeRequests /\ codeExchanged' \in Nat
    BY <1>1, <1>2, <1>5 DEF CodeMore
  <2>2. /\ codeExchanged' - codeExchanged = 0 /\ codeBegun' - codeBegun = 0
        /\ codeExchanged' - codeExchanged + One(r.op) - One(codeRequest[s].op)
             <= codeBegun' - codeBegun
    <3>1. codeExchanged' - codeExchanged = 0 /\ codeBegun' - codeBegun = 0
      BY <1>1, <1>2, <1>5, <2>1
    <3>2. One(r.op) - One(codeRequest[s].op) <= 0
          /\ One(r.op) \in {0, 1} /\ One(codeRequest[s].op) \in {0, 1}
      BY <1>5
    <3>. HIDE DEF One
    <3>. QED  BY <3>1, <3>2
  <2>. HIDE DEF One
  <2>. QED  BY <1>4, <1>5, <2>1, <2>2
<1>6. ASSUME NEW s \in Slots, Recovery!Done(s) \/ \E place : Recovery!Goto(s, place)
      PROVE  \E r : /\ codeRequest' = [codeRequest EXCEPT ![s] = r]
                    /\ r.op = codeRequest[s].op \/ r.op = "idle"
                    /\ CodeWithin(r.entry, codeGenerated)
  <2>1. CASE Recovery!Done(s)
    BY <1>3, <2>1 DEF Recovery!Done
  <2>2. ASSUME NEW place, Recovery!Goto(s, place)
        PROVE  \E r : /\ codeRequest' = [codeRequest EXCEPT ![s] = r]
                      /\ r.op = codeRequest[s].op \/ r.op = "idle"
                      /\ CodeWithin(r.entry, codeGenerated)
    <3>. DEFINE r == [codeRequest[s] EXCEPT !.at = place]
    <3>1. r.op = codeRequest[s].op /\ r.entry = codeRequest[s].entry
      BY <1>1 DEF CodeRecords
    <3>2. codeRequest' = [codeRequest EXCEPT ![s] = r]
      BY <1>1, <2>2 DEF Recovery!Goto
    <3>3. CodeWithin(codeRequest[s].entry, codeGenerated)
      BY DEF CodeMore
    <3>. HIDE DEF r
    <3>. QED  BY <3>1, <3>2, <3>3
  <2>. QED  BY <1>6, <2>1, <2>2
<1>7. ASSUME NEW s \in Slots, Recovery!Done(s) \/ \E place : Recovery!Goto(s, place),
             UNCHANGED <<codeShocks, codeGenerated, codeExchanged, codeBegun>>,
             codePointer' = codePointer \/ codePointer' = 0,
             CodeWithin(codeInRedis', codeGenerated), CodeWithin(codeInMemory', codeGenerated)
      PROVE  CodeMore'
  BY <1>5, <1>6, <1>7
<1>8. /\ CodeWithin(codeInRedis, codeGenerated) /\ CodeWithin(codeInMemory, codeGenerated)
      /\ \A s \in Slots : CodeWithin(codeRequest[s].entry, codeGenerated)
  BY DEF CodeMore
<1>9. ASSUME NEW s \in Slots, NEW r, Recovery!Begin(s, r), r.entry = Recovery!NoEntry,
             UNCHANGED <<codeShocks, codeGenerated, codeExchanged, codePointer, codeInRedis,
                         codeInMemory>>
      PROVE  CodeMore'
  <2>1. /\ codeRequest[s].op = "idle" /\ codeBegun < CodeRequests /\ codeBegun' = codeBegun + 1
        /\ codeRequest' = [codeRequest EXCEPT ![s] = r]
    BY <1>9 DEF Recovery!Begin, Recovery!Busy
  <2>2. /\ codeGenerated' \in codeGenerated .. MaxCodes /\ codePointer' \in 0 .. codeExchanged'
        /\ codeBegun' \in 0 .. CodeRequests /\ codeExchanged' \in Nat
        /\ codeBegun' - codeBegun = 1 /\ codeExchanged' - codeExchanged = 0
    BY <1>1, <1>2, <1>9, <2>1 DEF CodeMore
  <2>3. codeExchanged' - codeExchanged + One(r.op) - One(codeRequest[s].op)
          <= codeBegun' - codeBegun
    BY <2>1, <2>2
  <2>. HIDE DEF One
  <2>. QED  BY <1>3, <1>4, <1>8, <1>9, <2>1, <2>2, <2>3
<1>10. ASSUME NEW s \in Slots,
              Recovery!StartForgot(s) \/ Recovery!StartVerify(s) \/ Recovery!StartReset(s)
       PROVE  CodeMore'
  <2>1. UNCHANGED <<codeShocks, codeGenerated, codeExchanged, codePointer, codeInRedis,
                    codeInMemory>>
    BY <1>10, Zenon DEF Recovery!StartForgot, Recovery!StartVerify, Recovery!StartReset,
       Recovery!connection, Recovery!codes, Recovery!tokens
  <2>2. PICK r : Recovery!Begin(s, r) /\ r.entry = Recovery!NoEntry
    <3>1. CASE Recovery!StartForgot(s)
      <4>. DEFINE r == [Recovery!Idle EXCEPT !.op = "forgot", !.at = "generate"]
      <4>1. Recovery!Begin(s, r) /\ r.entry = Recovery!NoEntry
        BY <3>1 DEF Recovery!StartForgot, Recovery!Idle
      <4>. HIDE DEF r
      <4>. QED  BY <4>1
    <3>2. CASE Recovery!StartVerify(s)
      <4>1. PICK guess, op : Recovery!Begin(s,
                [Recovery!Idle EXCEPT !.op = op, !.at = "read", !.guess = guess])
        BY <3>2, Zenon DEF Recovery!StartVerify
      <4>. DEFINE r == [Recovery!Idle EXCEPT !.op = op, !.at = "read", !.guess = guess]
      <4>2. Recovery!Begin(s, r) /\ r.entry = Recovery!NoEntry
        BY <4>1 DEF Recovery!Idle
      <4>. HIDE DEF r
      <4>. QED  BY <4>2
    <3>3. CASE Recovery!StartReset(s)
      <4>1. PICK t : Recovery!Begin(s,
                [Recovery!Idle EXCEPT !.op = "reset", !.at = "readToken", !.token = t])
        BY <3>3, Zenon DEF Recovery!StartReset
      <4>. DEFINE r == [Recovery!Idle EXCEPT !.op = "reset", !.at = "readToken", !.token = t]
      <4>2. Recovery!Begin(s, r) /\ r.entry = Recovery!NoEntry
        BY <4>1 DEF Recovery!Idle
      <4>. HIDE DEF r
      <4>. QED  BY <4>2
    <3>. QED  BY <1>10, <3>1, <3>2, <3>3
  <2>. QED  BY <1>9, <2>1, <2>2
<1>11. ASSUME NEW s \in Slots, Recovery!Generate(s)
       PROVE  CodeMore'
  <2>1. /\ codeGenerated < MaxCodes /\ codeGenerated' = codeGenerated + 1
        /\ codeRequest' = [codeRequest EXCEPT ![s] = Recovery!Idle]
        /\ UNCHANGED <<codeShocks, codeExchanged, codePointer, codeBegun>>
        /\ \A e \in {codeInRedis', codeInMemory'} :
               e \in {codeInRedis, codeInMemory, Recovery!Entry(codeGenerated + 1, 0)}
    BY <1>11 DEF Recovery!Generate, Recovery!Done, Recovery!connection, Recovery!tokens
  <2>2. Within(Recovery!Entry(codeGenerated + 1, 0)) /\ Within(codeInRedis) /\ Within(codeInMemory)
        /\ Within(Recovery!Idle.entry)
    BY <1>1, <1>2, <1>3, <1>8, <2>1 DEF CodeWithin, Recovery!Entry
  <2>3. Within(codeInRedis') /\ Within(codeInMemory')
    BY <2>1, <2>2
  <2>4. /\ codeGenerated' \in codeGenerated .. MaxCodes /\ codePointer' \in 0 .. codeExchanged'
        /\ codeBegun' \in 0 .. CodeRequests /\ codeExchanged' \in Nat
        /\ codeBegun' - codeBegun = 0 /\ codeExchanged' - codeExchanged = 0
    BY <1>1, <1>2, <2>1 DEF CodeMore
  <2>5. codeExchanged' - codeExchanged + One(Recovery!Idle.op) - One(codeRequest[s].op)
          <= codeBegun' - codeBegun
    BY <1>3, <2>4
  <2>. HIDE DEF One, Within
  <2>. QED  BY <1>4, <2>1, <2>2, <2>3, <2>4, <2>5
<1>12. ASSUME NEW s \in Slots, Recovery!StoreResetToken(s)
       PROVE  CodeMore'
  <2>1. /\ codeRequest[s].at = "storeToken" /\ codeExchanged' = codeExchanged + 1
        /\ codePointer' \in {codeExchanged + 1, codePointer}
        /\ codeRequest' = [codeRequest EXCEPT ![s] = Recovery!Idle]
        /\ UNCHANGED <<codeShocks, codeGenerated, codeBegun, codeInRedis, codeInMemory>>
    BY <1>12 DEF Recovery!StoreResetToken, Recovery!Done, Recovery!At, Recovery!connection,
       Recovery!codes
  <2>2. /\ codeGenerated' \in codeGenerated .. MaxCodes /\ codePointer' \in 0 .. codeExchanged'
        /\ codeBegun' \in 0 .. CodeRequests /\ codeExchanged' \in Nat
        /\ codeBegun' - codeBegun = 0 /\ codeExchanged' - codeExchanged = 1
    BY <1>1, <1>2, <2>1 DEF CodeMore
  <2>3. codeRequest[s].op # "idle"
    BY <1>1, <2>1
  <2>4. codeExchanged' - codeExchanged + One(Recovery!Idle.op) - One(codeRequest[s].op)
          <= codeBegun' - codeBegun
    BY <1>3, <2>2, <2>3
  <2>. HIDE DEF One
  <2>. QED  BY <1>3, <1>4, <1>8, <2>1, <2>2, <2>4
<1>13. ASSUME NEW s \in Slots, Recovery!WrongInMemory(s)
       PROVE  CodeMore'
  <2>1. /\ codeInMemory.attempts < MaxAttempts
        /\ codeInMemory' = [codeInMemory EXCEPT !.attempts = codeInMemory.attempts + 1]
        /\ Recovery!Done(s)
        /\ UNCHANGED <<codeShocks, codeGenerated, codeExchanged, codePointer, codeBegun,
                       codeInRedis>>
    BY <1>13 DEF Recovery!WrongInMemory, Recovery!Found, Recovery!FromMemory,
       Recovery!connection, Recovery!tokens
  <2>2. CodeWithin(codeInMemory', codeGenerated)
    BY <1>1, <1>2, <1>8, <2>1 DEF CodeWithin, CodeEntries
  <2>. QED  BY <1>7, <1>8, <2>1, <2>2
<1>14. ASSUME NEW s \in Slots, Recovery!WrongInRedis(s)
       PROVE  CodeMore'
  <2>. DEFINE e == [codeInRedis EXCEPT !.attempts = codeInRedis.attempts + 1]
              r == [codeRequest[s] EXCEPT !.at = "writeBack", !.entry = e]
  <2>1. /\ codeInRedis.attempts < MaxAttempts
        /\ codeRequest' = [codeRequest EXCEPT ![s].at = "writeBack", ![s].entry = e]
        /\ UNCHANGED <<codeShocks, codeGenerated, codeExchanged, codePointer, codeBegun,
                       codeInRedis, codeInMemory>>
    BY <1>14 DEF Recovery!WrongInRedis, Recovery!Found, Recovery!FromMemory,
       Recovery!connection, Recovery!tokens, Recovery!codes
  <2>2. CodeWithin(e, codeGenerated)
    BY <1>1, <1>2, <1>8, <2>1 DEF CodeWithin, CodeEntries
  <2>. HIDE DEF e
  <2>3. r.op = codeRequest[s].op /\ r.entry = e
    BY <1>1 DEF CodeRecords
  <2>4. codeRequest' = [codeRequest EXCEPT ![s] = r]
    BY <1>1, <2>1
  <2>. HIDE DEF r
  <2>. QED  BY <1>5, <1>8, <2>1, <2>2, <2>3, <2>4
<1>15. ASSUME NEW s \in Slots,
              \/ Recovery!NotFound(s) \/ Recovery!TooMany(s) \/ Recovery!WriteBack(s)
              \/ Recovery!RightCode(s) \/ Recovery!Consume(s) \/ Recovery!DropPrevious(s)
              \/ Recovery!ReadResetToken(s) \/ Recovery!DropResetToken(s)
              \/ Recovery!SaveNewPassword(s) \/ Recovery!Invalidate(s)
       PROVE  CodeMore'
  <2>1. Recovery!Done(s) \/ \E place : Recovery!Goto(s, place)
    BY <1>15, Zenon DEF Recovery!NotFound, Recovery!TooMany, Recovery!WriteBack,
       Recovery!RightCode, Recovery!Consume, Recovery!DropPrevious, Recovery!ReadResetToken,
       Recovery!DropResetToken, Recovery!SaveNewPassword, Recovery!Invalidate
  <2>2. UNCHANGED <<codeShocks, codeGenerated, codeExchanged, codeBegun>>
    BY <1>15, Zenon DEF Recovery!NotFound, Recovery!TooMany, Recovery!WriteBack,
       Recovery!RightCode, Recovery!Consume, Recovery!DropPrevious, Recovery!ReadResetToken,
       Recovery!DropResetToken, Recovery!SaveNewPassword, Recovery!Invalidate,
       Recovery!connection, Recovery!tokens, Recovery!codes
  <2>3. codePointer' = codePointer \/ codePointer' = 0
    BY <1>15 DEF Recovery!NotFound, Recovery!TooMany, Recovery!WriteBack,
       Recovery!RightCode, Recovery!Consume, Recovery!DropPrevious, Recovery!ReadResetToken,
       Recovery!DropResetToken, Recovery!SaveNewPassword, Recovery!Invalidate,
       Recovery!tokens, Recovery!None
  <2>4. \A e \in {codeInRedis', codeInMemory'} :
            e \in {codeInRedis, codeInMemory, Recovery!NoEntry, codeRequest[s].entry}
    BY <1>15 DEF Recovery!NotFound, Recovery!TooMany, Recovery!WriteBack,
       Recovery!RightCode, Recovery!Consume, Recovery!DropPrevious, Recovery!ReadResetToken,
       Recovery!DropResetToken, Recovery!SaveNewPassword, Recovery!Invalidate, Recovery!codes
  <2>5. CodeWithin(codeInRedis', codeGenerated) /\ CodeWithin(codeInMemory', codeGenerated)
    BY <1>3, <1>8, <2>4
  <2>. QED  BY <1>7, <2>1, <2>2, <2>3, <2>5
<1>16. ASSUME Recovery!RedisLost \/ Recovery!RedisBack
       PROVE  CodeMore'
  <2>1. /\ UNCHANGED <<codeGenerated, codeExchanged, codePointer, codeBegun, codeInRedis,
                       codeInMemory, codeRequest>>
        /\ \/ codeShocks' = codeShocks
           \/ codeShocks < MaxShocks /\ codeShocks' = codeShocks + 1
    BY <1>16, Zenon DEF Recovery!RedisLost, Recovery!RedisBack, Recovery!codes, Recovery!tokens
  <2>2. CodeBusy' = CodeBusy
    BY <2>1 DEF CodeBusy
  <2>3. codeShocks' \in 0 .. MaxShocks
    BY <1>2, <2>1 DEF CodeMore
  <2>. QED  BY <2>1, <2>2, <2>3 DEF CodeMore
<1>. QED
  BY <1>10, <1>11, <1>12, <1>13, <1>14, <1>15, <1>16, Zenon DEF Recovery!Next

(* Codes, attempts and reset tokens are within their bounds.               *)
LEMMA RecoveryIsTyped ==
    ASSUME CodeBounds
    PROVE  Recovery!Spec => []Recovery!TypeOK
<1>1. ASSUME Recovery!Init
      PROVE  CodeMore
  <2>1. /\ codeShocks = 0 /\ codeInRedis = Recovery!NoEntry /\ codeInMemory = Recovery!NoEntry
        /\ codeGenerated = 0 /\ codePointer = Recovery!None /\ codeExchanged = 0
        /\ codeRequest = [s \in Slots |-> Recovery!Idle] /\ codeBegun = 0
    BY <1>1, Zenon DEF Recovery!Init
  <2>2. CodeBusy = {}
    BY <2>1 DEF CodeBusy, Recovery!Idle
  <2>3. IsFiniteSet({}) /\ Cardinality({}) = 0
    BY FS_EmptySet
  <2>4. CodeWithin(Recovery!NoEntry, 0) /\ Recovery!Idle.entry = Recovery!NoEntry
    BY DEF CodeWithin, Recovery!NoEntry, Recovery!None, Recovery!Idle, CodeBounds
  <2>5. \A s \in Slots : codeRequest[s].entry = Recovery!NoEntry
    BY <2>1, <2>4
  <2>. QED  BY <2>1, <2>2, <2>3, <2>4, <2>5 DEF CodeMore, CodeBounds, Recovery!None
<1>2. CodeIInv /\ CodeMore /\ [Recovery!Next]_(Recovery!vars) => CodeMore'
  <2>1. CodeMore /\ UNCHANGED Recovery!vars => CodeMore'
    BY DEF Recovery!vars, Recovery!connection, Recovery!codes, Recovery!tokens, CodeMore,
       CodeBusy
  <2>. QED  BY <2>1, CodeTypesStep
<1>3. ASSUME CodeIInv, CodeMore
      PROVE  Recovery!TypeOK
  <2>1. /\ codeUp \in BOOLEAN /\ codeChanged \in BOOLEAN
        /\ codeGenerated \in Nat /\ codeExchanged \in Nat
        /\ codeInRedis \in CodeEntries /\ codeInMemory \in CodeEntries
        /\ codeResetTokens \subseteq 1 .. codeExchanged
        /\ \A s \in Slots : codeRequest[s] \in CodeRecords
    BY <1>3 DEF CodeIInv, CodeShapes, CodeRequestOK
  <2>2. Cardinality(CodeBusy) \in Nat
    BY <1>3, FS_CardinalityType DEF CodeMore
  <2>3. codeExchanged \in 0 .. CodeRequests /\ codeGenerated \in 0 .. MaxCodes
    BY <1>3, <2>1, <2>2 DEF CodeMore, CodeBounds
  <2>4. ASSUME NEW e \in CodeEntries, CodeWithin(e, codeGenerated)
        PROVE  e \in Recovery!Entries /\ e.otp \in 0 .. codeGenerated
    <3>1. e.otp \in 0 .. MaxCodes /\ e.attempts \in 0 .. MaxAttempts
      <4>1. e.otp \in Nat /\ e.attempts \in Nat
        BY <2>4 DEF CodeEntries
      <4>2. e.otp \in 0 .. codeGenerated /\ e.attempts \in 0 .. MaxAttempts
        BY <2>4 DEF CodeWithin
      <4>3. codeGenerated \in Int /\ codeGenerated <= MaxCodes /\ MaxCodes \in Int
        BY <2>1, <2>3 DEF CodeBounds
      <4>. QED  BY <4>1, <4>2, <4>3
    <3>. QED  BY <2>4, <3>1 DEF CodeEntries, Recovery!Entries, CodeWithin
  <2>5. \A s \in Slots : codeRequest[s].entry \in CodeEntries
    BY <2>1 DEF CodeRecords
  <2>. QED  BY <1>3, <2>1, <2>3, <2>4, <2>5 DEF CodeMore, Recovery!TypeOK
<1>4. MaxAttempts \in Nat /\ MaxCodes \in Nat
  BY DEF CodeBounds
<1>. QED  BY <1>1, <1>2, <1>3, <1>4, CodeInitStep, CodeNextStep, PTL DEF Recovery!Spec

-----------------------------------------------------------------------------
UserBounds == MaxAccounts \in Nat /\ UserRequests \in Nat /\ MaxShocks \in Nat

(* What UserShapes leaves open of the types of the accounts.               *)
UserMore ==
    /\ Len(userUsers) <= MaxAccounts
    /\ \A i \in DOMAIN userUsers : userUsers[i].purged => userUsers[i].deleted
    /\ userBegun \in 0 .. UserRequests /\ userShocks \in 0 .. MaxShocks
    /\ userDetached \subseteq DOMAIN userUsers

(* Only a deleted account is purged, and a purged one is not restored.     *)
LEMMA UserTypesStep ==
    ASSUME UserBounds, UserIInv, UserMore, Directory!Next
    PROVE  UserMore'
<1>. DEFINE Ended(u) == u.purged => u.deleted
            Began == \/ userBegun' = userBegun
                     \/ userBegun < UserRequests /\ userBegun' = userBegun + 1
<1>1. /\ userUsers \in Seq(UserDocs) /\ DOMAIN userRequest = Slots
      /\ \A i \in DOMAIN userUsers : userUsers[i] \in UserDocs
      /\ \A s \in Slots : /\ userRequest[s] \in UserRecords
                          /\ userRequest[s].at \in {"profile", "restore", "promote", "account"}
                             => userRequest[s].user \in DOMAIN userUsers
  BY DEF UserIInv, UserShapes, UserChecked, UserKnows
<1>2. /\ MaxAccounts \in Nat /\ UserRequests \in Nat /\ MaxShocks \in Nat
      /\ Len(userUsers) <= MaxAccounts /\ \A i \in DOMAIN userUsers : Ended(userUsers[i])
      /\ userBegun \in 0 .. UserRequests /\ userShocks \in 0 .. MaxShocks
      /\ userDetached \subseteq DOMAIN userUsers
  BY DEF UserMore, UserBounds
<1>3. ASSUME Len(userUsers') <= MaxAccounts, DOMAIN userUsers \subseteq DOMAIN userUsers',
             \A i \in DOMAIN userUsers' : Ended(userUsers'[i]),
             userDetached' \subseteq userDetached \cup DOMAIN userUsers,
             Began, userShocks' \in 0 .. MaxShocks
      PROVE  UserMore'
  <2>1. userBegun' \in 0 .. UserRequests
    BY <1>2, <1>3
  <2>. QED  BY <1>2, <1>3, <2>1 DEF UserMore
\* The accounts stay.
<1>4. ASSUME UNCHANGED <<userUsers, userDetached>>, Began, userShocks' \in 0 .. MaxShocks
      PROVE  UserMore'
  BY <1>2, <1>3, <1>4
\* One account is written.
<1>5. ASSUME NEW u \in DOMAIN userUsers, NEW v, userUsers' = [userUsers EXCEPT ![u] = v],
             Ended(v), userDetached' \subseteq userDetached \cup DOMAIN userUsers,
             Began, userShocks' = userShocks
      PROVE  UserMore'
  <2>1. Len(userUsers') = Len(userUsers) /\ DOMAIN userUsers' = DOMAIN userUsers
    BY <1>1, <1>5
  <2>2. \A i \in DOMAIN userUsers' : Ended(userUsers'[i])
    BY <1>2, <1>5, <2>1
  <2>. HIDE DEF Ended, Began
  <2>. QED  BY <1>2, <1>3, <1>5, <2>1, <2>2
<1>6. ASSUME NEW s \in Slots,
             \/ Directory!StartRegister(s) \/ Directory!StartInvestor(s) \/ Directory!StartSeed(s)
             \/ Directory!CheckProfiles(s) \/ Directory!CheckAccounts(s)
             \/ Directory!CreateProfile(s) \/ Directory!SeedAdmin(s)
             \/ Directory!RemoveInvestor(s)
      PROVE  UserMore'
  <2>1. UNCHANGED <<userUsers, userDetached, userShocks>> /\ Began
    BY <1>6, Zenon
       DEF Directory!StartRegister, Directory!StartInvestor, Directory!StartSeed,
           Directory!Creates, Directory!Begin, Directory!CheckProfiles,
           Directory!CheckAccounts, Directory!CreateProfile, Directory!SeedAdmin,
           Directory!RemoveInvestor, Directory!database, Directory!history
  <2>. QED  BY <1>2, <1>4, <2>1
<1>7. ASSUME NEW s \in Slots, Directory!CreateAccount(s)
      PROVE  UserMore'
  <2>1. /\ UNCHANGED <<userDetached, userShocks, userBegun>> /\ Len(userUsers) < MaxAccounts
        /\ \/ userUsers' = userUsers
           \/ \E role : userUsers' = Directory!NewUser(userRequest[s].email, role)
    BY <1>7, Zenon DEF Directory!CreateAccount
  <2>2. ASSUME NEW role, userUsers' = Directory!NewUser(userRequest[s].email, role)
        PROVE  UserMore'
    <3>. DEFINE v == [email |-> userRequest[s].email, role |-> role, active |-> TRUE,
                      deleted |-> FALSE, purged |-> FALSE]
    <3>1. Ended(v) /\ userUsers' = Append(userUsers, v)
      BY <2>2 DEF Directory!NewUser
    <3>. HIDE DEF v
    <3>2. /\ Len(userUsers) \in Nat /\ Len(userUsers') = Len(userUsers) + 1
          /\ DOMAIN userUsers = 1 .. Len(userUsers) /\ DOMAIN userUsers' = 1 .. Len(userUsers) + 1
          /\ \A i \in 1 .. Len(userUsers) + 1 :
                 userUsers'[i] = IF i <= Len(userUsers) THEN userUsers[i] ELSE v
      BY <1>1, <3>1
    <3>. HIDE DEF Ended
    <3>3. \A i \in DOMAIN userUsers' : Ended(userUsers'[i])
      BY <1>2, <3>1, <3>2
    <3>4. DOMAIN userUsers \subseteq DOMAIN userUsers' /\ Len(userUsers') <= MaxAccounts
      BY <1>2, <2>1, <3>2
    <3>. QED  BY <1>2, <1>3, <2>1, <3>3, <3>4
  <2>. QED  BY <1>2, <1>4, <2>1, <2>2
<1>8. ASSUME NEW s \in Slots, Directory!RestoreAccount(s)
      PROVE  UserMore'
  <2>. DEFINE u == userRequest[s].user
              v == [userUsers[u] EXCEPT !.deleted = FALSE]
  <2>1. /\ userRequest[s].at = "restore" /\ UNCHANGED <<userShocks, userBegun>>
        /\ \/ UNCHANGED <<userUsers, userDetached>>
           \/ /\ ~userUsers[u].purged /\ userUsers' = Directory!Restore(userUsers, u)
              /\ userDetached' = userDetached \cup {u}
    BY <1>8, Zenon DEF Directory!RestoreAccount, Directory!At
  <2>2. u \in DOMAIN userUsers
    BY <1>1, <2>1
  <2>3. Directory!Restore(userUsers, u) = [userUsers EXCEPT ![u] = v]
    BY DEF Directory!Restore
  <2>4. ~userUsers[u].purged => Ended(v)
    BY <1>1, <2>2 DEF UserDocs
  <2>. HIDE DEF u, v, Ended
  <2>. QED  BY <1>2, <1>4, <1>5, <2>1, <2>2, <2>3, <2>4
<1>9. ASSUME NEW s \in Slots, Directory!PromoteAccount(s)
      PROVE  UserMore'
  <2>. DEFINE u == userRequest[s].user
              v == [userUsers[u] EXCEPT !.role = "admin", !.active = TRUE]
  <2>1. /\ userRequest[s].at = "promote" /\ UNCHANGED <<userDetached, userShocks, userBegun>>
        /\ userUsers' = IF userUsers[u].purged THEN userUsers
                        ELSE [userUsers EXCEPT ![u].role = "admin", ![u].active = TRUE]
    BY <1>9, Zenon DEF Directory!PromoteAccount, Directory!At, Directory!history
  <2>2. u \in DOMAIN userUsers
    BY <1>1, <2>1
  <2>3. Ended(v)
    BY <1>1, <1>2, <2>2 DEF UserDocs
  <2>4. [userUsers EXCEPT ![u].role = "admin", ![u].active = TRUE]
          = [userUsers EXCEPT ![u] = v]
    BY <1>1, <2>2
  <2>. HIDE DEF u, v, Ended
  <2>. QED  BY <1>2, <1>4, <1>5, <2>1, <2>2, <2>3, <2>4
<1>10. ASSUME NEW u \in DOMAIN userUsers, userUsers' = Directory!SoftDelete(userUsers, u),
              userDetached' \subseteq userDetached \cup DOMAIN userUsers,
              Began, userShocks' = userShocks
       PROVE  UserMore'
  <2>. DEFINE v == [userUsers[u] EXCEPT !.deleted = TRUE]
  <2>1. Ended(v)
    BY <1>1 DEF UserDocs
  <2>2. userUsers' = [userUsers EXCEPT ![u] = v]
    BY <1>10 DEF Directory!SoftDelete
  <2>. HIDE DEF v, Ended, Began
  <2>. QED  BY <1>5, <1>10, <2>1, <2>2
<1>11. ASSUME NEW s \in Slots, Directory!RemoveAccount(s)
       PROVE  UserMore'
  <2>1. /\ userRequest[s].at = "account" /\ UNCHANGED <<userDetached, userShocks, userBegun>>
        /\ userUsers' = Directory!SoftDelete(userUsers, userRequest[s].user)
    BY <1>11, Zenon DEF Directory!RemoveAccount, Directory!At, Directory!history
  <2>. QED  BY <1>1, <1>10, <2>1
<1>12. ASSUME NEW s \in Slots, Directory!SoftDeleteUser(s)
       PROVE  UserMore'
  <2>1. PICK u \in DOMAIN userUsers :
          /\ userUsers' = Directory!SoftDelete(userUsers, u)
          /\ userDetached' = userDetached \cup {u} /\ Began /\ UNCHANGED userShocks
    BY <1>12, Zenon DEF Directory!SoftDeleteUser
  <2>. HIDE DEF Began
  <2>. QED  BY <1>10, <2>1
<1>13. ASSUME NEW s \in Slots, Directory!AdminUpdateUser(s)
       PROVE  UserMore'
  <2>1. PICK u \in DOMAIN userUsers :
          /\ UNCHANGED <<userDetached, userShocks>> /\ Began
          /\ \/ userUsers' = [userUsers EXCEPT ![u].active = ~userUsers[u].active]
             \/ \E r \in {"admin", "investor"} : userUsers' = [userUsers EXCEPT ![u].role = r]
    BY <1>13 DEF Directory!AdminUpdateUser, Directory!history
  <2>2. PICK v : userUsers' = [userUsers EXCEPT ![u] = v] /\ Ended(v)
    <3>1. ASSUME NEW r
          PROVE  Ended([userUsers[u] EXCEPT !.role = r]) /\ Ended([userUsers[u] EXCEPT !.active = r])
      BY <1>1, <1>2 DEF UserDocs
    <3>. HIDE DEF Ended
    <3>. QED  BY <2>1, <3>1
  <2>. HIDE DEF Began, Ended
  <2>. QED  BY <1>5, <2>1, <2>2
<1>14. CASE Directory!CleanupSoftDeletedUsers
  <2>1. PICK U \in SUBSET {u \in DOMAIN userUsers : userUsers[u].deleted} :
          /\ userShocks < MaxShocks /\ userShocks' = userShocks + 1
          /\ UNCHANGED <<userBegun, userDetached>>
          /\ userUsers' = [u \in DOMAIN userUsers |->
                 IF u \in U THEN [userUsers[u] EXCEPT !.purged = TRUE] ELSE userUsers[u]]
    BY <1>14 DEF Directory!CleanupSoftDeletedUsers, Directory!history
  <2>2. \A u \in U : Ended([userUsers[u] EXCEPT !.purged = TRUE])
    BY <1>1, <2>1 DEF UserDocs
  <2>. HIDE DEF Ended
  <2>3. DOMAIN userUsers' = DOMAIN userUsers /\ \A i \in DOMAIN userUsers' : Ended(userUsers'[i])
    BY <1>2, <2>1, <2>2
  <2>4. Len(userUsers') = Len(userUsers)
    <3>1. DOMAIN userUsers = 1 .. Len(userUsers) /\ Len(userUsers) \in Nat
      BY <1>1
    <3>. QED  BY <2>1, <3>1
  <2>5. userShocks' \in 0 .. MaxShocks
    BY <1>2, <2>1
  <2>. QED  BY <1>2, <1>3, <2>1, <2>3, <2>4, <2>5
<1>15. ASSUME NEW s \in Slots, Directory!CutShort(s)
       PROVE  UserMore'
  <2>1. /\ UNCHANGED <<userUsers, userDetached, userBegun>>
        /\ userShocks < MaxShocks /\ userShocks' = userShocks + 1
    BY <1>15, Zenon DEF Directory!CutShort, Directory!database
  <2>. QED  BY <1>2, <1>4, <2>1
<1>. QED
  BY <1>6, <1>7, <1>8, <1>9, <1>11, <1>12, <1>13, <1>14, <1>15, Zenon
     DEF Directory!Next, Directory!Handle

(* Accounts are within what was created, and of the e-mails there are.     *)
LEMMA DirectoryIsTyped ==
    ASSUME UserBounds
    PROVE  Directory!Spec => []Directory!TypeOK
<1>1. ASSUME Directory!Init
      PROVE  UserMore
  <2>1. userUsers = <<>> /\ userBegun = 0 /\ userShocks = 0 /\ userDetached = {}
    BY <1>1, Zenon DEF Directory!Init
  <2>2. Len(userUsers) = 0 /\ \A i \in DOMAIN userUsers : FALSE
    BY <2>1
  <2>. QED  BY <2>1, <2>2 DEF UserMore, UserBounds
<1>2. UserIInv /\ UserMore /\ [Directory!Next]_(Directory!vars) => UserMore'
  <2>1. UserMore /\ UNCHANGED Directory!vars => UserMore'
    BY DEF Directory!vars, Directory!database, Directory!history, UserMore
  <2>. QED  BY <2>1, UserTypesStep
<1>3. ASSUME UserIInv, UserMore
      PROVE  Directory!TypeOK
  <2>1. \A i \in DOMAIN userUsers : userUsers[i] \in UserDocs
    BY <1>3 DEF UserIInv, UserShapes
  <2>2. \A i \in DOMAIN userUsers :
            userUsers[i].email \in Emails /\ userUsers[i].role \in {"admin", "investor"}
    BY <2>1 DEF UserDocs
  <2>. QED
    BY <1>3, <2>2 DEF UserIInv, UserShapes, UserPaired, UserMore, Directory!TypeOK
<1>. QED  BY <1>1, <1>2, <1>3, UserInitStep, UserNextStep, PTL DEF Directory!Spec

-----------------------------------------------------------------------------
(* What bounds the instance: the counters of its parts are natural         *)
(* numbers, a ledger has an investor and no more investments than a page,  *)
(* and the calendar is asked for years from 1970 on.                       *)
PlatformBounds ==
    /\ BookInvestors # {} /\ IsFiniteSet(Slots) /\ Cardinality(Slots) <= 100
    /\ TotalsPage \in Nat /\ TotalsBounds
    /\ MaxTokens \in Nat \ {0} /\ MaxShocks \in Nat
    /\ CodeBounds /\ UserBounds /\ MaxFiles \in Nat
    /\ StatementBounds /\ WalkBounds /\ CalendarYears

(* Every part of the platform keeps its types: what its rows refer to      *)
(* exists, amounts are natural numbers, and what is counted or handed out  *)
(* in a behaviour stays within the bound of its part.                      *)
THEOREM PlatformTyped ==
    ASSUME PlatformBounds
    PROVE  PlatformSpec => []PlatformTypeOK
<1>1. /\ BookInvestors # {} /\ IsFiniteSet(Slots) /\ Cardinality(Slots) <= 100
      /\ TotalsPage \in Nat /\ TotalsBounds
      /\ MaxTokens \in Nat \ {0} /\ MaxShocks \in Nat
      /\ CodeBounds /\ UserBounds /\ MaxFiles \in Nat
      /\ StatementBounds /\ WalkBounds /\ CalendarYears
  BY DEF PlatformBounds
<1>2. Ledger!Spec => []Ledger!TypeOK
  <2>1. /\ Ledger!BoundsAssumption /\ Ledger!TermsAssumption
        /\ Ledger!PlanAssumption /\ Ledger!InstalmentAssumption
    BY <1>1, LedgerAssumptions, ZenonT(60)
  <2>. QED  BY <2>1, Ledger!LedgerAlwaysTyped, ZenonT(60)
<1>3. Totals!Spec => []Totals!TypeOK
  BY <1>1, TotalsAreTyped
<1>4. Sessions!Spec => []Sessions!TypeOK
  BY <1>1, Sessions!SessionsAreTyped
<1>5. Recovery!Spec => []Recovery!TypeOK
  BY <1>1, RecoveryIsTyped
<1>6. Directory!Spec => []Directory!TypeOK
  BY <1>1, DirectoryIsTyped
<1>7. Library!Spec => []Library!TypeOK
  BY <1>1, LibraryIsTyped
<1>8. Reading!Spec => []Reading!TypeOK
  BY <1>1, StatementsAreTyped
<1>9. Walk!Spec => []Walk!TypeOK
  BY <1>1, WalksAreTyped
<1>10. Calendar!Spec => [](Calendar!TypeOK /\ Calendar!DueDatesSound)
  BY <1>1, CalendarSound
<1>11. /\ PlatformSpec => []TypeOK
       /\ PlatformSpec => []Ledger!TypeOK
       /\ PlatformSpec => []Totals!TypeOK
  <2>1. PlatformSpec => []TypeOK
    BY EngineTyped, ScheduleInPlatform, PTL DEF PlatformSpec, Spec
  <2>2. PlatformSpec => []Ledger!TypeOK
    BY <1>2, LedgerInPlatform, PTL DEF PlatformSpec, Ledger!Spec
  <2>3. PlatformSpec => []Totals!TypeOK
    BY <1>3, TotalsInPlatform, PTL DEF PlatformSpec, Totals!Spec
  <2>. QED  BY <2>1, <2>2, <2>3
<1>12. /\ PlatformSpec => []Sessions!TypeOK
       /\ PlatformSpec => []Recovery!TypeOK
       /\ PlatformSpec => []Directory!TypeOK
  <2>1. PlatformSpec => []Sessions!TypeOK
    BY <1>4, SessionsInPlatform, PTL DEF PlatformSpec, Sessions!Spec
  <2>2. PlatformSpec => []Recovery!TypeOK
    BY <1>5, CodesInPlatform, PTL DEF PlatformSpec, Recovery!Spec
  <2>3. PlatformSpec => []Directory!TypeOK
    BY <1>6, UsersInPlatform, PTL DEF PlatformSpec, Directory!Spec
  <2>. QED  BY <2>1, <2>2, <2>3
<1>13. /\ PlatformSpec => []Library!TypeOK
       /\ PlatformSpec => []Reading!TypeOK
       /\ PlatformSpec => []Walk!TypeOK
       /\ PlatformSpec => []Calendar!TypeOK
  <2>1. PlatformSpec => []Library!TypeOK
    BY <1>7, LibraryInPlatform, PTL DEF PlatformSpec, Library!Spec
  <2>2. PlatformSpec => []Reading!TypeOK
    BY <1>8, StatementsInPlatform, PTL DEF PlatformSpec, Reading!Spec
  <2>3. PlatformSpec => []Walk!TypeOK
    BY <1>9, ListsInPlatform, PTL DEF PlatformSpec, Walk!Spec
  <2>4. PlatformSpec => []Calendar!TypeOK
    BY <1>10, CalendarInPlatform, PTL DEF PlatformSpec, Calendar!Spec
  <2>. QED  BY <2>1, <2>2, <2>3, <2>4
<1>. QED  BY <1>11, <1>12, <1>13, PTL DEF PlatformTypeOK
=============================================================================
