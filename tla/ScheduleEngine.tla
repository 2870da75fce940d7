--------------------------- MODULE ScheduleEngine ---------------------------
(***************************************************************************)
(* The schedule engine, src/utils/schedule.engine.ts: functions from the   *)
(* terms of a loan to the rows of its schedule.                            *)
(*                                                                         *)
(* Money is counted in cents: every amount the engine stores has gone      *)
(* through round2, so a cent is the unit it tells apart.  The monthly rate *)
(* annualRatePercent / 100 / 12 is the rational rate.num / rate.den.       *)
(* A date is the index of its month: the engine always moves by whole      *)
(* months, and the day inside the month plays no part in the amounts.      *)
(***************************************************************************)
EXTENDS Integers, Sequences

Models == {"amortizing", "interest_only", "bullet"}

(* What calls the engine with: at least one month, a positive principal.   *)
ScheduleInput ==
    [principal : Nat \ {0}, rate : [num : Nat, den : Nat \ {0}],
     term : Nat \ {0}, start : Nat, model : Models,
     grace : Nat, balloon : Nat]

Larger(a, b)  == IF a >= b THEN a ELSE b
Lesser(a, b) == IF a <= b THEN a ELSE b

(* Math.round of the non-negative rational num / den. *)
Round(num, den) == (2 * num + den) \div (2 * den)

Interest(balance, rate) == Round(balance * rate.num, rate.den)

(* Math.pow for a base and an exponent in Nat. *)
Power(base, n) ==
    LET power[k \in 0..n] == IF k = 0 THEN 1 ELSE base * power[k - 1]
    IN  power[n]

(* The level instalment  P r (1+r)^n / ((1+r)^n - 1). *)
CalculateMonthlyPayment(principal, rate, term) ==
    IF term <= 0 \/ principal <= 0 THEN 0
    ELSE IF rate.num = 0 THEN Round(principal, term)
    ELSE LET grown == Power(rate.den + rate.num, term)
             base  == Power(rate.den, term)
         IN  Round(principal * rate.num * grown, rate.den * (grown - base))

(* Mutants: the grace not taken off the term, the balloon amortised too. *)
PmtFullTerm(t) ==
    CalculateMonthlyPayment(Larger(0, t.principal - t.balloon), t.rate, t.term)
PmtWithBalloon(t) == CalculateMonthlyPayment(t.principal, t.rate, Larger(1, t.term - t.grace))

(* The level instalment of the months after the grace; the balloon is left *)
(* out of it.                                                              *)
Pmt(t) ==
    CalculateMonthlyPayment(Larger(0, t.principal - t.balloon), t.rate, Larger(1, t.term - t.grace))

(* Mutant: the grace checked before the last row. *)
PrincipalPartGraceFirst(t, i, balance) ==
    IF i <= t.grace THEN 0
    ELSE IF i = t.term THEN balance
    ELSE IF t.model # "amortizing" THEN 0
    ELSE Lesser(balance, Larger(0, Pmt(t) - Interest(balance, t.rate)))

(* The part of the balance that instalment i repays. *)
PrincipalPart(t, i, balance) ==
    IF i = t.term THEN balance
    ELSE IF t.model # "amortizing" \/ i <= t.grace THEN 0
    ELSE Lesser(balance, Larger(0, Pmt(t) - Interest(balance, t.rate)))

(* The balance left after each instalment; 0 stands for the day of issue.  *)
Balances(t) ==
    LET balance[i \in 0..t.term] ==
            IF i = 0 THEN t.principal
            ELSE Larger(0, balance[i - 1] - PrincipalPart(t, i, balance[i - 1]))
    IN  balance

GenerateRepaymentSchedule(t) ==
    LET balance == Balances(t)
    IN  [i \in 1..t.term |->
            LET interest  == Interest(balance[i - 1], t.rate)
                principal == PrincipalPart(t, i, balance[i - 1])
            IN  [sequence  |-> i,
                 due       |-> t.start + i,
                 principal |-> principal,
                 interest  |-> interest,
                 total     |-> principal + interest,
                 remaining |-> balance[i]]]

(* Mutant: anchored a month too late. *)
RegenerateRemainingScheduleLate(t, remaining, fromSequence) ==
    LET left == Larger(0, t.term - fromSequence + 1)
        tail == GenerateRepaymentSchedule(
                    [t EXCEPT !.principal = remaining, !.term = left,
                              !.start = @ + fromSequence, !.grace = 0])
    IN  IF left = 0 \/ remaining <= 0 THEN << >>
        ELSE [k \in 1..left |-> [tail[k] EXCEPT !.sequence = fromSequence + k - 1]]

(* The tail of a schedule rebuilt for a remaining principal: a schedule of *)
(* the remaining months without grace, anchored fromSequence - 1 months on.*)
RegenerateRemainingSchedule(t, remaining, fromSequence) ==
    LET left == Larger(0, t.term - fromSequence + 1)
        tail == GenerateRepaymentSchedule(
                    [t EXCEPT !.principal = remaining, !.term = left,
                              !.start = @ + fromSequence - 1, !.grace = 0])
    IN  IF left = 0 \/ remaining <= 0 THEN << >>
        ELSE [k \in 1..left |-> [tail[k] EXCEPT !.sequence = fromSequence + k - 1]]
=============================================================================
