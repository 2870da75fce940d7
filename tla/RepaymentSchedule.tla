------------------------- MODULE RepaymentSchedule -------------------------
(***************************************************************************)
(* A small state machine asks the engine for a schedule and then for a     *)
(* regenerated tail of it, the two uses investment.service.ts makes of it. *)
(***************************************************************************)
EXTENDS ScheduleEngine

CONSTANTS
    Requests        \* the terms of the loans that are asked for

ASSUME RequestsAssumption == \A t \in Requests : t \in ScheduleInput

VARIABLES
    request,     \* the terms the caller passes
    schedule,    \* the rows of the last full schedule, << >> before it
    tail,        \* the rows last regenerated, << >> when none are
    from         \* the sequence the tail starts from

vars == <<request, schedule, tail, from>>

Init ==
    /\ request \in Requests
    /\ schedule = << >>
    /\ tail = << >>
    /\ from = 0

Generate ==
    /\ schedule = << >>
    /\ schedule' = GenerateRepaymentSchedule(request)
    /\ UNCHANGED <<request, tail, from>>

(* The rows before f have been paid: the tail is rebuilt from what is left.*)
Regenerate(f) ==
    /\ schedule # << >>
    /\ f \in 2..Len(schedule)
    /\ tail' = RegenerateRemainingSchedule(request, schedule[f - 1].remaining, f)
    /\ from' = f
    /\ UNCHANGED <<request, schedule>>

Next == Generate \/ \E f \in 2..Len(schedule) : Regenerate(f)

Spec == Init /\ [][Next]_vars

-----------------------------------------------------------------------------
TypeOK ==
    /\ request \in ScheduleInput
    /\ \A rows \in {schedule, tail} : \A k \in 1..Len(rows) :
          rows[k] \in [sequence : Nat, due : Nat, principal : Nat,
                       interest : Nat, total : Nat, remaining : Nat]
    /\ from \in Nat

(* What the first k of the rows repay. *)
PaidUpTo(rows) ==
    LET paid[k \in 0..Len(rows)] == IF k = 0 THEN 0 ELSE paid[k - 1] + rows[k].principal
    IN  paid

(* A schedule for an opening balance conserves it: after every row, what   *)
(* has been repaid and what remains add up to it, and the last row leaves  *)
(* nothing.                                                                *)
Conserves(rows, opening) ==
    LET paid == PaidUpTo(rows)
    IN  /\ \A k \in 1..Len(rows) : paid[k] + rows[k].remaining = opening
        /\ rows[Len(rows)].remaining = 0

(* No cent of principal is lost or invented by rounding, grace months,     *)
(* balloons or the "last row clears" rules of schedule.engine.ts:78-121,   *)
(* neither in a full schedule nor in a regenerated tail of it.             *)
PrincipalConserved ==
    /\ schedule # << >> => Conserves(schedule, request.principal)
    /\ tail # << >> => Conserves(tail, schedule[from - 1].remaining)

(* The months over which a loan is amortised, its grace taken off, and the *)
(* level instalment of the request.                                        *)
AmortisedMonths(t) == Larger(1, t.term - t.grace)
LevelPayment ==
    CalculateMonthlyPayment(request.principal, request.rate, AmortisedMonths(request))

(* What a cent a month grows to with its interest, ((1 + r)^n - 1) / r, in *)
(* whole cents: what the rounding of n instalments can add up to.          *)
Drift(rate, n) ==
    IF rate.num = 0 THEN n
    ELSE (Power(rate.den + rate.num, n) - Power(rate.den, n))
             \div (rate.num * Power(rate.den, n - 1))
LoanDrift == Drift(request.rate, AmortisedMonths(request))

Apart(a, b) == IF a >= b THEN a - b ELSE b - a

(* Once the grace is over every row of an amortising loan without a        *)
(* balloon but the last costs the level instalment, unless the balance     *)
(* runs out in it: the amounts never come apart in between                 *)
(* (schedule.engine.ts:93-102).                                            *)
LevelUntilCleared ==
    (schedule # << >> /\ request.model = "amortizing" /\ request.balloon = 0) =>
        \A k \in (request.grace + 1)..(request.term - 1) :
            schedule[k].total = LevelPayment \/ schedule[k].remaining = 0

(* An amortising loan without a balloon costs the same every month once    *)
(* its grace is over: every row but the last costs the level instalment,   *)
(* unless the whole instalment is lost in the rounding, and the last,      *)
(* which absorbs the rounding of all of them, is off by no more than a     *)
(* cent a month and its interest (schedule.engine.ts:93-102).              *)
InstalmentsLevel ==
    /\ LevelUntilCleared
    /\ (/\ schedule # << >> /\ request.grace < request.term
        /\ request.model = "amortizing" /\ request.balloon = 0) =>
           /\ LevelPayment > LoanDrift =>
                 \A k \in (request.grace + 1)..(request.term - 1) : schedule[k].total = LevelPayment
           /\ Apart(schedule[request.term].total, LevelPayment) <= LoanDrift

(* The balloon is still owed when the last instalment falls due: the level *)
(* instalments, computed without it, never eat into it, unless they are    *)
(* lost in the rounding (schedule.engine.ts:73-76 and 93-98).              *)
BalloonLeftForTheEnd ==
    LET amortised == request.principal - request.balloon
        instalment == CalculateMonthlyPayment(amortised, request.rate, AmortisedMonths(request))
    IN  (/\ schedule # << >> /\ request.model = "amortizing"
         /\ amortised <= 0 \/ instalment > LoanDrift) =>
            schedule[request.term].principal >= Lesser(request.balloon, request.principal)

(* A regenerated tail has a row for each month that is left, in the month  *)
(* and under the sequence the full schedule has it                         *)
(* (schedule.engine.ts:126-146, the anchor month and the sequence offset). *)
TailInPlace ==
    tail # << >> =>
        /\ Len(tail) = Len(schedule) - from + 1
        /\ \A k \in 1..Len(tail) : /\ tail[k].sequence = schedule[from + k - 1].sequence
                                   /\ tail[k].due = schedule[from + k - 1].due

(* Regenerating the tail of a loan paid as scheduled, after its grace,     *)
(* puts every instalment in its place, and at the same price up to the     *)
(* rounding: a borrower who does nothing unusual hardly notices that the   *)
(* tail was rebuilt (schedule.engine.ts:126-146).                          *)
TailReproducesSchedule ==
    /\ TailInPlace
    /\ (tail # << >> /\ from > request.grace /\ request.balloon = 0) =>
          \A k \in 1..Len(tail) :
              Apart(tail[k].total, schedule[from + k - 1].total) <=
                  IF LevelPayment > 2 * LoanDrift /\ k < Len(tail) THEN LoanDrift
                                                                 ELSE 3 * LoanDrift
=============================================================================
