-------------------------- MODULE BusinessCalendar --------------------------
(***************************************************************************)
(* src/src/utils/businessCalendar.ts: the day an instalment is due on.  A  *)
(* date is the number of days since 1970-01-01 (UTC), which was a Thursday.*)
(***************************************************************************)
EXTENDS Integers, FiniteSetsExt

CONSTANT Years     \* years the contractual dates are taken from

VARIABLES
    contractual,   \* the date the contract names, NoDate before
    policy,        \* env.PAYMENT_DATE_POLICY, as resolvePaymentDatePolicy reads it
    due,           \* the date the row gets
    adjusted,      \* the date was moved
    note           \* why: "", "weekend" or "public holiday"

vars == <<contractual, policy, due, adjusted, note>>
NoDate == -1

-----------------------------------------------------------------------------
(* Dates, as JavaScript's Date has them. *)

IsLeap(y) == y % 4 = 0 /\ (y % 100 # 0 \/ y % 400 = 0)
DaysBefore(m) == <<0, 31, 59, 90, 120, 151, 181, 212, 243, 273, 304, 334>>[m]
LeapsBefore(y) == (y - 1) \div 4 - (y - 1) \div 100 + (y - 1) \div 400
\* Date.UTC(y, m - 1, d)
UtcDate(y, m, d) ==
    365 * (y - 1970) + LeapsBefore(y) - LeapsBefore(1970)
        + DaysBefore(m) + (IF m > 2 /\ IsLeap(y) THEN 1 ELSE 0) + d - 1
UtcYear(date) ==
    CHOOSE y \in 1970 + date \div 366 .. 1970 + date \div 365 + 1 :
        UtcDate(y, 1, 1) <= date /\ date < UtcDate(y + 1, 1, 1)
UtcDay(date) == (date + 4) % 7     \* 0 is Sunday

-----------------------------------------------------------------------------
(* The calendar. *)

\* "Anonymous Gregorian algorithm"
EasterSundayUtc(year) ==
    LET a == year % 19
        b == year \div 100
        c == year % 100
        h == ((19 * a) + b - b \div 4 - (b - (b + 8) \div 25 + 1) \div 3 + 15) % 30
        l == (32 + 2 * (b % 4) + 2 * (c \div 4) - h - (c % 4)) % 7
        n == h + l - 7 * ((a + 11 * h + 22 * l) \div 451) + 114
    IN  UtcDate(year, n \div 31, (n % 31) + 1)

HolidaysForYear(year) ==
    LET easter == EasterSundayUtc(year)
    IN  {UtcDate(year, 1, 1), UtcDate(year, 5, 1), UtcDate(year, 10, 3),
         UtcDate(year, 12, 25), UtcDate(year, 12, 26)}
        \cup {easter + days : days \in {-2, 1, 39, 50}}

BuildHolidaySet(fromYear, toYear) == UNION {HolidaysForYear(y) : y \in fromYear .. toYear}

IsWeekendUtc(date) == UtcDay(date) \in {0, 6}
IsNonBusinessDay(date, holidays) == IsWeekendUtc(date) \/ date \in holidays

\* The loop stops at the first day that is no holiday and no weekend: ten days
\* in a row are never all free.
NextBusinessDay(date, holidays) ==
    Min({d \in date .. date + 9 : ~IsNonBusinessDay(d, holidays)})

\* Mutant: the holidays of the contractual year only.
CalendarOfYear(date) == BuildHolidaySet(UtcYear(date), UtcYear(date))

\* The calendar applyPaymentDatePolicy builds when it is given none.
CalendarOf(date) == BuildHolidaySet(UtcYear(date) - 1, UtcYear(date) + 2)
DueDate(date, p) ==
    LET cal == CalendarOf(date)
    IN  IF p = "keep_contractual" \/ ~IsNonBusinessDay(date, cal) THEN date
        ELSE NextBusinessDay(date, cal)

-----------------------------------------------------------------------------
Init ==
    /\ contractual = NoDate /\ policy = "next_business_day"
    /\ due = NoDate /\ adjusted = FALSE /\ note = ""

\* Any configured value but "keep_contractual" means the next business day.
ResolvePaymentDatePolicy(value) ==
    IF value = "keep_contractual" THEN value ELSE "next_business_day"

ApplyPaymentDatePolicy ==
    \E y \in Years, value \in {"keep_contractual", "next_business_day", "unset"} :
        \E date \in UtcDate(y, 1, 1) .. UtcDate(y, 12, 31) :
            LET free == IsNonBusinessDay(date, CalendarOf(date)) IN
            /\ contractual = NoDate /\ contractual' = date
            /\ policy' = ResolvePaymentDatePolicy(value)
            /\ due' = DueDate(date, policy')
            /\ adjusted' = (free /\ policy' = "next_business_day")
            /\ note' = CASE ~free -> ""
                         [] IsWeekendUtc(date) -> "weekend"
                         [] OTHER -> "public holiday"

Next == ApplyPaymentDatePolicy

Spec == Init /\ [][Next]_vars
-----------------------------------------------------------------------------
(* Properties. *)

Given == contractual # NoDate

TypeOK ==
    /\ contractual \in Int /\ due \in Int /\ adjusted \in BOOLEAN
    /\ policy \in {"keep_contractual", "next_business_day"}
    /\ note \in {"", "weekend", "public holiday"}

\* The paschal full moon of the church's tables (golden number and epact, as
\* Knuth has them), an independent definition: Easter is the Sunday after it.
FullMoon(year) ==
    LET golden == (year % 19) + 1
        century == year \div 100 + 1
        e == (11 * golden + 20 + (8 * century + 5) \div 25 - 5
                 - ((3 * century) \div 4 - 12)) % 30
        epact == IF e = 24 \/ (e = 25 /\ golden > 11) THEN e + 1 ELSE e
        n == IF 44 - epact < 21 THEN 74 - epact ELSE 44 - epact
    IN  UtcDate(year, 3, 1) + n - 1
EasterIsTheSundayAfterTheFullMoon ==
    Given => LET easter == EasterSundayUtc(UtcYear(contractual))
                 moon == FullMoon(UtcYear(contractual))
             IN  UtcDay(easter) = 0 /\ easter - moon \in 1 .. 7

\* Under the default policy an instalment is due on a business day, the first
\* one from its contractual date on, by a calendar of all years there are: the
\* four years the code looks at are enough at the turn of a year too.
DueOnTheNextBusinessDay ==
    LET always == BuildHolidaySet(UtcYear(contractual) - 3, UtcYear(contractual) + 3)
        free(date) == IsNonBusinessDay(date, always)
    IN  Given /\ policy = "next_business_day" =>
            ~free(due) /\ \A date \in contractual .. due - 1 : free(date)

\* No date moves by more than four days, so that instalments a month apart stay
\* in their order and never fall on one day, and a note is given exactly for a
\* date that is no business day.
InstalmentsStayInOrder ==
    Given => /\ due - contractual \in 0 .. 4
             /\ due <= DueDate(contractual + 1, policy)
             /\ due < DueDate(contractual + 28, policy)
             /\ (note # "") <=> (adjusted \/ DueDate(contractual, "next_business_day") # due)

\* What the calendar promises of the due dates of a schedule.
DueDatesSound ==
    EasterIsTheSundayAfterTheFullMoon /\ DueOnTheNextBusinessDay /\ InstalmentsStayInOrder
=============================================================================
