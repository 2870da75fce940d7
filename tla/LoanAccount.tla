---------------------------- MODULE LoanAccount ----------------------------
(***************************************************************************)
(* What the ledger promises a borrower who services loans in order: a loan *)
(* is opened once with its principal owed, what is owed only falls, every  *)
(* cent it falls by is booked as repaid in the same step, and a withdrawn  *)
(* loan is frozen.  Schedules, interest, calendars and statuses are what   *)
(* the ledger adds to it.                                                  *)
(***************************************************************************)
EXTENDS Integers

CONSTANTS Loans, Principals

VARIABLE account     \* loan -> its stage, and what is owed and repaid of it

Stages == {"none", "open", "withdrawn"}

Init == account = [l \in Loans |-> [stage |-> "none", owed |-> 0, repaid |-> 0]]

Lend(l, principal) ==
    /\ account[l].stage = "none"
    /\ account' = [account EXCEPT ![l] = [stage |-> "open", owed |-> principal, repaid |-> 0]]

Repay(l, part) ==
    /\ account[l].stage = "open"
    /\ account' = [account EXCEPT ![l].owed = @ - part, ![l].repaid = @ + part]

Withdraw(l) ==
    /\ account[l].stage = "open"
    /\ account' = [account EXCEPT ![l].stage = "withdrawn"]

Next ==
    \E l \in Loans :
        \/ \E principal \in Principals : Lend(l, principal)
        \/ \E part \in 1..account[l].owed : Repay(l, part)
        \/ Withdraw(l)

Spec == Init /\ [][Next]_account
=============================================================================
