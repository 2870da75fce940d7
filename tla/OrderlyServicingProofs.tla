----------------------- MODULE OrderlyServicingProofs -----------------------
(***************************************************************************)
(* The properties of OrderlyServicing, for schedules that findByInvestment *)
(* returns whole (MaxSeq <= PageLimit): the unpaid rows repay what is      *)
(* outstanding, rows and timeline stay in order, and the ledger implements *)
(* LoanAccount.                                                            *)
(*                                                                         *)
(* Served in order, the rows of an investment are 1..n, those up to some k *)
(* are completed and the others wait, unpaid.  What is outstanding is the  *)
(* balance after row k, and every waiting row lowers the balance before it *)
(* by its principal, down to zero after row n (Amortises).  A payment      *)
(* moves k by one; an early repayment and a regeneration build the rows    *)
(* after k anew, for exactly what is outstanding; nothing else touches     *)
(* more than a status.                                                     *)
(***************************************************************************)
EXTENDS OrderlyServicing, InvestmentLedgerProofs

Waits(row) ==
    /\ row.status \in Awaited \cup {"overdue"}
    /\ row.amountPaid = 0
    /\ row.total = row.principal + row.interest

(* The balance before the row s of a loan whose first k rows are paid.     *)
Before(owed, rows, k, s) == IF s = k + 1 THEN owed ELSE rows[s - 1].remaining

(* What was lent is owed until a row is paid, then the balance it left.    *)
Owes(owed, lent, rows, k) == IF k > 0 THEN rows[k].remaining = owed ELSE owed = lent

Amortises(owed, lent, rows, n, k) ==
    /\ DOMAIN rows = 1..n
    /\ \A s \in 1..k : rows[s].status = "completed"
    /\ \A s \in (k + 1)..n :
          /\ Waits(rows[s])
          /\ rows[s].principal + rows[s].remaining = Before(owed, rows, k, s)
    /\ IF n > k THEN rows[n].remaining = 0 ELSE owed = 0
    /\ Owes(owed, lent, rows, k)

(* The paid rows alone, as deleteUnpaid leaves them. *)
PaidPrefix(owed, lent, rows, k) ==
    /\ DOMAIN PaidOnly(rows) = 1..k
    /\ \A s \in 1..k : rows[s].status = "completed"
    /\ Owes(owed, lent, rows, k)

InOrder(inv, rows, announced, closed) ==
    IF inv.state = "absent" THEN DOMAIN rows = {} /\ closed = 0
    ELSE /\ \E n \in 0..MaxSeq : \E k \in 0..n :
               /\ Amortises(inv.outstanding, inv.terms.principal, rows, n, k)
               /\ (k + 1)..n \subseteq announced
         /\ closed > 0 <=> inv.outstanding = 0

OrderlyInv ==
    \A i \in Investments : InOrder(investments[i], payments[i], events[i], closings[i])

-----------------------------------------------------------------------------
(* Requests that change statuses only. *)
Relabelled(old, new) ==
    /\ DOMAIN new = DOMAIN old
    /\ \A s \in DOMAIN old :
          /\ new[s].principal = old[s].principal /\ new[s].interest = old[s].interest
          /\ new[s].total = old[s].total /\ new[s].remaining = old[s].remaining
          /\ new[s].amountPaid = old[s].amountPaid
          /\ old[s].status = "completed" => new[s].status = "completed"
          /\ old[s].status \in Awaited \cup {"overdue"} => new[s].status \in Awaited \cup {"overdue"}

(* The sweep relabels.                                                     *)
LEMMA MarkedRelabels ==
    ASSUME NEW rows, IsRows(rows)
    PROVE  Relabelled(rows, MarkedOverdue(rows))
<1>1. \A s \in DOMAIN rows : rows[s] \in Row
  BY DEF IsRows
<1>. QED  BY <1>1 DEF Relabelled, MarkedOverdue, WithStatus, Row, Awaited

(* The normalisation relabels: the next payment is not a completed row.    *)
LEMMA NormalisedRelabels ==
    ASSUME NEW rows, IsRows(rows)
    PROVE  Relabelled(rows, Normalised(rows))
<1>1. CASE Unpaid(rows) = {} \/ rows[NextOpen(rows)].status = "overdue"
  BY <1>1 DEF Relabelled, Normalised
<1>2. CASE ~(Unpaid(rows) = {} \/ rows[NextOpen(rows)].status = "overdue")
  <2>. DEFINE n == NextOpen(rows)
              new == [s \in DOMAIN rows |->
                        IF s = n THEN WithStatus(rows[s], "upcoming")
                        ELSE IF rows[s].status = "upcoming" THEN WithStatus(rows[s], "future")
                        ELSE rows[s]]
  <2>1. Normalised(rows) = new
    BY <1>2 DEF Normalised
  <2>2. n \in DOMAIN rows /\ rows[n].status # "completed"
    BY <1>2, NextOpenUnpaid
  <2>. HIDE DEF n
  <2>3. \A s \in DOMAIN rows : rows[s] \in Row
    BY DEF IsRows
  <2>4. Relabelled(rows, new)
    BY <2>2, <2>3 DEF Relabelled, WithStatus, Row, Awaited
  <2>. QED  BY <2>1, <2>4
<1>. QED  BY <1>1, <1>2

(* Relabelling twice is relabelling. *)
LEMMA RelabelledTransitive ==
    ASSUME NEW a, NEW b, NEW c, Relabelled(a, b), Relabelled(b, c)
    PROVE  Relabelled(a, c)
BY DEF Relabelled

(* refreshInvestmentPaymentMeta relabels.                                  *)
LEMMA RefreshedRelabels ==
    ASSUME NEW rows, IsRows(rows)
    PROVE  Relabelled(rows, RefreshedRows(rows))
<1>1. IsRows(MarkedOverdue(rows))
  BY MarkedOverdueStep DEF RowsStep
<1>2. Relabelled(MarkedOverdue(rows), RefreshedRows(rows))
  BY <1>1, NormalisedRelabels DEF RefreshedRows
<1>. QED  BY <1>2, MarkedRelabels, RelabelledTransitive

(* Relabelling keeps a schedule amortising what it did.                    *)
LEMMA RelabelledAmortises ==
    ASSUME NEW n \in 0..MaxSeq, NEW k \in 0..n, NEW owed, NEW lent, NEW old, NEW new,
           Relabelled(old, new), Amortises(owed, lent, old, n, k)
    PROVE  Amortises(owed, lent, new, n, k)
<1>1. DOMAIN old = 1..n /\ DOMAIN new = 1..n
  BY DEF Relabelled, Amortises
<1>2. n \in Nat /\ k \in Nat /\ k <= n
  BY BoundsAssumption
<1>3. \A s \in 1..k : new[s].status = "completed"
  BY <1>1, <1>2 DEF Relabelled, Amortises
<1>4. ASSUME NEW s \in (k + 1)..n
      PROVE  /\ Waits(new[s])
             /\ new[s].principal + new[s].remaining = Before(owed, new, k, s)
  <2>1. s \in 1..n /\ (s # k + 1 => s - 1 \in 1..n)
    BY <1>2
  <2>2. Before(owed, new, k, s) = Before(owed, old, k, s)
    BY <1>1, <2>1 DEF Before, Relabelled
  <2>. QED  BY <1>1, <2>1, <2>2 DEF Relabelled, Amortises, Waits
<1>5. IF n > k THEN new[n].remaining = 0 ELSE owed = 0
  BY <1>1, <1>2 DEF Relabelled, Amortises
<1>6. Owes(owed, lent, new, k)
  BY <1>1, <1>2 DEF Relabelled, Amortises, Owes
<1>. QED  BY <1>1, <1>3, <1>4, <1>5, <1>6 DEF Amortises

-----------------------------------------------------------------------------
(* A new loan amortises what is lent.                                      *)
LEMMA GeneratedAmortises ==
    ASSUME NEW t \in Terms, today \in Nat
    PROVE  Amortises(t.principal, t.principal, GeneratedRows(t), t.term, 0)
<1>. DEFINE plan == Plan(t, t.principal, t.term, t.grace)
            status(s) == IF t.start + s < today THEN "overdue"
                         ELSE IF s = 1 THEN "upcoming" ELSE "future"
            new == GeneratedRows(t)
<1>1. /\ t.principal \in 1..MaxPrincipal /\ t.term \in 1..MaxSeq
      /\ t.start \in Nat /\ t.grace \in {0, t.grace}
  BY TermsAssumption
<1>2. /\ \A s \in 1..t.term :
            /\ plan[s].total = plan[s].principal + plan[s].interest
            /\ plan[s].principal + plan[s].remaining
                 = (IF s = 1 THEN t.principal ELSE plan[s - 1].remaining)
      /\ plan[t.term].remaining = 0
  BY <1>1, PlanAssumption
<1>. HIDE DEF plan
<1>3. new = [s \in 1..t.term |-> NewRow(plan[s], t.start + s, status(s))]
  BY DEF GeneratedRows, plan
<1>4. /\ DOMAIN new = 1..t.term
      /\ \A s \in 1..t.term :
            /\ new[s].principal = plan[s].principal /\ new[s].interest = plan[s].interest
            /\ new[s].total = plan[s].total /\ new[s].remaining = plan[s].remaining
            /\ new[s].amountPaid = 0 /\ new[s].status \in Awaited \cup {"overdue"}
  BY <1>3 DEF NewRow, Awaited
<1>. HIDE DEF new
<1>5. t.term \in Nat /\ t.term > 0 /\ t.term \in 1..t.term
  BY <1>1, BoundsAssumption
<1>6. ASSUME NEW s \in (0 + 1)..t.term
      PROVE  /\ Waits(new[s])
             /\ new[s].principal + new[s].remaining = Before(t.principal, new, 0, s)
  <2>1. s \in 1..t.term /\ (s # 0 + 1 => s - 1 \in 1..t.term)
    BY <1>5
  <2>2. Before(t.principal, new, 0, s) = IF s = 1 THEN t.principal ELSE plan[s - 1].remaining
    BY <1>4, <2>1 DEF Before
  <2>3. Waits(new[s])
    BY <1>2, <1>4, <2>1 DEF Waits
  <2>. QED  BY <1>2, <1>4, <2>1, <2>2, <2>3
<1>7. \A s \in 1..0 : new[s].status = "completed"
  OBVIOUS
<1>8. IF t.term > 0 THEN new[t.term].remaining = 0 ELSE t.principal = 0
  BY <1>2, <1>4, <1>5
<1>9. Owes(t.principal, t.principal, new, 0)
  BY DEF Owes
<1>. QED  BY <1>4, <1>6, <1>7, <1>8, <1>9 DEF Amortises, new

(* The paid rows of an amortising schedule.                                *)
LEMMA AmortisesPrefix ==
    ASSUME NEW n \in 0..MaxSeq, NEW k \in 0..n, NEW owed, NEW lent, NEW rows,
           Amortises(owed, lent, rows, n, k)
    PROVE  PaidPrefix(owed, lent, rows, k)
<1>1. n \in Nat /\ k \in Nat /\ k <= n
  BY BoundsAssumption
<1>2. DOMAIN PaidOnly(rows) = {s \in DOMAIN rows : rows[s].status \in Paid}
  BY DEF PaidOnly, Restrict
<1>3. ASSUME NEW s \in 1..n PROVE rows[s].status \in Paid <=> s \in 1..k
  <2>1. s \in 1..k \/ s \in (k + 1)..n
    BY <1>1
  <2>2. ~(s \in 1..k /\ s \in (k + 1)..n)
    BY <1>1
  <2>. QED  BY <2>1, <2>2 DEF Amortises, Waits, Paid, Awaited
<1>4. 1..k \subseteq 1..n
  BY <1>1
<1>. QED  BY <1>2, <1>3, <1>4 DEF PaidPrefix, Amortises

(* A plan without grace amortises what it is made for.                     *)
LEMMA PlanAmortises ==
    ASSUME NEW t \in Terms, NEW p \in 1..MaxPrincipal, NEW n \in 1..MaxSeq
    PROVE  /\ \A k \in 1..n :
                /\ Plan(t, p, n, 0)[k].total = Plan(t, p, n, 0)[k].principal + Plan(t, p, n, 0)[k].interest
                /\ Plan(t, p, n, 0)[k].principal + Plan(t, p, n, 0)[k].remaining
                     = (IF k = 1 THEN p ELSE Plan(t, p, n, 0)[k - 1].remaining)
           /\ Plan(t, p, n, 0)[n].remaining = 0
<1>1. 0 \in {0, t.grace}
  OBVIOUS
<1>. QED  BY <1>1, PlanAssumption

(* A regeneration amortises what is outstanding, after the rows that are   *)
(* paid, and the rows it inserts are the rows that wait.                   *)
LEMMA RebuiltAmortises ==
    ASSUME MaxSeq <= PageLimit, today \in Nat, NEW rows, IsRows(rows), NEW inv \in InvestmentDoc,
           RegenerateFits(inv, rows), NEW k \in 0..MaxSeq,
           PaidPrefix(inv.outstanding, inv.terms.principal, rows, k)
    PROVE  \E n \in k..MaxSeq :
              /\ Amortises(inv.outstanding, inv.terms.principal, Rebuilt(inv, rows), n, k)
              /\ NewSeqs(inv, rows) = (k + 1)..n
<1>. DEFINE owed == inv.outstanding
            lent == inv.terms.principal
            term == RemainingTerm(inv, rows)
            plan == Plan(inv.terms, owed, term, 0)
            kept == PaidOnly(rows)
            new == Rebuilt(inv, rows)
<1>1. k \in Nat /\ k <= MaxSeq /\ MaxSeq \in Nat
  BY BoundsAssumption
<1>2. inv.terms \in Terms /\ lent \in 1..MaxPrincipal /\ owed \in Money
  BY TermsAssumption DEF InvestmentDoc
<1>3. /\ PaidSeen(rows) = 1..k /\ DOMAIN kept = 1..k
      /\ Inserted(inv, rows) = NewSeqs(inv, rows)
  BY RegenerateSees DEF PaidPrefix
<1>4. LastPaidSeq(rows) = k
  <2>1. CASE k = 0
    BY <1>3, <2>1 DEF LastPaidSeq, Highest
  <2>2. CASE k # 0
    <3>1. 1..k \in SUBSET (1..MaxSeq) /\ k \in 1..k /\ \A u \in 1..k : u <= k
      BY <1>1, <2>2
    <3>. QED  BY <1>3, <3>1, HighestIs DEF LastPaidSeq
  <2>. QED  BY <2>1, <2>2
<1>5. RemainingPrincipal(inv, rows) = owed
  <2>1. CASE k = 0
    <3>1. PaidSeen(rows) = {} /\ owed = lent
      BY <1>3, <2>1 DEF PaidPrefix, Owes
    <3>. QED  BY <3>1 DEF RemainingPrincipal
  <2>2. CASE k # 0
    <3>1. PaidSeen(rows) # {} /\ rows[k].remaining = owed
      BY <1>1, <1>3, <2>2 DEF PaidPrefix, Owes
    <3>. QED  BY <1>4, <3>1 DEF RemainingPrincipal
  <2>. QED  BY <2>1, <2>2
<1>6. /\ \A s \in 1..k : kept[s] = rows[s]
      /\ \A s \in 1..k : rows[s].status = "completed"
      /\ Owes(owed, lent, rows, k)
  BY <1>3, PaidOnlyFacts DEF PaidPrefix
<1>7. new = [s \in 1..k \cup NewSeqs(inv, rows) |->
               IF s \in 1..k THEN kept[s] ELSE RegeneratedRow(inv, rows, s)]
  BY <1>3 DEF Rebuilt
<1>8. /\ DOMAIN new = 1..k \cup NewSeqs(inv, rows)
      /\ \A s \in 1..k : new[s] = rows[s]
      /\ \A s \in NewSeqs(inv, rows) : s \notin 1..k => new[s] = RegeneratedRow(inv, rows, s)
  BY <1>6, <1>7
<1>. HIDE DEF new, kept
<1>9. Owes(owed, lent, new, k)
  <2>1. k > 0 => k \in 1..k
    BY <1>1
  <2>. QED  BY <1>6, <1>8, <2>1 DEF Owes
<1>10. CASE owed = 0
  <2>1. NewSeqs(inv, rows) = {}
    BY <1>5, <1>10 DEF NewSeqs, Settled
  <2>2. (k + 1)..k = {} /\ k \in k..MaxSeq /\ ~(k > k)
    BY <1>1
  <2>3. Amortises(owed, lent, new, k, k)
    BY <1>6, <1>8, <1>9, <1>10, <2>1, <2>2 DEF Amortises
  <2>. QED  BY <2>1, <2>2, <2>3 DEF new
<1>11. CASE owed # 0
  <2>. DEFINE n == k + term
  <2>1. term \in Int /\ term >= 1
    BY <1>5, <1>11, RegenerateReads, TermPositive DEF Settled
  <2>2. NewSeqs(inv, rows) = (k + 1)..n
    BY <1>4, <1>5, <1>11 DEF NewSeqs, Settled
  <2>3. n \in (k + 1)..n /\ n \in Int /\ n > k
    BY <1>1, <2>1
  <2>4. n <= MaxSeq
    BY <2>2, <2>3 DEF RegenerateFits
  <2>5. /\ term \in 1..MaxSeq /\ owed \in 1..MaxPrincipal
    BY <1>1, <1>2, <1>11, <2>1, <2>4, BoundsAssumption DEF Money
  <2>6. /\ \A s \in 1..term :
              /\ plan[s].total = plan[s].principal + plan[s].interest
              /\ plan[s].principal + plan[s].remaining
                   = (IF s = 1 THEN owed ELSE plan[s - 1].remaining)
        /\ plan[term].remaining = 0
    <3>. HIDE DEF owed, term
    <3>. QED  BY <1>2, <2>5, PlanAmortises
  <2>7. ASSUME NEW s \in (k + 1)..n
        PROVE  /\ s - k \in 1..term /\ s \notin 1..k
               /\ new[s].principal = plan[s - k].principal
               /\ new[s].interest = plan[s - k].interest
               /\ new[s].total = plan[s - k].total /\ new[s].remaining = plan[s - k].remaining
               /\ new[s].amountPaid = 0 /\ new[s].status \in Awaited \cup {"overdue"}
    <3>1. s - k \in 1..term /\ s \notin 1..k
      BY <1>1, <2>1
    <3>2. new[s] = RegeneratedRow(inv, rows, s)
      BY <1>8, <2>2, <3>1
    <3>. HIDE DEF plan, term, n
    <3>3. /\ RegeneratedRow(inv, rows, s).principal = plan[s - k].principal
          /\ RegeneratedRow(inv, rows, s).interest = plan[s - k].interest
          /\ RegeneratedRow(inv, rows, s).total = plan[s - k].total
          /\ RegeneratedRow(inv, rows, s).remaining = plan[s - k].remaining
          /\ RegeneratedRow(inv, rows, s).amountPaid = 0
          /\ RegeneratedRow(inv, rows, s).status \in Awaited \cup {"overdue"}
      BY <1>4, <1>5 DEF RegeneratedRow, NewRow, Awaited, plan, term
    <3>. QED  BY <3>1, <3>2, <3>3
  <2>. HIDE DEF plan, term, n
  <2>8. DOMAIN new = 1..n
    <3>1. 1..n = 1..k \cup (k + 1)..n
      BY <1>1, <2>3
    <3>. QED  BY <1>8, <2>2, <3>1
  <2>9. ASSUME NEW s \in (k + 1)..n
        PROVE  /\ Waits(new[s])
               /\ new[s].principal + new[s].remaining = Before(owed, new, k, s)
    <3>1. s - k \in 1..term
      BY <2>7
    <3>2. Waits(new[s])
      BY <2>6, <2>7, <3>1 DEF Waits
    <3>3. Before(owed, new, k, s) = IF s - k = 1 THEN owed ELSE plan[(s - k) - 1].remaining
      <4>1. CASE s = k + 1
        BY <1>1, <4>1 DEF Before
      <4>2. CASE s # k + 1
        <5>1. s - 1 \in (k + 1)..n /\ (s - 1) - k = (s - k) - 1 /\ s - k # 1
          BY <1>1, <2>3, <4>2
        <5>2. new[s - 1].remaining = plan[(s - k) - 1].remaining
          BY <2>7, <5>1
        <5>. QED  BY <4>2, <5>1, <5>2 DEF Before
      <4>. QED  BY <4>1, <4>2
    <3>. QED  BY <2>6, <2>7, <3>1, <3>2, <3>3
  <2>10. new[n].remaining = 0
    <3>1. n - k = term
      BY <1>1, <2>1 DEF n
    <3>. QED  BY <2>3, <2>6, <2>7, <3>1
  <2>11. n \in k..MaxSeq
    BY <1>1, <2>3, <2>4
  <2>12. \A s \in 1..k : new[s].status = "completed"
    BY <1>6, <1>8
  <2>13. Amortises(owed, lent, new, n, k)
    BY <1>9, <2>3, <2>8, <2>9, <2>10, <2>12 DEF Amortises
  <2>. QED  BY <2>2, <2>11, <2>13 DEF new
<1>. QED  BY <1>10, <1>11

-----------------------------------------------------------------------------
(* Paying the oldest row that waits: the balance it leaves is owed.        *)
LEMMA PaidOldestAmortises ==
    ASSUME NEW n \in 0..MaxSeq, NEW k \in 0..n, k < n, NEW owed, NEW lent, NEW old, NEW new,
           Amortises(owed, lent, old, n, k), DOMAIN new = DOMAIN old,
           new[k + 1].status = "completed", new[k + 1].remaining = old[k + 1].remaining,
           \A s \in DOMAIN old : s # k + 1 => new[s] = old[s]
    PROVE  /\ k + 1 \in 0..n
           /\ Amortises(old[k + 1].remaining, lent, new, n, k + 1)
           /\ Waits(old[k + 1])
           /\ old[k + 1].principal + old[k + 1].remaining = owed
<1>. DEFINE left == old[k + 1].remaining
<1>1. n \in Nat /\ k \in Nat /\ k + 1 \in 0..n /\ k + 1 \in (k + 1)..n /\ DOMAIN old = 1..n
  BY BoundsAssumption DEF Amortises
<1>2. Waits(old[k + 1]) /\ old[k + 1].principal + left = owed
  BY <1>1 DEF Amortises, Before
<1>3. \A s \in 1..(k + 1) : new[s].status = "completed"
  <2>1. ASSUME NEW s \in 1..(k + 1), s # k + 1 PROVE s \in 1..k /\ s \in 1..n
    BY <1>1, <2>1
  <2>. QED  BY <1>1, <2>1 DEF Amortises
<1>4. ASSUME NEW s \in ((k + 1) + 1)..n
      PROVE  /\ Waits(new[s])
             /\ new[s].principal + new[s].remaining = Before(left, new, k + 1, s)
  <2>1. s \in (k + 1)..n /\ s \in 1..n /\ s # k + 1 /\ s - 1 \in 1..n
    BY <1>1
  <2>2. new[s] = old[s]
    BY <1>1, <2>1
  <2>3. Before(left, new, k + 1, s) = old[s - 1].remaining
    <3>1. CASE s = (k + 1) + 1
      BY <1>1, <3>1 DEF Before
    <3>2. CASE s # (k + 1) + 1
      <4>1. s - 1 # k + 1
        BY <1>1, <2>1, <3>2
      <4>. QED  BY <1>1, <2>1, <3>2, <4>1 DEF Before
    <3>. QED  BY <3>1, <3>2
  <2>4. Before(owed, old, k, s) = old[s - 1].remaining
    BY <2>1 DEF Before
  <2>. QED  BY <2>1, <2>2, <2>3, <2>4 DEF Amortises
<1>5. IF n > k + 1 THEN new[n].remaining = 0 ELSE left = 0
  <2>1. old[n].remaining = 0
    BY <1>1 DEF Amortises
  <2>2. CASE n > k + 1
    BY <1>1, <2>1, <2>2
  <2>3. CASE ~(n > k + 1)
    <3>1. n = k + 1
      BY <1>1, <2>3
    <3>. QED  BY <2>1, <2>3, <3>1
  <2>. QED  BY <2>2, <2>3
<1>6. Owes(left, lent, new, k + 1)
  BY <1>1 DEF Owes
<1>. QED  BY <1>1, <1>2, <1>3, <1>4, <1>5, <1>6 DEF Amortises

(* An early repayment takes the place of the oldest row that waits.        *)
LEMMA EarlyRowPrefix ==
    ASSUME MaxSeq <= PageLimit, NEW n \in 0..MaxSeq, NEW k \in 0..n, NEW owed, NEW lent,
           NEW rows, IsRows(rows), Amortises(owed, lent, rows, n, k),
           NEW row, row.status = "completed"
    PROVE  /\ EarlySeq(rows) = k + 1
           /\ PaidPrefix(row.remaining, lent, WithEarlyRow(rows, row), k + 1)
<1>1. n \in Nat /\ k \in Nat /\ k <= n /\ n <= MaxSeq /\ MaxSeq \in Nat
  BY BoundsAssumption
<1>2. DOMAIN PaidOnly(rows) = 1..k /\ \A s \in 1..k : rows[s].status = "completed"
  BY AmortisesPrefix DEF PaidPrefix
<1>3. Visible(PaidOnly(rows)) = 1..k
  <2>1. IsRows(PaidOnly(rows))
    BY PaidOnlyFacts DEF RowsStep
  <2>. QED  BY <1>2, <2>1, AllVisible
<1>4. Highest(1..k) = k
  <2>1. CASE k = 0
    BY <2>1 DEF Highest
  <2>2. CASE k # 0
    <3>1. 1..k \in SUBSET (1..MaxSeq) /\ k \in 1..k /\ \A u \in 1..k : u <= k
      BY <1>1, <2>2
    <3>. QED  BY <3>1, HighestIs
  <2>. QED  BY <2>1, <2>2
<1>5. EarlySeq(rows) = k + 1
  BY <1>3, <1>4 DEF EarlySeq
<1>. DEFINE new == WithEarlyRow(rows, row)
<1>6. new = [s \in 1..k \cup {k + 1} |-> IF s = k + 1 THEN row ELSE rows[s]]
  BY <1>2, <1>5 DEF WithEarlyRow
<1>7. 1..k \cup {k + 1} = 1..(k + 1) /\ \A s \in 1..k : s # k + 1
  BY <1>1
<1>8. /\ DOMAIN new = 1..(k + 1) /\ new[k + 1] = row
      /\ \A s \in 1..k : new[s] = rows[s]
  BY <1>6, <1>7
<1>. HIDE DEF new
<1>9. \A s \in 1..(k + 1) : new[s].status = "completed"
  <2>1. \A s \in 1..(k + 1) : s \in 1..k \/ s = k + 1
    BY <1>1
  <2>. QED  BY <1>2, <1>8, <2>1
<1>10. DOMAIN PaidOnly(new) = 1..(k + 1)
  <2>1. DOMAIN PaidOnly(new) = {s \in DOMAIN new : new[s].status \in Paid}
    BY DEF PaidOnly, Restrict
  <2>. QED  BY <1>8, <1>9, <2>1 DEF Paid
<1>11. Owes(row.remaining, lent, new, k + 1)
  BY <1>1, <1>8 DEF Owes
<1>. QED  BY <1>5, <1>9, <1>10, <1>11 DEF PaidPrefix, new

(* A loan of which nothing is outstanding needs no rows but the paid ones. *)
LEMMA PrefixAmortises ==
    ASSUME NEW k \in 0..MaxSeq, NEW lent, NEW rows, IsRows(rows), PaidPrefix(0, lent, rows, k)
    PROVE  Amortises(0, lent, PaidOnly(rows), k, k)
<1>1. k \in Nat /\ (k + 1)..k = {} /\ (k > 0 => k \in 1..k)
  BY BoundsAssumption
<1>2. /\ DOMAIN PaidOnly(rows) = 1..k
      /\ \A s \in 1..k : PaidOnly(rows)[s] = rows[s]
  BY PaidOnlyFacts DEF PaidPrefix
<1>. QED  BY <1>1, <1>2 DEF Amortises, PaidPrefix, Owes

-----------------------------------------------------------------------------
(* The steps.  What a step does to the account of an investment.           *)
AccountOf(i) == <<investments[i].state, investments[i].outstanding, investments[i].repaid>>

Lent(i) ==
    /\ investments[i].state = "absent" /\ investments'[i].state = "live"
    /\ investments'[i].repaid = 0
    /\ \E t \in Terms : investments'[i].outstanding = t.principal

Repaid(i, part) ==
    /\ investments[i].state = "live" /\ investments'[i].state = "live"
    /\ part <= investments[i].outstanding
    /\ investments'[i].outstanding = investments[i].outstanding - part
    /\ investments'[i].repaid = investments[i].repaid + part

Withdrawn(i) ==
    /\ investments[i].state = "live" /\ investments'[i].state = "deleted"
    /\ investments'[i].outstanding = investments[i].outstanding
    /\ investments'[i].repaid = investments[i].repaid

Moves(i) == Lent(i) \/ (\E part \in Nat : Repaid(i, part)) \/ Withdrawn(i)

InOrderAt(i) == InOrder(investments[i], payments[i], events[i], closings[i])

(* A step of the investment i.                                             *)
OrderlyStep(i) ==
    /\ InOrderAt(i)'
    /\ UNCHANGED AccountOf(i) \/ Moves(i)
    /\ \A j \in Investments \ {i} : /\ investments'[j] = investments[j]
                                    /\ payments'[j] = payments[j]
                                    /\ events'[j] = events[j] /\ closings'[j] = closings[j]

(* The closing is announced of a loan that is repaid, once or again.       *)
LEMMA ClosingAnnounced ==
    ASSUME LedgerTypeOK, NEW i \in Investments, NEW owed, AnnounceClosing(i, owed),
           closings[i] > 0 => owed = 0
    PROVE  /\ closings'[i] > 0 <=> owed = 0
           /\ \A j \in Investments \ {i} : closings'[j] = closings[j]
<1>1. closings[i] \in Nat /\ DOMAIN closings = Investments
  BY BoundsAssumption DEF LedgerTypeOK
<1>2. \A j \in Investments \ {i} : closings'[j] = closings[j]
  BY <1>1 DEF AnnounceClosing
<1>3. closings'[i] = IF owed = 0 THEN closings[i] + 1 ELSE closings[i]
  BY <1>1 DEF AnnounceClosing
<1>. QED  BY <1>1, <1>2, <1>3

(* A request that ends in a refresh leaves the investment in order, when   *)
(* it left rows that amortise what it left owed.                           *)
LEMMA RefreshInOrder ==
    ASSUME LedgerTypeOK, NEW i \in Investments, NEW inv \in InvestmentDoc, inv.state # "absent",
           NEW rows, IsRows(rows), Refresh(i, inv, rows),
           NEW n \in 0..MaxSeq, NEW k \in 0..n,
           Amortises(inv.outstanding, inv.terms.principal, rows, n, k),
           (k + 1)..n \subseteq events'[i], closings'[i] > 0 <=> inv.outstanding = 0
    PROVE  /\ InOrderAt(i)'
           /\ AccountOf(i)' = <<inv.state, inv.outstanding, inv.repaid>>
           /\ \A j \in Investments \ {i} : /\ investments'[j] = investments[j]
                                           /\ payments'[j] = payments[j]
<1>. DEFINE meta == RefreshedMeta(inv, rows)
            new == RefreshedRows(rows)
<1>1. /\ meta.state = inv.state /\ meta.terms = inv.terms /\ meta.outstanding = inv.outstanding
      /\ meta.repaid = inv.repaid
  BY MetaAdds, MetaCollectsNothing
<1>2. Amortises(meta.outstanding, meta.terms.principal, new, n, k)
  <2>1. Relabelled(rows, new)
    BY RefreshedRelabels
  <2>. HIDE DEF meta, new
  <2>. QED  BY <1>1, <2>1, RelabelledAmortises
<1>3. /\ investments'[i] = meta /\ payments'[i] = new
      /\ \A j \in Investments \ {i} : /\ investments'[j] = investments[j]
                                      /\ payments'[j] = payments[j]
  BY DEF Refresh, LedgerTypeOK
<1>. HIDE DEF meta, new
<1>4. InOrder(meta, new, events'[i], closings'[i])
  BY <1>1, <1>2 DEF InOrder
<1>. QED  BY <1>1, <1>3, <1>4 DEF InOrderAt, AccountOf

(* The same of a request that ends in a regeneration, when the rows that   *)
(* are paid left what is owed: the new rows have their timeline events.    *)
LEMMA RegenerateInOrder ==
    ASSUME MaxSeq <= PageLimit, LedgerTypeOK, NEW i \in Investments,
           NEW inv \in InvestmentDoc, inv.state # "absent",
           NEW rows, IsRows(rows), Regenerate(i, inv, rows), NEW k \in 0..MaxSeq,
           PaidPrefix(inv.outstanding, inv.terms.principal, rows, k),
           closings'[i] > 0 <=> inv.outstanding = 0
    PROVE  /\ InOrderAt(i)'
           /\ AccountOf(i)' = <<inv.state, inv.outstanding, inv.repaid>>
           /\ \A j \in Investments \ {i} : /\ investments'[j] = investments[j]
                                           /\ payments'[j] = payments[j]
                                           /\ events'[j] = events[j]
<1>. DEFINE meta == RegeneratedMeta(inv, rows)
            new == RegeneratedRows(inv, rows)
            built == Rebuilt(inv, rows)
<1>0. today \in Nat /\ RegenerateFits(inv, rows) /\ ~InsertFails(inv, rows)
  BY BoundsAssumption, RegenerateSees DEF LedgerTypeOK, Regenerate
<1>1. /\ meta.state = inv.state /\ meta.terms = inv.terms /\ meta.outstanding = inv.outstanding
      /\ meta.repaid = inv.repaid
  BY MetaAdds, MetaCollectsNothing
<1>2. PICK n \in k..MaxSeq :
        /\ Amortises(inv.outstanding, inv.terms.principal, built, n, k)
        /\ NewSeqs(inv, rows) = (k + 1)..n
  BY <1>0, RebuiltAmortises
<1>3. n \in 0..MaxSeq /\ k \in 0..n
  BY BoundsAssumption
<1>4. Relabelled(built, new)
  <2>1. IsRows(built)
    BY <1>0, RebuiltStep DEF RowsStep
  <2>. HIDE DEF built
  <2>2. Relabelled(built, RefreshedRows(built)) /\ IsRows(RefreshedRows(built))
    BY <2>1, RefreshedRelabels, RefreshedRowsStep DEF RowsStep
  <2>3. Relabelled(built, MarkedOverdue(RefreshedRows(built)))
    BY <2>2, MarkedRelabels, RelabelledTransitive
  <2>. QED  BY <1>0, <2>3 DEF RegeneratedRows, built
<1>5. Amortises(meta.outstanding, meta.terms.principal, new, n, k)
  <2>. HIDE DEF meta, new, built
  <2>. QED  BY <1>1, <1>2, <1>3, <1>4, RelabelledAmortises
<1>6. /\ investments'[i] = meta /\ payments'[i] = new
      /\ events'[i] = RegeneratedEvents(inv, rows, events[i])
      /\ \A j \in Investments \ {i} : /\ investments'[j] = investments[j]
                                      /\ payments'[j] = payments[j]
                                      /\ events'[j] = events[j]
  BY DEF Regenerate, LedgerTypeOK
<1>7. (k + 1)..n \subseteq events'[i]
  BY <1>0, <1>2, <1>6 DEF RegeneratedEvents
<1>. HIDE DEF meta, new, built
<1>8. InOrder(meta, new, events'[i], closings'[i])
  BY <1>1, <1>3, <1>5, <1>7 DEF InOrder
<1>. QED  BY <1>1, <1>6, <1>8 DEF InOrderAt, AccountOf

(* What being in order says of a live investment.                          *)
LEMMA InOrderFacts ==
    ASSUME LedgerTypeOK, NEW i \in Investments, InOrderAt(i), investments[i].state # "absent"
    PROVE  /\ closings[i] > 0 <=> investments[i].outstanding = 0
           /\ \E n \in 0..MaxSeq : \E k \in 0..n :
                 /\ Amortises(investments[i].outstanding, investments[i].terms.principal,
                              payments[i], n, k)
                 /\ (k + 1)..n \subseteq events[i]
                 /\ UnpaidSeqs(i) = (k + 1)..n
                 /\ \A s \in UnpaidSeqs(i) : payments[i][s].status \in Awaited \cup {"overdue"}
<1>1. PICK n \in 0..MaxSeq : \E k \in 0..n :
         /\ Amortises(investments[i].outstanding, investments[i].terms.principal, payments[i], n, k)
         /\ (k + 1)..n \subseteq events[i]
  BY DEF InOrderAt, InOrder
<1>2. PICK k \in 0..n :
         /\ Amortises(investments[i].outstanding, investments[i].terms.principal, payments[i], n, k)
         /\ (k + 1)..n \subseteq events[i]
  BY <1>1
<1>3. n \in Nat /\ k \in Nat /\ k <= n
  BY BoundsAssumption
<1>4. \A s \in (k + 1)..n : payments[i][s].status \in Awaited \cup {"overdue"}
  BY <1>2 DEF Amortises, Waits
<1>5. UnpaidSeqs(i) = (k + 1)..n
  <2>1. \A s \in 1..n : s \in 1..k \/ s \in (k + 1)..n
    BY <1>3
  <2>2. (k + 1)..n \subseteq 1..n /\ DOMAIN payments[i] = 1..n
    BY <1>2, <1>3 DEF Amortises
  <2>3. \A s \in 1..k : payments[i][s].status = "completed"
    BY <1>2 DEF Amortises
  <2>. QED  BY <1>4, <2>1, <2>2, <2>3 DEF UnpaidSeqs, Awaited
<1>6. closings[i] > 0 <=> investments[i].outstanding = 0
  BY DEF InOrderAt, InOrder
<1>. QED  BY <1>2, <1>4, <1>5, <1>6

(* POST /investments                                                       *)
LEMMA CreateOrderly ==
    ASSUME LedgerTypeOK, NEW i \in Investments, InOrderAt(i), NEW v \in Investors,
           NEW t \in Terms, NEW status \in StatusInputs, Create(i, v, t, status)
    PROVE  OrderlyStep(i)
<1>. DEFINE inv == [state |-> "live", investor |-> v, terms |-> t,
                    outstanding |-> t.principal, repaid |-> 0, earned |-> 0, status |-> status,
                    monthly |-> Instalment(t, t.principal, t.term), nextDue |-> NoDue]
            rows == GeneratedRows(t)
<1>1. /\ t.principal \in 1..MaxPrincipal /\ t.term \in 1..MaxSeq
      /\ status \in Statuses /\ today \in Nat
  BY TermsAssumption, BoundsAssumption DEF LedgerTypeOK
<1>2. inv \in InvestmentDoc
  <2>1. Instalment(t, t.principal, t.term) \in Nat
    BY <1>1, InstalmentAssumption
  <2>. QED  BY <1>1, <2>1, BoundsAssumption DEF InvestmentDoc, NoDue, Money
<1>3. /\ inv.state = "live" /\ inv.outstanding = t.principal /\ inv.terms = t /\ inv.repaid = 0
  OBVIOUS
<1>4. /\ Refresh(i, inv, rows) /\ investments[i].state = "absent"
      /\ events'[i] = 1..t.term /\ \A j \in Investments \ {i} : events'[j] = events[j]
      /\ closings' = closings
  BY DEF Create, LedgerTypeOK
<1>5. IsRows(rows) /\ Amortises(t.principal, t.principal, rows, t.term, 0)
  BY <1>1, GeneratedRowsFacts, GeneratedAmortises
<1>6. t.term \in 0..MaxSeq /\ 0 \in 0..t.term /\ (0 + 1)..t.term \subseteq 1..t.term
  BY <1>1, BoundsAssumption
<1>7. t.principal # 0 /\ closings[i] = 0
  BY <1>1, <1>4 DEF InOrderAt, InOrder
<1>. HIDE DEF inv, rows
<1>8. /\ InOrderAt(i)'
      /\ AccountOf(i)' = <<inv.state, inv.outstanding, inv.repaid>>
      /\ \A j \in Investments \ {i} : /\ investments'[j] = investments[j]
                                      /\ payments'[j] = payments[j]
  <2>1. Amortises(inv.outstanding, inv.terms.principal, rows, t.term, 0)
    BY <1>3, <1>5
  <2>2. closings'[i] > 0 <=> inv.outstanding = 0
    BY <1>3, <1>4, <1>7
  <2>3. (0 + 1)..t.term \subseteq events'[i]
    BY <1>4, <1>6
  <2>. QED  BY <1>2, <1>3, <1>4, <1>5, <1>6, <2>1, <2>2, <2>3, RefreshInOrder
<1>9. Lent(i)
  BY <1>3, <1>4, <1>8 DEF Lent, AccountOf
<1>. QED  BY <1>4, <1>8, <1>9 DEF OrderlyStep, Moves

(* A regeneration of the rows as they are, for other terms of the same     *)
(* principal or for the same terms.                                        *)
LEMMA RegenerationOrderly ==
    ASSUME MaxSeq <= PageLimit, LedgerTypeOK, NEW i \in Investments, InOrderAt(i),
           investments[i].state = "live", NEW inv \in InvestmentDoc,
           inv.state = "live", inv.outstanding = investments[i].outstanding,
           inv.repaid = investments[i].repaid,
           inv.terms.principal = investments[i].terms.principal,
           Regenerate(i, inv, payments[i]), closings' = closings
    PROVE  OrderlyStep(i)
<1>1. IsRows(payments[i])
  BY DEF LedgerTypeOK
<1>2. closings[i] > 0 <=> investments[i].outstanding = 0
  BY InOrderFacts
<1>. DEFINE Holds(n, k) ==
              Amortises(investments[i].outstanding, investments[i].terms.principal,
                        payments[i], n, k)
<1>3. \E n \in 0..MaxSeq : \E k \in 0..n : Holds(n, k)
  BY InOrderFacts
<1>4. PICK n \in 0..MaxSeq : \E k \in 0..n : Holds(n, k)
  BY <1>3
<1>5. PICK k \in 0..n : Holds(n, k)
  BY <1>4
<1>6. k \in 0..MaxSeq
  BY BoundsAssumption
<1>7. PaidPrefix(inv.outstanding, inv.terms.principal, payments[i], k)
  BY <1>5, AmortisesPrefix
<1>8. /\ InOrderAt(i)'
      /\ AccountOf(i)' = <<inv.state, inv.outstanding, inv.repaid>>
      /\ \A j \in Investments \ {i} : /\ investments'[j] = investments[j]
                                      /\ payments'[j] = payments[j]
                                      /\ events'[j] = events[j]
  <2>1. closings'[i] > 0 <=> inv.outstanding = 0
    BY <1>2
  <2>. QED  BY <1>1, <1>6, <1>7, <2>1, RegenerateInOrder
<1>9. UNCHANGED AccountOf(i)
  BY <1>8 DEF AccountOf
<1>. QED  BY <1>8, <1>9 DEF OrderlyStep

(* POST /payments/:id/mark-paid of the oldest row that waits, in full: the *)
(* repaid part is the principal of the row, by which its balance is lower. *)
LEMMA PayOldestOrderly ==
    ASSUME LedgerTypeOK, NEW i \in Investments, InOrderAt(i), NEW amount \in Nat,
           PayOldest(i, amount)
    PROVE  OrderlyStep(i)
<1>. DEFINE s    == Lowest(UnpaidSeqs(i))
            row  == payments[i][s]
            inv  == Credited(investments[i], row, amount)
            rows == WithPayment(payments[i], s, amount)
            owed == investments[i].outstanding
            lent == investments[i].terms.principal
            Holds(n, k) == /\ Amortises(owed, lent, payments[i], n, k)
                           /\ (k + 1)..n \subseteq events[i]
                           /\ UnpaidSeqs(i) = (k + 1)..n
<1>1. /\ UnpaidSeqs(i) # {} /\ Completes(row, amount) /\ MarkPaid(i, s, amount)
  BY DEF PayOldest
<1>2. /\ investments[i].state = "live" /\ s \in DOMAIN payments[i]
      /\ row.status # "completed"
      /\ Refresh(i, inv, rows) /\ events' = events
      /\ AnnounceClosing(i, inv.outstanding)
  BY <1>1 DEF MarkPaid, Payable
<1>3. /\ investments[i] \in InvestmentDoc /\ IsRows(payments[i]) /\ row \in Row
  BY <1>2 DEF LedgerTypeOK, IsRows
<1>4. /\ closings[i] > 0 <=> owed = 0
      /\ \E n \in 0..MaxSeq : \E k \in 0..n : Holds(n, k)
  BY <1>2, InOrderFacts
<1>5. PICK n \in 0..MaxSeq : \E k \in 0..n : Holds(n, k)
  BY <1>4
<1>6. PICK k \in 0..n : Holds(n, k)
  BY <1>5
<1>7. n \in Nat /\ k \in Nat /\ k < n /\ k + 1 \in (k + 1)..n
  BY <1>1, <1>6, BoundsAssumption
<1>8. s = k + 1
  <2>1. (k + 1)..n \in SUBSET Nat /\ \A u \in (k + 1)..n : k + 1 <= u
    BY <1>7
  <2>. QED  BY <1>6, <1>7, <2>1, LowestIs
<1>9. /\ inv \in InvestmentDoc /\ inv.state = "live"
  BY <1>2, <1>3, CreditedFacts
<1>10. IsRows(rows)
  BY <1>2, <1>3, WithPaymentStep DEF RowsStep
<1>11. /\ inv.outstanding = row.remaining /\ inv.terms = investments[i].terms
       /\ inv.repaid = investments[i].repaid + NewPrincipal(row, amount)
  BY <1>1, <1>3 DEF Credited, OutstandingAfter, InvestmentDoc
<1>12. /\ DOMAIN rows = DOMAIN payments[i]
       /\ rows[s].status = "completed" /\ rows[s].remaining = row.remaining
       /\ \A u \in DOMAIN payments[i] : u # s => rows[u] = payments[i][u]
  BY <1>1, <1>2, <1>3 DEF WithPayment, Row
<1>. HIDE DEF s, inv, rows
<1>13. /\ k + 1 \in 0..n
       /\ Amortises(row.remaining, lent, rows, n, k + 1)
       /\ Waits(row) /\ row.principal + row.remaining = owed
  BY <1>6, <1>7, <1>8, <1>12, PaidOldestAmortises
<1>14. NewPrincipal(row, amount) = row.principal
  <2>1. /\ row.principal \in Nat /\ row.interest \in Nat /\ row.amountPaid = 0
        /\ amount >= row.principal + row.interest
    BY <1>1, <1>3, <1>13 DEF Row, Waits, Completes
  <2>. HIDE DEF row
  <2>. QED  BY <2>1 DEF NewPrincipal, PrincipalOf, InterestOf, Minus, Smaller
<1>15. row.principal \in Nat /\ row.remaining \in Nat /\ owed \in Nat
  BY <1>3, BoundsAssumption DEF Row, InvestmentDoc, Money
<1>16. /\ closings'[i] > 0 <=> inv.outstanding = 0
       /\ \A j \in Investments \ {i} : closings'[j] = closings[j]
  <2>1. closings[i] > 0 => inv.outstanding = 0
    <3>1. closings[i] > 0 => owed = 0
      BY <1>4
    <3>2. row.principal + row.remaining = owed
      BY <1>13
    <3>. HIDE DEF row, owed
    <3>. QED  BY <1>11, <1>15, <3>1, <3>2
  <2>. QED  BY <1>2, <2>1, ClosingAnnounced
<1>17. (k + 1 + 1)..n \subseteq events'[i]
  BY <1>2, <1>6, <1>7
<1>18. /\ InOrderAt(i)'
       /\ AccountOf(i)' = <<inv.state, inv.outstanding, inv.repaid>>
       /\ \A j \in Investments \ {i} : /\ investments'[j] = investments[j]
                                       /\ payments'[j] = payments[j]
  <2>1. Amortises(inv.outstanding, inv.terms.principal, rows, n, k + 1)
    BY <1>11, <1>13
  <2>. QED  BY <1>2, <1>9, <1>10, <1>13, <1>16, <1>17, <2>1, RefreshInOrder
<1>19. Repaid(i, row.principal)
  <2>1. /\ investments'[i].state = "live" /\ investments'[i].outstanding = row.remaining
        /\ investments'[i].repaid = investments[i].repaid + row.principal
    BY <1>9, <1>11, <1>14, <1>18 DEF AccountOf
  <2>. HIDE DEF row
  <2>. QED  BY <1>2, <1>13, <1>15, <2>1 DEF Repaid
<1>. QED  BY <1>2, <1>15, <1>16, <1>18, <1>19 DEF OrderlyStep, Moves

(* POST /investments/:id/early-repayment: the principal part of what is    *)
(* applied is repaid, and the rows after it repay the rest.                *)
LEMMA EarlyRepaymentOrderly ==
    ASSUME MaxSeq <= PageLimit, LedgerTypeOK, NEW i \in Investments, InOrderAt(i),
           NEW amount \in Nat, NEW portion \in Nat, EarlyRepayment(i, amount, portion)
    PROVE  OrderlyStep(i)
<1>. DEFINE owed == investments[i].outstanding
            lent == investments[i].terms.principal
            applied == Smaller(amount, owed)
            interest == Smaller(portion, applied)
            row  == EarlyRow(investments[i], applied, interest)
            inv  == CreditedEarly(investments[i], row)
            rows == WithEarlyRow(payments[i], row)
            Holds(n, k) == Amortises(owed, lent, payments[i], n, k)
<1>1. /\ investments[i].state = "live" /\ applied > 0
      /\ EarlySeq(payments[i]) \notin DOMAIN PaidOnly(payments[i])
      /\ EarlySeq(payments[i]) <= MaxSeq
      /\ \/ row.remaining > 0 /\ Regenerate(i, inv, rows)
         \/ row.remaining = 0 /\ Refresh(i, inv, PaidOnly(rows)) /\ UNCHANGED events
      /\ AnnounceClosing(i, row.remaining)
  BY DEF EarlyRepayment
<1>2. /\ investments[i] \in InvestmentDoc /\ IsRows(payments[i]) /\ today \in Nat
      /\ owed \in Nat
  BY BoundsAssumption DEF LedgerTypeOK, InvestmentDoc, Money
<1>3. row \in Row /\ row.status = "completed" /\ inv \in InvestmentDoc /\ inv.state = "live"
  BY <1>1, <1>2, EarlyRowFacts
<1>4. /\ closings[i] > 0 <=> owed = 0
      /\ \E n \in 0..MaxSeq : \E k \in 0..n : Holds(n, k)
  BY <1>1, InOrderFacts
<1>5. PICK n \in 0..MaxSeq : \E k \in 0..n : Holds(n, k)
  BY <1>4
<1>6. PICK k \in 0..n : Holds(n, k)
  BY <1>5
<1>7. applied \in Nat /\ applied <= owed /\ interest \in Nat /\ interest <= applied
  BY <1>2 DEF Smaller
<1>. HIDE DEF applied, interest
<1>8. /\ row.principal = applied - interest /\ row.remaining = owed - row.principal
      /\ row.principal \in Nat /\ row.remaining \in Nat /\ row.principal <= owed
  BY <1>2, <1>7 DEF EarlyRow
<1>. HIDE DEF row
<1>9. /\ inv.outstanding = row.remaining /\ inv.terms = investments[i].terms
      /\ inv.repaid = investments[i].repaid + row.principal
  BY <1>2 DEF CreditedEarly, InvestmentDoc
<1>10. /\ EarlySeq(payments[i]) = k + 1
       /\ PaidPrefix(row.remaining, lent, rows, k + 1)
  BY <1>2, <1>3, <1>6, EarlyRowPrefix
<1>11. k + 1 \in 0..MaxSeq /\ k \in Nat
  BY <1>1, <1>10, BoundsAssumption
<1>12. IsRows(rows) /\ IsRows(PaidOnly(rows))
  BY <1>1, <1>2, <1>3, WithEarlyRowStep, PaidOnlyFacts DEF RowsStep
<1>. HIDE DEF inv, rows
<1>13. /\ closings'[i] > 0 <=> inv.outstanding = 0
       /\ \A j \in Investments \ {i} : closings'[j] = closings[j]
  <2>1. closings[i] > 0 => row.remaining = 0
    BY <1>1, <1>4, <1>7
  <2>. QED  BY <1>1, <1>9, <2>1, ClosingAnnounced
<1>14. /\ InOrderAt(i)'
       /\ AccountOf(i)' = <<inv.state, inv.outstanding, inv.repaid>>
       /\ \A j \in Investments \ {i} : /\ investments'[j] = investments[j]
                                       /\ payments'[j] = payments[j]
                                       /\ events'[j] = events[j]
  <2>1. CASE Regenerate(i, inv, rows)
    <3>1. PaidPrefix(inv.outstanding, inv.terms.principal, rows, k + 1)
      BY <1>9, <1>10
    <3>. QED  BY <1>3, <1>11, <1>12, <1>13, <2>1, <3>1, RegenerateInOrder
  <2>2. CASE row.remaining = 0 /\ Refresh(i, inv, PaidOnly(rows)) /\ UNCHANGED events
    <3>1. Amortises(inv.outstanding, inv.terms.principal, PaidOnly(rows), k + 1, k + 1)
      BY <1>9, <1>10, <1>11, <1>12, <2>2, PrefixAmortises
    <3>2. k + 1 \in 0..(k + 1) /\ (k + 1 + 1)..(k + 1) \subseteq events'[i]
      BY <1>11
    <3>. QED  BY <1>3, <1>11, <1>12, <1>13, <2>2, <3>1, <3>2, RefreshInOrder
  <2>. QED  BY <1>1, <2>1, <2>2
<1>15. Repaid(i, row.principal)
  <2>1. /\ investments'[i].state = "live" /\ investments'[i].outstanding = row.remaining
        /\ investments'[i].repaid = investments[i].repaid + row.principal
    BY <1>3, <1>9, <1>14 DEF AccountOf
  <2>. QED  BY <1>1, <1>8, <2>1 DEF Repaid
<1>. QED  BY <1>8, <1>13, <1>14, <1>15 DEF OrderlyStep, Moves

(* PATCH without schedule fields, and DELETE.                              *)
LEMMA DocumentOrderly ==
    ASSUME LedgerTypeOK, NEW i \in Investments, InOrderAt(i),
           Remove(i) \/ \E status \in StatusInputs : UpdateStatus(i, status)
    PROVE  OrderlyStep(i)
<1>1. /\ investments[i].state = "live" /\ investments'[i].state \in {"live", "deleted"}
      /\ investments'[i].outstanding = investments[i].outstanding
      /\ investments'[i].repaid = investments[i].repaid
      /\ investments'[i].terms = investments[i].terms
      /\ \A j \in Investments \ {i} : investments'[j] = investments[j]
      /\ payments' = payments /\ events' = events /\ closings' = closings
  BY DEF Remove, UpdateStatus, LedgerTypeOK, InvestmentDoc
<1>2. InOrderAt(i)'
  BY <1>1 DEF InOrderAt, InOrder
<1>3. UNCHANGED AccountOf(i) \/ Withdrawn(i)
  BY <1>1 DEF AccountOf, Withdrawn
<1>. QED  BY <1>1, <1>2, <1>3 DEF OrderlyStep, Moves

(* PATCH with schedule fields, the principal among them unchanged.         *)
LEMMA ChangeTermsOrderly ==
    ASSUME MaxSeq <= PageLimit, LedgerTypeOK, NEW i \in Investments, InOrderAt(i),
           NEW t \in Terms, NEW repriced \in BOOLEAN, NEW status \in Statuses,
           ChangeTerms(i, t, repriced, status)
    PROVE  OrderlyStep(i)
<1>. DEFINE old == investments[i]
            monthly == IF repriced THEN Instalment(t, t.principal, t.term) ELSE old.monthly
            inv == [old EXCEPT !.terms = t, !.status = status, !.monthly = monthly]
<1>1. old \in InvestmentDoc /\ old.state = "live" /\ t.principal = old.terms.principal
  BY DEF LedgerTypeOK, ChangeTerms, UpdateTerms
<1>2. monthly \in Nat
  <2>1. Instalment(t, t.principal, t.term) \in Nat
    BY TermsAssumption, InstalmentAssumption
  <2>. QED  BY <1>1, <2>1 DEF InvestmentDoc
<1>3. Regenerate(i, inv, payments[i]) /\ closings' = closings
  BY <1>1 DEF ChangeTerms, UpdateTerms, InvestmentDoc
<1>. HIDE DEF monthly
<1>4. /\ inv \in InvestmentDoc /\ inv.state = "live" /\ inv.terms.principal = old.terms.principal
      /\ inv.outstanding = old.outstanding /\ inv.repaid = old.repaid
  BY <1>1, <1>2 DEF InvestmentDoc
<1>. HIDE DEF inv
<1>. QED  BY <1>1, <1>3, <1>4, RegenerationOrderly

(* GET /investments/:id/payments.                                          *)
LEMMA ListPaymentsOrderly ==
    ASSUME LedgerTypeOK, NEW i \in Investments, InOrderAt(i), ListPayments(i)
    PROVE  OrderlyStep(i)
<1>1. /\ investments[i].state = "live"
      /\ payments'[i] = MarkedOverdue(payments[i])
      /\ \A j \in Investments \ {i} : payments'[j] = payments[j]
      /\ investments' = investments /\ events' = events /\ closings' = closings
  BY DEF ListPayments, LedgerTypeOK
<1>2. Relabelled(payments[i], MarkedOverdue(payments[i]))
  BY MarkedRelabels DEF LedgerTypeOK
<1>3. InOrderAt(i)'
  BY <1>1, <1>2, RelabelledAmortises DEF InOrderAt, InOrder
<1>4. UNCHANGED AccountOf(i)
  BY <1>1 DEF AccountOf
<1>. QED  BY <1>1, <1>3, <1>4 DEF OrderlyStep

(* A step that writes no document and at most relabels the rows.           *)
LEMMA SweepInOrder ==
    ASSUME LedgerTypeOK, OrderlyInv, UNCHANGED <<investments, events, closings>>,
           \A j \in Investments : Relabelled(payments[j], payments'[j])
    PROVE  OrderlyInv'
<1>1. ASSUME NEW j \in Investments
      PROVE  InOrder(investments'[j], payments'[j], events'[j], closings'[j])
  <2>1. /\ InOrder(investments[j], payments[j], events[j], closings[j])
        /\ Relabelled(payments[j], payments'[j])
    BY DEF OrderlyInv
  <2>2. CASE investments[j].state = "absent"
    BY <2>1, <2>2 DEF InOrder, Relabelled
  <2>3. CASE investments[j].state # "absent"
    BY <2>1, <2>3, RelabelledAmortises DEF InOrder
  <2>. QED  BY <2>2, <2>3
<1>. QED  BY <1>1 DEF OrderlyInv

-----------------------------------------------------------------------------
(* Orderly servicing is a way of using the ledger: each of its steps is a  *)
(* step of InvestmentLedger, so that what holds of the ledger holds here.  *)
LEMMA OrderlyIsServing ==
    ASSUME LedgerTypeOK, [OrderlyNext]_vars
    PROVE  [Next]_vars
<1>1. ASSUME NEW i \in Investments, OrderlyRequest(i) PROVE Request(i)
  <2>1. CASE \E v \in Investors, t \in Terms, status \in StatusInputs : Create(i, v, t, status)
    BY <2>1 DEF Request
  <2>2. ASSUME NEW t \in Terms, NEW repriced \in BOOLEAN,
               ChangeTerms(i, t, repriced, investments[i].status)
        PROVE  Request(i)
    BY <2>2 DEF Request, ChangeTerms
  <2>3. CASE \E status \in StatusInputs : UpdateStatus(i, status)
    BY <2>3 DEF Request
  <2>4. CASE Remove(i) \/ RegenerateSchedule(i) \/ ListPayments(i)
    BY <2>4 DEF Request
  <2>5. ASSUME NEW amount, PayOldest(i, amount) PROVE Request(i)
    <3>. DEFINE s == Lowest(UnpaidSeqs(i))
    <3>1. MarkPaid(i, s, amount)
      BY <2>5 DEF PayOldest
    <3>2. s \in DOMAIN payments[i] /\ amount \in Amounts \cup {payments[i][s].total}
      BY <3>1 DEF MarkPaid, Payable, AmountFor
    <3>. HIDE DEF s
    <3>. QED  BY <3>1, <3>2 DEF Request
  <2>6. ASSUME NEW amount \in Amounts, NEW portion \in InterestPortions,
               EarlyRepayment(i, amount, portion)
        PROVE  Request(i)
    BY <2>6 DEF Request
  <2>. QED  BY <1>1, <2>1, <2>2, <2>3, <2>4, <2>5, <2>6 DEF OrderlyRequest
<1>. QED  BY <1>1 DEF OrderlyNext, Next

(* What a step of orderly servicing does: it is a step of one investment,  *)
(* or it moves no account.                                                 *)
LEMMA OrderlySteps ==
    ASSUME MaxSeq <= PageLimit, LedgerTypeOK, OrderlyInv, [OrderlyNext]_vars
    PROVE  /\ OrderlyInv'
           /\ \/ UNCHANGED investments
              \/ \E i \in Investments : OrderlyStep(i)
<1>1. ASSUME NEW i \in Investments, OrderlyRequest(i) PROVE OrderlyStep(i)
  <2>0. InOrderAt(i) /\ investments[i] \in InvestmentDoc
    BY DEF InOrderAt, OrderlyInv, LedgerTypeOK
  <2>1. ASSUME NEW v \in Investors, NEW t \in Terms, NEW status \in StatusInputs,
               Create(i, v, t, status)
        PROVE  OrderlyStep(i)
    BY <2>0, <2>1, CreateOrderly
  <2>2. ASSUME NEW t \in Terms, NEW repriced \in BOOLEAN,
               ChangeTerms(i, t, repriced, investments[i].status)
        PROVE  OrderlyStep(i)
    <3>1. investments[i].status \in Statuses
      BY <2>0 DEF InvestmentDoc
    <3>. QED  BY <2>0, <2>2, <3>1, ChangeTermsOrderly
  <2>3. ASSUME NEW status \in StatusInputs, UpdateStatus(i, status) PROVE OrderlyStep(i)
    BY <2>0, <2>3, DocumentOrderly
  <2>4. CASE Remove(i)
    BY <2>0, <2>4, DocumentOrderly
  <2>5. CASE RegenerateSchedule(i)
    BY <2>0, <2>5, RegenerationOrderly DEF RegenerateSchedule
  <2>6. ASSUME NEW amount \in Amounts \cup {payments[i][s].total : s \in DOMAIN payments[i]},
               PayOldest(i, amount)
        PROVE  OrderlyStep(i)
    <3>1. \A s \in DOMAIN payments[i] : payments[i][s] \in Row
      BY DEF LedgerTypeOK, IsRows
    <3>2. amount \in Nat
      BY <3>1, BoundsAssumption DEF Row
    <3>. QED  BY <2>0, <2>6, <3>2, PayOldestOrderly
  <2>7. ASSUME NEW amount \in Amounts, NEW portion \in InterestPortions,
               EarlyRepayment(i, amount, portion)
        PROVE  OrderlyStep(i)
    BY <2>0, <2>7, EarlyRepaymentOrderly, BoundsAssumption
  <2>8. CASE ListPayments(i)
    BY <2>0, <2>8, ListPaymentsOrderly
  <2>. QED
    BY <1>1, <2>1, <2>2, <2>3, <2>4, <2>5, <2>6, <2>7, <2>8 DEF OrderlyRequest
<1>2. ASSUME NEW i \in Investments, OrderlyStep(i) PROVE OrderlyInv'
  BY <1>2 DEF OrderlyStep, OrderlyInv, InOrderAt
<1>3. CASE \E v \in Investors : RemoveInvestor(v)
  BY <1>3 DEF RemoveInvestor, OrderlyInv
<1>4. CASE SweepOverdue
  <2>1. \A j \in Investments : Relabelled(payments[j], MarkedOverdue(payments[j]))
    BY MarkedRelabels DEF LedgerTypeOK
  <2>2. /\ \A j \in Investments : payments'[j] = MarkedOverdue(payments[j])
        /\ UNCHANGED <<investments, events, closings>>
    BY <1>4 DEF SweepOverdue
  <2>. QED  BY <2>1, <2>2, SweepInOrder
<1>5. CASE MonthPasses \/ UNCHANGED vars
  BY <1>5 DEF MonthPasses, vars, OrderlyInv
<1>. QED  BY <1>1, <1>2, <1>3, <1>4, <1>5 DEF OrderlyNext

(* The first state: no investment has rows, or was announced closed.       *)
LEMMA OrderlyAtFirst == Init => OrderlyInv
BY DEF Init, OrderlyInv, InOrder, Absent

(* Orderly servicing keeps the invariants of the ledger, and its own.      *)
LEMMA OrderlyServes ==
    ASSUME MaxSeq <= PageLimit
    PROVE  OrderlySpec => [](IInv /\ OrderlyInv)
<1>1. Init => IInv /\ OrderlyInv
  BY InitTyped, InitServes, OrderlyAtFirst DEF IInv
<1>2. IInv /\ OrderlyInv /\ [OrderlyNext]_vars => (IInv /\ OrderlyInv)'
  <2>. SUFFICES ASSUME IInv, OrderlyInv, [OrderlyNext]_vars PROVE IInv' /\ OrderlyInv'
    OBVIOUS
  <2>1. LedgerTypeOK
    BY DEF IInv
  <2>2. [Next]_vars
    BY <2>1, OrderlyIsServing
  <2>. QED  BY <2>1, <2>2, NextKeeps, OrderlySteps
<1>. QED  BY <1>1, <1>2, PTL DEF OrderlySpec

-----------------------------------------------------------------------------
(* The unpaid rows repay exactly what is outstanding: the balance after    *)
(* each waiting row is the one before it less its principal, and the last  *)
(* is zero (investment.service.ts:281-318).                                *)
THEOREM ScheduleAlwaysAmortises ==
    ASSUME MaxSeq <= PageLimit
    PROVE  OrderlySpec => []ScheduleAmortisesOutstanding
<1>1. ASSUME IInv, OrderlyInv PROVE ScheduleAmortisesOutstanding
  <2>. SUFFICES ASSUME NEW i \in Investments, investments[i].state = "live"
                PROVE  SumFunction([s \in UnpaidSeqs(i) |-> payments[i][s].principal])
                         = investments[i].outstanding
    BY DEF ScheduleAmortisesOutstanding
  <2>. DEFINE owed == investments[i].outstanding
              rows == payments[i]
              Holds(n, k) == /\ Amortises(owed, investments[i].terms.principal, rows, n, k)
                             /\ UnpaidSeqs(i) = (k + 1)..n
  <2>1. /\ LedgerTypeOK /\ InOrderAt(i) /\ IsRows(rows) /\ owed \in Nat
    BY <1>1, BoundsAssumption DEF IInv, OrderlyInv, InOrderAt, LedgerTypeOK, InvestmentDoc, Money
  <2>2. \E n \in 0..MaxSeq : \E k \in 0..n : Holds(n, k)
    BY <2>1, InOrderFacts
  <2>3. PICK n \in 0..MaxSeq : \E k \in 0..n : Holds(n, k)
    BY <2>2
  <2>4. PICK k \in 0..n : Holds(n, k)
    BY <2>3
  <2>5. n \in Nat /\ k \in Nat /\ k <= n
    BY BoundsAssumption
  <2>. DEFINE r == [s \in k..n |-> IF s = k THEN owed ELSE rows[s].remaining]
              f == [s \in (k + 1)..n |-> rows[s].principal]
  <2>6. ASSUME NEW s \in (k + 1)..n
        PROVE  /\ s \in k..n /\ s # k /\ s - 1 \in k..n
               /\ rows[s].principal \in Nat /\ rows[s].remaining \in Nat
               /\ rows[s].principal + rows[s].remaining = Before(owed, rows, k, s)
    <3>1. s \in 1..n /\ s \in k..n /\ s # k /\ s - 1 \in k..n
      BY <2>5
    <3>2. rows[s] \in Row
      BY <2>1, <2>4, <3>1 DEF IsRows, Amortises
    <3>3. rows[s].principal + rows[s].remaining = Before(owed, rows, k, s)
      BY <2>4 DEF Amortises
    <3>. QED  BY <3>1, <3>2, <3>3, BoundsAssumption DEF Row, Money
  <2>7. r \in [k..n -> Int]
    <3>1. ASSUME NEW s \in k..n PROVE (IF s = k THEN owed ELSE rows[s].remaining) \in Int
      <4>1. s = k \/ s \in (k + 1)..n
        BY <2>5
      <4>. QED  BY <2>1, <2>6, <4>1
    <3>. QED  BY <3>1
  <2>8. f \in [(k + 1)..n -> Int]
    BY <2>6
  <2>9. ASSUME NEW s \in (k + 1)..n PROVE f[s] = r[s - 1] - r[s]
    <3>1. r[s - 1] = Before(owed, rows, k, s)
      <4>1. s - 1 = k <=> s = k + 1
        BY <2>5
      <4>. QED  BY <2>6, <4>1 DEF Before
    <3>2. r[s] = rows[s].remaining /\ f[s] = rows[s].principal
      BY <2>6
    <3>3. Before(owed, rows, k, s) \in Int
      BY <2>6
    <3>. HIDE DEF r, f, rows
    <3>. QED  BY <2>6, <3>1, <3>2, <3>3
  <2>10. r[k] = owed /\ r[n] = 0
    <3>1. k \in k..n /\ n \in k..n
      BY <2>5
    <3>. QED  BY <2>4, <2>5, <3>1 DEF Amortises
  <2>11. SumFunction(f) = r[k] - r[n]
    <3>. HIDE DEF r, f
    <3>. QED  BY <2>5, <2>7, <2>8, <2>9, SumTelescopes
  <2>12. [s \in UnpaidSeqs(i) |-> payments[i][s].principal] = f
    BY <2>4
  <2>. QED  BY <2>1, <2>10, <2>11, <2>12
<1>. QED  BY <1>1, OrderlyServes, PTL

(* The rows are numbered without a gap, and the next payment the document  *)
(* shows is the oldest unpaid instalment, whatever is overdue              *)
(* (investment.service.ts:588, 674-703).                                   *)
THEOREM RowsAlwaysInOrder ==
    ASSUME MaxSeq <= PageLimit
    PROVE  OrderlySpec => []RowsInOrder
<1>1. ASSUME IInv, OrderlyInv, NEW i \in Investments
      PROVE  DOMAIN payments[i] = 1..Cardinality(DOMAIN payments[i])
  <2>1. ASSUME NEW n \in Nat PROVE Cardinality(1..n) = n
    <3>1. 1 \in Int /\ n \in Int /\ (1 > n => n = 0)
      OBVIOUS
    <3>2. Cardinality(1..n) = IF 1 > n THEN 0 ELSE n - 1 + 1
      BY <3>1, FS_Interval
    <3>. QED  BY <3>1, <3>2
  <2>2. \E n \in Nat : DOMAIN payments[i] = 1..n
    <3>1. CASE investments[i].state = "absent"
      <4>1. DOMAIN payments[i] = 1..0
        BY <1>1, <3>1 DEF OrderlyInv, InOrder
      <4>. QED  BY <4>1
    <3>2. CASE investments[i].state # "absent"
      BY <1>1, <3>2, BoundsAssumption DEF OrderlyInv, InOrder, Amortises
    <3>. QED  BY <3>1, <3>2
  <2>. QED  BY <2>1, <2>2
<1>2. ASSUME MaxSeq <= PageLimit, IInv, OrderlyInv, NEW i \in Investments,
             investments[i].state = "live", UnpaidSeqs(i) # {}
      PROVE  NextOpen(payments[i]) = Lowest(UnpaidSeqs(i))
  <2>. DEFINE rows == payments[i]
              open == UnpaidSeqs(i)
              next == NextOpen(rows)
  <2>1. /\ LedgerTypeOK /\ InOrderAt(i) /\ IsRows(rows)
        /\ Ordered(rows) /\ Fresh(investments[i], rows)
    BY <1>2 DEF IInv, OrderlyInv, InOrderAt, LedgerTypeOK, Servicing, Serviced
  <2>2. open \subseteq DOMAIN rows /\ \A s \in open : rows[s].status \in Ahead \cup Due
    BY <1>2, <2>1, InOrderFacts DEF UnpaidSeqs, Awaited, Ahead, Due
  <2>3. Unpaid(rows) = open /\ DueNext(rows) = {s \in DOMAIN rows : rows[s].status \in Due}
    BY <1>2, <2>1, AllVisible DEF UnpaidSeqs
  <2>4. DueNext(rows) # {}
    BY <1>2, <2>1, <2>3 DEF Fresh
  <2>5. next \in DueNext(rows) /\ \A u \in DueNext(rows) : next <= u
    BY <1>2, <2>1, <2>3, <2>4, NextOpenIs
  <2>6. open \in SUBSET Nat /\ next \in open
    BY <2>1, <2>2, <2>3, <2>5, BoundsAssumption DEF IsRows, DueNext
  <2>7. ASSUME NEW u \in open PROVE next <= u
    <3>1. CASE rows[u].status \in Due
      BY <2>2, <2>3, <2>5, <3>1
    <3>2. CASE rows[u].status \in Ahead
      <4>1. next < u
        BY <2>1, <2>2, <2>3, <2>5, <3>2 DEF Ordered
      <4>. QED  BY <2>6, <4>1
    <3>. QED  BY <2>2, <3>1, <3>2
  <2>. HIDE DEF open, next
  <2>8. Lowest(open) = next
    BY <2>6, <2>7, LowestIs
  <2>. QED  BY <2>8 DEF open, next
<1>3. IInv /\ OrderlyInv => RowsInOrder
  BY <1>1, <1>2 DEF RowsInOrder
<1>. QED  BY <1>3, OrderlyServes, PTL

(* Every unpaid instalment is announced, and a loan is announced fully     *)
(* repaid exactly when nothing of it is outstanding                        *)
(* (investment.service.ts:354, 498-509, 619-631).                          *)
THEOREM TimelineAlwaysAnnounced ==
    ASSUME MaxSeq <= PageLimit
    PROVE  OrderlySpec => []TimelineAnnounced
<1>1. ASSUME IInv, OrderlyInv, NEW i \in Investments
      PROVE  /\ UnpaidSeqs(i) \subseteq events[i]
             /\ investments[i].state # "absent" =>
                    (closings[i] > 0 <=> investments[i].outstanding = 0)
  <2>1. CASE investments[i].state = "absent"
    BY <1>1, <2>1 DEF OrderlyInv, InOrder, UnpaidSeqs
  <2>2. CASE investments[i].state # "absent"
    BY <1>1, <2>2, InOrderFacts DEF IInv, OrderlyInv, InOrderAt
  <2>. QED  BY <2>1, <2>2
<1>2. IInv /\ OrderlyInv => TimelineAnnounced
  BY <1>1 DEF TimelineAnnounced
<1>. QED  BY <1>2, OrderlyServes, PTL

-----------------------------------------------------------------------------
(* The account of the investments, as the refinement maps it.              *)
accountOf == [i \in Investments |-> [stage  |-> Stage(investments[i].state),
                                     owed   |-> investments[i].outstanding,
                                     repaid |-> investments[i].repaid]]

(* A step of one investment lends, repays or withdraws its loan, or leaves *)
(* its account as it was.                                                  *)
LEMMA StepMovesTheAccount ==
    ASSUME LedgerTypeOK, NEW i \in Investments, OrderlyStep(i)
    PROVE  [Account!Next]_accountOf
<1>. DEFINE of == accountOf[i]
<1>1. /\ of = [stage  |-> Stage(investments[i].state), owed |-> investments[i].outstanding,
               repaid |-> investments[i].repaid]
      /\ of' = [stage  |-> Stage(investments'[i].state), owed |-> investments'[i].outstanding,
                repaid |-> investments'[i].repaid]
  BY DEF accountOf
<1>2. accountOf' = [accountOf EXCEPT ![i] = of']
  BY DEF accountOf, OrderlyStep
<1>3. CASE UNCHANGED AccountOf(i)
  BY <1>1, <1>2, <1>3 DEF AccountOf, accountOf
<1>4. CASE Lent(i)
  <2>1. PICK t \in Terms : /\ investments[i].state = "absent" /\ investments'[i].state = "live"
                           /\ investments'[i].outstanding = t.principal
                           /\ investments'[i].repaid = 0
    BY <1>4 DEF Lent
  <2>2. Account!Lend(i, t.principal)
    BY <1>1, <1>2, <2>1 DEF Account!Lend, accountOf, Stage
  <2>. QED  BY <2>2 DEF Account!Next
<1>5. ASSUME NEW part \in Nat, Repaid(i, part)
      PROVE  [Account!Next]_accountOf
  <2>1. /\ investments[i].state = "live" /\ investments'[i].state = "live"
        /\ investments[i].outstanding \in Nat /\ investments[i].repaid \in Nat
        /\ part <= investments[i].outstanding
        /\ investments'[i].outstanding = investments[i].outstanding - part
        /\ investments'[i].repaid = investments[i].repaid + part
    BY <1>5, BoundsAssumption DEF Repaid, LedgerTypeOK, InvestmentDoc, Money
  <2>2. CASE part = 0
    <3>1. UNCHANGED AccountOf(i)
      BY <2>1, <2>2 DEF AccountOf
    <3>. QED  BY <1>3, <3>1
  <2>3. CASE part # 0
    <3>1. part \in 1..accountOf[i].owed
      BY <1>1, <2>1, <2>3
    <3>2. Account!Repay(i, part)
      BY <1>1, <1>2, <2>1 DEF Account!Repay, accountOf, Stage
    <3>. QED  BY <3>1, <3>2 DEF Account!Next, accountOf
  <2>. QED  BY <2>2, <2>3
<1>6. CASE Withdrawn(i)
  <2>1. Account!Withdraw(i)
    BY <1>1, <1>2, <1>6 DEF Withdrawn, Account!Withdraw, accountOf, Stage
  <2>. QED  BY <2>1 DEF Account!Next
<1>. QED  BY <1>3, <1>4, <1>5, <1>6 DEF OrderlyStep, Moves

(* Served in order, the ledger implements LoanAccount: what is owed only   *)
(* falls, by exactly what is booked as repaid, although markPaid and       *)
(* earlyRepayment compute the two apart (investment.service.ts:461-495,    *)
(* 583-617).                                                               *)
THEOREM OrderlyImplementsLoanAccount ==
    ASSUME MaxSeq <= PageLimit
    PROVE  OrderlySpec => ImplementsLoanAccount
<1>1. Init => Account!Init
  BY DEF Init, Account!Init, Absent, Stage
<1>2. ASSUME IInv, OrderlyInv, [OrderlyNext]_vars
      PROVE  [Account!Next]_accountOf
  <2>1. LedgerTypeOK
    BY <1>2 DEF IInv
  <2>2. \/ UNCHANGED investments
        \/ \E i \in Investments : OrderlyStep(i)
    BY <1>2, <2>1, OrderlySteps
  <2>3. CASE UNCHANGED investments
    BY <2>3 DEF accountOf
  <2>4. CASE \E i \in Investments : OrderlyStep(i)
    BY <2>1, <2>4, StepMovesTheAccount
  <2>. QED  BY <2>2, <2>3, <2>4
<1>3. IInv /\ OrderlyInv /\ [OrderlyNext]_vars => [Account!Next]_accountOf
  BY <1>2
<1>. QED
  BY <1>1, <1>3, OrderlyServes, PTL
     DEF OrderlySpec, ImplementsLoanAccount, Account!Spec, accountOf
=============================================================================
