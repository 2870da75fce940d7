----------------------- MODULE InvestmentLedgerProofs -----------------------
(***************************************************************************)
(* Theorems about InvestmentLedger, for every value of its constants that  *)
(* its assumptions admit: any number of investments and investors, any     *)
(* terms, any page limit, and any schedule engine that keeps the contract  *)
(* PlanAssumption.                                                         *)
(*                                                                         *)
(* A request works on the rows of one investment through a few operators   *)
(* (mark overdue, refresh, regenerate, pay).  RowsStep says what each of   *)
(* them keeps; it is transitive, so that a handler keeps it because the    *)
(* operators it is built from do.                                          *)
(***************************************************************************)
EXTENDS InvestmentLedger, FiniteSums

RowsKept(old, new) ==
    \A s \in DOMAIN old :
        old[s].status = "completed" => s \in DOMAIN new /\ new[s] = old[s]

RowsStep(old, new) ==
    /\ IsRows(new)
    /\ RowsKept(old, new)
    /\ OneUpcoming(old) => OneUpcoming(new)

(* What a step of the system does to the rows of every investment. *)
PaymentsStep ==
    /\ payments' = [j \in Investments |-> payments'[j]]
    /\ \A j \in Investments : RowsStep(payments[j], payments'[j])

-----------------------------------------------------------------------------
(* A non-empty set of naturals has a least element. *)
LEMMA NatHasLowest ==
    ASSUME NEW S \in SUBSET Nat, S # {}
    PROVE  \E s \in S : \A u \in S : s <= u
<1>1. \E x \in S : \A y \in S : ~ (<<y, x>> \in OpToRel(<, Nat))
  BY NatLessThanWellFounded, WFMin
<1>2. PICK x \in S : \A y \in S : ~ (<<y, x>> \in OpToRel(<, Nat))
  BY <1>1
<1>3. ASSUME NEW y \in S, y < x PROVE FALSE
  <2>1. <<y, x>> \in Nat \X Nat /\ <<y, x>>[1] < <<y, x>>[2]
    BY <1>3
  <2>2. <<y, x>> \in OpToRel(<, Nat)
    BY <2>1, Zenon DEF OpToRel
  <2>. QED  BY <2>2, <1>2
<1>4. \A y \in S : x <= y
  BY <1>3
<1>. QED  BY <1>4

(* Lowest returns a member of the set. *)
LEMMA LowestIn ==
    ASSUME NEW S \in SUBSET Nat, S # {}
    PROVE  Lowest(S) \in S /\ \A u \in S : Lowest(S) <= u
BY NatHasLowest DEF Lowest

(* Highest returns a member of a set of sequence numbers, 0 of none. *)
LEMMA HighestIn ==
    ASSUME NEW S \in SUBSET (1..MaxSeq)
    PROVE  /\ Highest(S) \in 0..MaxSeq
           /\ S # {} => Highest(S) \in S
           /\ \A u \in S : u <= Highest(S)
<1>. DEFINE U == {n \in Nat : \A s \in S : s <= n}
<1>1. CASE S = {}
  BY <1>1, BoundsAssumption DEF Highest
<1>2. CASE S # {}
  <2>1. MaxSeq \in U
    BY BoundsAssumption
  <2>2. PICK m \in U : \A n \in U : m <= n
    <3>1. U \in SUBSET Nat /\ U # {}
      BY <2>1
    <3>. HIDE DEF U
    <3>. QED  BY <3>1, NatHasLowest
  <2>3. m \in S
    <3>1. SUFFICES ASSUME m \notin S PROVE FALSE
      OBVIOUS
    <3>2. PICK s \in S : s \in 1..MaxSeq
      BY <1>2
    <3>3. \A u \in S : u \in Nat /\ u <= m - 1
      BY <3>1, BoundsAssumption
    <3>4. m - 1 \in U
      BY <3>2, <3>3
    <3>. QED  BY <3>4, <2>2
  <2>4. \E s \in S : \A u \in S : u <= s
    BY <2>3
  <2>5. Highest(S) \in S /\ \A u \in S : u <= Highest(S)
    BY <1>2, <2>4 DEF Highest
  <2>6. Highest(S) \in 1..MaxSeq
    BY <2>5
  <2>7. Highest(S) \in 0..MaxSeq
    BY <2>6, BoundsAssumption
  <2>. QED  BY <2>5, <2>7, <1>2
<1>. QED  BY <1>1, <1>2

-----------------------------------------------------------------------------
(* Leaving the rows alone is a row step. *)
LEMMA RowsStepReflexive ==
    ASSUME NEW rows, IsRows(rows)
    PROVE  RowsStep(rows, rows)
BY DEF RowsStep, RowsKept

(* A handler that chains two row updates keeps what both keep.             *)
LEMMA RowsStepTransitive ==
    ASSUME NEW a, NEW b, NEW c, RowsStep(a, b), RowsStep(b, c)
    PROVE  RowsStep(a, c)
BY DEF RowsStep, RowsKept

(* A row keeps its type when only its status changes. *)
LEMMA WithStatusRow ==
    ASSUME NEW row \in Row, NEW status \in RowStatuses
    PROVE  /\ WithStatus(row, status) \in Row
           /\ WithStatus(row, status).status = status
BY DEF WithStatus, Row

(* Marking rows overdue completes and un-completes nothing, and makes no   *)
(* row upcoming.                                                           *)
LEMMA MarkedOverdueStep ==
    ASSUME NEW rows, IsRows(rows)
    PROVE  RowsStep(rows, MarkedOverdue(rows))
<1>. DEFINE new == MarkedOverdue(rows)
<1>1. /\ DOMAIN new = DOMAIN rows
      /\ \A s \in DOMAIN rows :
            \/ new[s] = rows[s]
            \/ rows[s].status \in Awaited /\ new[s] = WithStatus(rows[s], "overdue")
  BY DEF MarkedOverdue
<1>2. \A s \in DOMAIN rows :
        /\ rows[s] \in Row
        /\ WithStatus(rows[s], "overdue") \in Row
        /\ WithStatus(rows[s], "overdue").status = "overdue"
  BY WithStatusRow DEF IsRows, RowStatuses
<1>3. IsRows(new)
  <2>1. new \in [DOMAIN rows -> Row]
    BY <1>1, <1>2 DEF MarkedOverdue
  <2>. QED  BY <2>1, <1>1 DEF IsRows
<1>. HIDE DEF new
<1>4. RowsKept(rows, new)
  BY <1>1 DEF RowsKept, Awaited
<1>5. OneUpcoming(rows) => OneUpcoming(new)
  BY <1>1, <1>2 DEF OneUpcoming
<1>. QED  BY <1>3, <1>4, <1>5 DEF RowsStep, new

(* The next payment is one of the rows that are not completed. *)
LEMMA NextOpenUnpaid ==
    ASSUME NEW rows, IsRows(rows), Unpaid(rows) # {}
    PROVE  /\ NextOpen(rows) \in Unpaid(rows)
           /\ NextOpen(rows) \in DOMAIN rows
           /\ rows[NextOpen(rows)].status # "completed"
<1>1. /\ Unpaid(rows) \subseteq DOMAIN rows
      /\ DueNext(rows) \subseteq Unpaid(rows)
      /\ \A s \in Unpaid(rows) : rows[s].status # "completed"
  BY DEF Unpaid, DueNext, Visible
<1>2. Unpaid(rows) \in SUBSET Nat /\ DueNext(rows) \in SUBSET Nat
  BY <1>1, BoundsAssumption DEF IsRows
<1>3. NextOpen(rows) \in Unpaid(rows)
  BY <1>1, <1>2, LowestIn DEF NextOpen
<1>. QED  BY <1>1, <1>3

(* The normalisation leaves the next payment the only upcoming row, or     *)
(* nothing changed.                                                        *)
LEMMA NormalisedStep ==
    ASSUME NEW rows, IsRows(rows)
    PROVE  RowsStep(rows, Normalised(rows))
<1>1. CASE Unpaid(rows) = {} \/ rows[NextOpen(rows)].status = "overdue"
  BY <1>1, RowsStepReflexive DEF Normalised
<1>2. CASE ~(Unpaid(rows) = {} \/ rows[NextOpen(rows)].status = "overdue")
  <2>. DEFINE n == NextOpen(rows)
              new == [s \in DOMAIN rows |->
                        IF s = n THEN WithStatus(rows[s], "upcoming")
                        ELSE IF rows[s].status = "upcoming" THEN WithStatus(rows[s], "future")
                        ELSE rows[s]]
  <2>1. Normalised(rows) = new
    BY <1>2 DEF Normalised
  <2>2. n \in DOMAIN rows /\ rows[n].status # "completed"
    BY <1>2, NextOpenUnpaid
  <2>. HIDE DEF n
  <2>3. \A s \in DOMAIN rows :
          /\ rows[s] \in Row
          /\ WithStatus(rows[s], "upcoming") \in Row
          /\ WithStatus(rows[s], "future") \in Row
          /\ WithStatus(rows[s], "future").status = "future"
    BY WithStatusRow DEF IsRows, RowStatuses, Awaited
  <2>4. DOMAIN new = DOMAIN rows /\ new \in [DOMAIN rows -> Row]
    BY <2>3
  <2>5. IsRows(new)
    BY <2>4 DEF IsRows
  <2>6. RowsKept(rows, new)
    BY <2>2 DEF RowsKept
  <2>7. \A s \in DOMAIN rows : new[s].status = "upcoming" => s = n
    BY <2>3
  <2>8. OneUpcoming(new)
    BY <2>4, <2>7 DEF OneUpcoming
  <2>. QED  BY <2>1, <2>5, <2>6, <2>8 DEF RowsStep
<1>. QED  BY <1>1, <1>2

(* refreshInvestmentPaymentMeta, on the rows and on the document. *)
LEMMA RefreshedRowsStep ==
    ASSUME NEW rows, IsRows(rows)
    PROVE  RowsStep(rows, RefreshedRows(rows))
<1>1. RowsStep(rows, MarkedOverdue(rows))
  BY MarkedOverdueStep
<1>2. RowsStep(MarkedOverdue(rows), RefreshedRows(rows))
  BY <1>1, NormalisedStep DEF RefreshedRows, RowsStep
<1>. QED  BY <1>1, <1>2, RowsStepTransitive

(* The document keeps its type and its state when the next payment is      *)
(* written to it.                                                          *)
LEMMA RefreshedMetaType ==
    ASSUME NEW rows, IsRows(rows), NEW inv \in InvestmentDoc
    PROVE  /\ RefreshedMeta(inv, rows) \in InvestmentDoc
           /\ RefreshedMeta(inv, rows).state = inv.state
<1>. DEFINE seen == MarkedOverdue(rows)
<1>1. IsRows(seen)
  BY MarkedOverdueStep DEF RowsStep
<1>. HIDE DEF seen
<1>2. CASE Unpaid(seen) = {}
  BY <1>2 DEF RefreshedMeta, seen, InvestmentDoc, NoDue
<1>3. CASE Unpaid(seen) # {}
  <2>1. seen[NextOpen(seen)] \in Row
    BY <1>1, <1>3, NextOpenUnpaid DEF IsRows
  <2>2. seen[NextOpen(seen)].due \in Nat /\ seen[NextOpen(seen)].total \in Nat
    BY <2>1 DEF Row
  <2>. QED  BY <1>3, <2>2 DEF RefreshedMeta, seen, InvestmentDoc
<1>. QED  BY <1>2, <1>3

-----------------------------------------------------------------------------
(* deleteUnpaid deletes no completed row, and leaves no upcoming one. *)
LEMMA PaidOnlyFacts ==
    ASSUME NEW rows, IsRows(rows)
    PROVE  /\ DOMAIN PaidOnly(rows) \subseteq DOMAIN rows
           /\ \A s \in DOMAIN PaidOnly(rows) :
                 PaidOnly(rows)[s] = rows[s] /\ rows[s].status \in Paid
           /\ \A s \in DOMAIN rows :
                 rows[s].status = "completed" => s \in DOMAIN PaidOnly(rows)
           /\ RowsStep(rows, PaidOnly(rows))
<1>. DEFINE paid == {s \in DOMAIN rows : rows[s].status \in Paid}
            new  == PaidOnly(rows)
<1>1. new = [s \in paid |-> rows[s]]
  BY DEF PaidOnly, Restrict
<1>2. DOMAIN new = paid /\ \A s \in paid : new[s] = rows[s]
  BY <1>1
<1>3. IsRows(new)
  <2>1. paid \subseteq DOMAIN rows
    OBVIOUS
  <2>2. new \in [paid -> Row]
    BY <1>1, <2>1 DEF IsRows
  <2>. QED  BY <1>2, <2>1, <2>2 DEF IsRows
<1>. HIDE DEF new
<1>4. RowsKept(rows, new)
  BY <1>2 DEF RowsKept, Paid
<1>5. OneUpcoming(new)
  BY <1>2 DEF OneUpcoming, Paid
<1>. QED  BY <1>2, <1>3, <1>4, <1>5 DEF RowsStep, new, Paid

(* A row made from a row of a plan. *)
LEMMA NewRowType ==
    ASSUME NEW planned \in PlanRow, NEW due \in Nat, NEW status \in RowStatuses
    PROVE  /\ NewRow(planned, due, status) \in Row
           /\ NewRow(planned, due, status).status = status
BY DEF NewRow, PlanRow, Row

(* generateSchedule: the first row at most is upcoming. *)
LEMMA GeneratedRowsFacts ==
    ASSUME NEW t \in Terms, today \in Nat
    PROVE  IsRows(GeneratedRows(t)) /\ OneUpcoming(GeneratedRows(t))
<1>. DEFINE plan == Plan(t, t.principal, t.term, t.grace)
            status(s) == IF t.start + s < today THEN "overdue"
                         ELSE IF s = 1 THEN "upcoming" ELSE "future"
            new == GeneratedRows(t)
<1>1. /\ t.principal \in 1..MaxPrincipal /\ t.term \in 1..MaxSeq
      /\ t.start \in Nat /\ t.grace \in {0, t.grace}
  BY TermsAssumption
<1>2. plan \in [1..t.term -> PlanRow]
  BY <1>1, PlanAssumption
<1>. HIDE DEF plan
<1>3. new = [s \in 1..t.term |-> NewRow(plan[s], t.start + s, status(s))]
  BY DEF GeneratedRows, plan
<1>4. \A s \in 1..t.term :
        /\ NewRow(plan[s], t.start + s, status(s)) \in Row
        /\ NewRow(plan[s], t.start + s, status(s)).status = status(s)
  <2>1. ASSUME NEW s \in 1..t.term
        PROVE  /\ plan[s] \in PlanRow /\ t.start + s \in Nat
               /\ status(s) \in RowStatuses
    BY <1>1, <1>2 DEF RowStatuses, Awaited
  <2>. HIDE DEF status
  <2>. QED  BY <2>1, NewRowType
<1>5. IsRows(new)
  <2>1. 1..t.term \subseteq 1..MaxSeq
    BY <1>1, BoundsAssumption
  <2>2. new \in [1..t.term -> Row] /\ DOMAIN new = 1..t.term
    BY <1>3, <1>4
  <2>. QED  BY <2>1, <2>2 DEF IsRows
<1>6. OneUpcoming(new)
  <2>1. \A s \in 1..t.term : new[s].status = "upcoming" => s = 1
    BY <1>3, <1>4
  <2>2. DOMAIN new = 1..t.term
    BY <1>3
  <2>. QED  BY <2>1, <2>2 DEF OneUpcoming
<1>. QED  BY <1>5, <1>6

-----------------------------------------------------------------------------
(* What regenerateSchedule reads: the balance left is money, and a schedule *)
(* that fits has as many months as the engine accepts.                      *)
LEMMA RegenerateReads ==
    ASSUME NEW rows, IsRows(rows), NEW inv \in InvestmentDoc, RegenerateFits(inv, rows)
    PROVE  /\ LastPaidSeq(rows) \in 0..MaxSeq
           /\ RemainingPrincipal(inv, rows) \in Money
           /\ RemainingTerm(inv, rows) \in Int
           /\ NewSeqs(inv, rows) \subseteq 1..MaxSeq
           /\ NewSeqs(inv, rows) # {} =>
                 /\ RemainingPrincipal(inv, rows) \in 1..MaxPrincipal
                 /\ RemainingTerm(inv, rows) \in 1..MaxSeq
<1>1. /\ inv.terms \in Terms /\ inv.terms.term \in 1..MaxSeq
      /\ inv.terms.principal \in 1..MaxPrincipal
      /\ inv.outstanding \in Money /\ inv.monthly \in Nat
  BY TermsAssumption DEF InvestmentDoc
<1>2. PaidSeen(rows) \in SUBSET (1..MaxSeq) /\ PaidSeen(rows) \subseteq DOMAIN rows
  BY DEF PaidSeen, Visible, IsRows
<1>3. LastPaidSeq(rows) \in 0..MaxSeq
  BY <1>2, HighestIn DEF LastPaidSeq
<1>4. RemainingPrincipal(inv, rows) \in Money
  <2>1. CASE PaidSeen(rows) # {}
    <3>1. LastPaidSeq(rows) \in DOMAIN rows
      BY <2>1, <1>2, HighestIn DEF LastPaidSeq
    <3>2. rows[LastPaidSeq(rows)].remaining \in Money
      BY <3>1 DEF IsRows, Row
    <3>. QED  BY <2>1, <3>2 DEF RemainingPrincipal
  <2>2. CASE PaidSeen(rows) = {}
    BY <2>2, <1>1, BoundsAssumption DEF RemainingPrincipal, Money
  <2>. QED  BY <2>1, <2>2
<1>5. RemainingTerm(inv, rows) \in Int
  BY <1>1, <1>3, <1>4, BoundsAssumption DEF RemainingTerm, CeilDiv, Money
<1>6. NewSeqs(inv, rows) \subseteq 1..MaxSeq
  BY <1>3, <1>5, BoundsAssumption DEF NewSeqs, RegenerateFits
<1>7. ASSUME NewSeqs(inv, rows) # {}
      PROVE  /\ RemainingPrincipal(inv, rows) \in 1..MaxPrincipal
             /\ RemainingTerm(inv, rows) \in 1..MaxSeq
  <2>. DEFINE last == LastPaidSeq(rows)
              term == RemainingTerm(inv, rows)
  <2>1. RemainingPrincipal(inv, rows) # 0 /\ NewSeqs(inv, rows) = last + 1 .. last + term
    BY <1>7 DEF NewSeqs, Settled
  <2>2. last + term \in NewSeqs(inv, rows) /\ term >= 1
    BY <1>7, <2>1, <1>3, <1>5
  <2>3. last + term <= MaxSeq
    BY <2>2 DEF RegenerateFits
  <2>4. term \in 1..MaxSeq
    BY <2>2, <2>3, <1>3, <1>5, BoundsAssumption
  <2>5. RemainingPrincipal(inv, rows) \in 1..MaxPrincipal
    BY <2>1, <1>4, BoundsAssumption DEF Money
  <2>. QED  BY <2>4, <2>5
<1>. QED  BY <1>3, <1>4, <1>5, <1>6, <1>7

(* A row of the new schedule, and when it is the upcoming one. *)
LEMMA RegeneratedRowFacts ==
    ASSUME NEW rows, IsRows(rows), NEW inv \in InvestmentDoc, RegenerateFits(inv, rows),
           today \in Nat, NEW s \in NewSeqs(inv, rows)
    PROVE  /\ RegeneratedRow(inv, rows, s) \in Row
           /\ RegeneratedRow(inv, rows, s).status # "completed"
           /\ RegeneratedRow(inv, rows, s).status = "upcoming" =>
                 /\ ~(inv.terms.start + s < today)
                 /\ \A u \in NewSeqs(inv, rows) : u < s => inv.terms.start + u < today
<1>. DEFINE last == LastPaidSeq(rows)
            term == RemainingTerm(inv, rows)
            plan == Plan(inv.terms, RemainingPrincipal(inv, rows), term, 0)
            earlierPast == \A u \in NewSeqs(inv, rows) : u < s => inv.terms.start + u < today
            status == IF inv.terms.start + s < today THEN "overdue"
                      ELSE IF earlierPast THEN "upcoming" ELSE "future"
<1>1. /\ inv.terms \in Terms /\ inv.terms.start \in Nat
      /\ s \in 1..MaxSeq /\ NewSeqs(inv, rows) # {}
      /\ last \in 0..MaxSeq
      /\ RemainingPrincipal(inv, rows) \in 1..MaxPrincipal /\ term \in 1..MaxSeq
  BY RegenerateReads, TermsAssumption DEF InvestmentDoc
<1>2. plan \in [1..term -> PlanRow]
  BY <1>1, PlanAssumption
<1>3. s - last \in 1..term
  <2>1. s \in last + 1 .. last + term
    BY <1>1 DEF NewSeqs
  <2>. QED  BY <2>1, <1>1
<1>4. plan[s - last] \in PlanRow
  BY <1>2, <1>3
<1>5. inv.terms.start + s \in Nat
  BY <1>1
<1>6. RegeneratedRow(inv, rows, s) = NewRow(plan[s - last], inv.terms.start + s, status)
  BY DEF RegeneratedRow
<1>7. status \in RowStatuses /\ status # "completed"
  BY DEF RowStatuses, Awaited
<1>8. status = "upcoming" => ~(inv.terms.start + s < today) /\ earlierPast
  OBVIOUS
<1>. HIDE DEF status, plan, last, term
<1>9. /\ RegeneratedRow(inv, rows, s) \in Row
      /\ RegeneratedRow(inv, rows, s).status = status
  BY <1>4, <1>5, <1>6, <1>7, NewRowType
<1>. QED  BY <1>7, <1>8, <1>9

(* The paid rows with the new ones have one upcoming row at most: the      *)
(* first of the new rows that is not late.                                 *)
LEMMA RebuiltStep ==
    ASSUME NEW rows, IsRows(rows), NEW inv \in InvestmentDoc, RegenerateFits(inv, rows),
           today \in Nat
    PROVE  RowsStep(rows, Rebuilt(inv, rows))
<1>. DEFINE kept == PaidOnly(rows)
            added == Inserted(inv, rows)
            new == Rebuilt(inv, rows)
<1>1. /\ DOMAIN kept \subseteq DOMAIN rows
      /\ \A s \in DOMAIN kept : kept[s] = rows[s] /\ rows[s].status \in Paid
      /\ \A s \in DOMAIN rows : rows[s].status = "completed" => s \in DOMAIN kept
  BY PaidOnlyFacts
<1>2. added \subseteq NewSeqs(inv, rows) /\ NewSeqs(inv, rows) \subseteq 1..MaxSeq
  BY RegenerateReads DEF Inserted
<1>3. \A s \in added :
        /\ RegeneratedRow(inv, rows, s) \in Row
        /\ RegeneratedRow(inv, rows, s).status = "upcoming" =>
              /\ ~(inv.terms.start + s < today)
              /\ \A u \in NewSeqs(inv, rows) : u < s => inv.terms.start + u < today
  BY <1>2, RegeneratedRowFacts
<1>4. new = [s \in DOMAIN kept \cup added |->
               IF s \in DOMAIN kept THEN kept[s] ELSE RegeneratedRow(inv, rows, s)]
  BY DEF Rebuilt
<1>5. /\ DOMAIN new = DOMAIN kept \cup added
      /\ \A s \in DOMAIN kept : new[s] = kept[s]
      /\ \A s \in added \ DOMAIN kept : new[s] = RegeneratedRow(inv, rows, s)
  BY <1>4
<1>. HIDE DEF kept, added, new
<1>6. IsRows(new)
  <2>1. \A s \in DOMAIN kept : kept[s] \in Row
    BY <1>1 DEF IsRows
  <2>2. new \in [DOMAIN kept \cup added -> Row]
    BY <2>1, <1>3, <1>4
  <2>3. DOMAIN new \subseteq 1..MaxSeq
    BY <1>1, <1>2, <1>5 DEF IsRows
  <2>. QED  BY <2>2, <2>3, <1>5 DEF IsRows
<1>7. RowsKept(rows, new)
  BY <1>1, <1>5 DEF RowsKept
<1>8. OneUpcoming(new)
  <2>1. SUFFICES ASSUME NEW s \in DOMAIN new, NEW u \in DOMAIN new, s # u,
                        new[s].status = "upcoming", new[u].status = "upcoming"
                 PROVE  FALSE
    BY DEF OneUpcoming
  <2>2. s \in added /\ u \in added
    BY <2>1, <1>1, <1>5 DEF Paid
  <2>3. s \in Nat /\ u \in Nat
    BY <2>2, <1>2, BoundsAssumption
  <2>4. new[s] = RegeneratedRow(inv, rows, s) /\ new[u] = RegeneratedRow(inv, rows, u)
    BY <2>1, <1>1, <1>5, <2>2 DEF Paid
  <2>5. s \in NewSeqs(inv, rows) /\ u \in NewSeqs(inv, rows)
    BY <2>2, <1>2
  <2>6. ~(s < u) /\ ~(u < s)
    BY <2>1, <2>2, <2>4, <2>5, <1>3
  <2>. QED  BY <2>1, <2>3, <2>6
<1>. QED  BY <1>6, <1>7, <1>8 DEF RowsStep, new

(* The whole of regenerateSchedule. *)
LEMMA RegeneratedFacts ==
    ASSUME NEW rows, IsRows(rows), NEW inv \in InvestmentDoc, RegenerateFits(inv, rows),
           today \in Nat
    PROVE  /\ RowsStep(rows, RegeneratedRows(inv, rows))
           /\ RegeneratedMeta(inv, rows) \in InvestmentDoc
           /\ RegeneratedMeta(inv, rows).state = inv.state
           /\ \A old \in SUBSET (1..MaxSeq) :
                 RegeneratedEvents(inv, rows, old) \in SUBSET (1..MaxSeq)
<1>1. RowsStep(rows, Rebuilt(inv, rows)) /\ IsRows(Rebuilt(inv, rows))
  BY RebuiltStep DEF RowsStep
<1>2. RowsStep(Rebuilt(inv, rows), RefreshedRows(Rebuilt(inv, rows)))
  BY <1>1, RefreshedRowsStep
<1>3. RowsStep(rows, RefreshedRows(Rebuilt(inv, rows)))
  BY <1>1, <1>2, RowsStepTransitive
<1>4. RowsStep(rows, MarkedOverdue(RefreshedRows(Rebuilt(inv, rows))))
  <2>1. IsRows(RefreshedRows(Rebuilt(inv, rows)))
    BY <1>2 DEF RowsStep
  <2>. QED  BY <1>3, <2>1, MarkedOverdueStep, RowsStepTransitive
<1>5. RowsStep(rows, RegeneratedRows(inv, rows))
  BY <1>1, <1>4 DEF RegeneratedRows
<1>6. /\ RegeneratedMeta(inv, rows) \in InvestmentDoc
      /\ RegeneratedMeta(inv, rows).state = inv.state
  BY <1>1, RefreshedMetaType DEF RegeneratedMeta
<1>7. NewSeqs(inv, rows) \in SUBSET (1..MaxSeq)
  BY RegenerateReads
<1>. QED  BY <1>5, <1>6, <1>7 DEF RegeneratedEvents

-----------------------------------------------------------------------------
(* The four fields a payment writes, with values of their types. *)
LEMMA CreditType ==
    ASSUME NEW inv \in InvestmentDoc, NEW repaid \in Nat, NEW earned \in Nat,
           NEW outstanding \in Money, NEW status \in Statuses
    PROVE  [inv EXCEPT !.outstanding = outstanding, !.repaid = repaid,
                       !.earned = earned, !.status = status] \in InvestmentDoc
BY DEF InvestmentDoc

(* markPaid: what is credited for a payment of a row is never negative,    *)
(* and the balance stays money.                                            *)
LEMMA CreditedFacts ==
    ASSUME NEW inv \in InvestmentDoc, NEW row \in Row, NEW amount \in Nat
    PROVE  /\ Credited(inv, row, amount) \in InvestmentDoc
           /\ Credited(inv, row, amount).state = inv.state
<1>1. /\ row.principal \in Nat /\ row.interest \in Nat /\ row.amountPaid \in Nat
      /\ row.total \in Nat /\ row.remaining \in Money
  BY DEF Row
<1>2. \A a \in Nat : /\ InterestOf(row, a) \in 0..a
                     /\ PrincipalOf(row, a) \in Nat
  BY <1>1 DEF InterestOf, PrincipalOf, Smaller
<1>3. NewInterest(row, amount) \in Nat
  BY <1>1, <1>2 DEF NewInterest, Minus
<1>4. NewPrincipal(row, amount) \in Nat
  BY <1>1, <1>2 DEF NewPrincipal, Minus
<1>5. inv.outstanding \in Money /\ inv.repaid \in Nat /\ inv.earned \in Nat
  BY DEF InvestmentDoc
<1>6. OutstandingAfter(inv, row, amount) \in Money
  BY <1>1, <1>4, <1>5, BoundsAssumption DEF OutstandingAfter, Minus, Money
<1>7. inv.status \in Statuses /\ "closed" \in Statuses
  BY DEF InvestmentDoc, Statuses
<1>. DEFINE outstanding == OutstandingAfter(inv, row, amount)
            repaid == inv.repaid + NewPrincipal(row, amount)
            earned == inv.earned + NewInterest(row, amount)
            status == ClosedAt(outstanding, inv.status)
            credited == [inv EXCEPT !.outstanding = outstanding, !.repaid = repaid,
                                    !.earned = earned, !.status = status]
<1>8. repaid \in Nat /\ earned \in Nat /\ outstanding \in Money /\ status \in Statuses
  BY <1>3, <1>4, <1>5, <1>6, <1>7 DEF ClosedAt
<1>9. Credited(inv, row, amount) = credited
  BY DEF Credited, InvestmentDoc
<1>. HIDE DEF status, outstanding, repaid, earned
<1>10. credited \in InvestmentDoc
  BY <1>8, CreditType
<1>11. credited.state = inv.state
  BY DEF InvestmentDoc
<1>. QED  BY <1>9, <1>10, <1>11

(* Paying a row that is not completed is a row step.                       *)
LEMMA WithPaymentStep ==
    ASSUME NEW rows, IsRows(rows), NEW s \in DOMAIN rows, rows[s].status # "completed",
           NEW amount \in Nat
    PROVE  RowsStep(rows, WithPayment(rows, s, amount))
<1>. DEFINE status == IF Completes(rows[s], amount) THEN "completed" ELSE "partially_paid"
            new == WithPayment(rows, s, amount)
            row == [rows[s] EXCEPT !.amountPaid = amount, !.status = status]
<1>1. rows[s] \in Row /\ status \in RowStatuses /\ status # "upcoming"
  BY DEF IsRows, RowStatuses, Paid
<1>. HIDE DEF status
<1>2. row \in Row /\ row.status = status
  BY <1>1 DEF Row
<1>3. new = [rows EXCEPT ![s] = row]
  BY DEF WithPayment, status
<1>. HIDE DEF row, new
<1>4. /\ DOMAIN new = DOMAIN rows /\ new[s] = row
      /\ \A u \in DOMAIN rows : u # s => new[u] = rows[u]
  BY <1>3
<1>5. IsRows(new)
  BY <1>2, <1>3, <1>4 DEF IsRows
<1>6. RowsKept(rows, new)
  BY <1>4 DEF RowsKept
<1>7. OneUpcoming(rows) => OneUpcoming(new)
  BY <1>1, <1>2, <1>4 DEF OneUpcoming
<1>. QED  BY <1>5, <1>6, <1>7 DEF RowsStep, new

(* cancelPayment, before the refresh. *)
LEMMA CancelledRowStep ==
    ASSUME NEW rows, IsRows(rows), NEW s \in DOMAIN rows, rows[s].status # "completed"
    PROVE  RowsStep(rows, [rows EXCEPT ![s].status = "cancelled"])
<1>. DEFINE row == [rows[s] EXCEPT !.status = "cancelled"]
            new == [rows EXCEPT ![s].status = "cancelled"]
<1>1. row \in Row /\ row.status = "cancelled"
  BY DEF IsRows, Row, RowStatuses
<1>2. /\ DOMAIN new = DOMAIN rows /\ new[s] = row
      /\ \A u \in DOMAIN rows : u # s => new[u] = rows[u]
  OBVIOUS
<1>3. new = [rows EXCEPT ![s] = row]
  OBVIOUS
<1>. HIDE DEF row, new
<1>4. IsRows(new)
  BY <1>1, <1>2, <1>3 DEF IsRows
<1>5. RowsKept(rows, new)
  BY <1>2 DEF RowsKept
<1>6. OneUpcoming(rows) => OneUpcoming(new)
  BY <1>1, <1>2 DEF OneUpcoming
<1>. QED  BY <1>4, <1>5, <1>6 DEF RowsStep, new

(* earlyRepayment: the row it adds and the document it credits. *)
LEMMA EarlyRowFacts ==
    ASSUME NEW inv \in InvestmentDoc, NEW amount \in Nat, NEW portion \in Nat, today \in Nat
    PROVE  LET applied == Smaller(amount, inv.outstanding)
               row == EarlyRow(inv, applied, Smaller(portion, applied))
           IN  /\ row \in Row /\ row.status = "completed"
               /\ CreditedEarly(inv, row) \in InvestmentDoc
               /\ CreditedEarly(inv, row).state = inv.state
<1>. DEFINE applied == Smaller(amount, inv.outstanding)
            interest == Smaller(portion, applied)
            row == EarlyRow(inv, applied, interest)
<1>1. inv.outstanding \in Money /\ inv.repaid \in Nat /\ inv.earned \in Nat
  BY DEF InvestmentDoc
<1>2. applied \in Nat /\ applied <= inv.outstanding
  BY <1>1, BoundsAssumption DEF Smaller, Money
<1>3. interest \in Nat /\ interest <= applied
  BY <1>2 DEF Smaller
<1>. HIDE DEF applied, interest
<1>4. /\ applied - interest \in Nat
      /\ inv.outstanding - (applied - interest) \in Money
  BY <1>1, <1>2, <1>3, BoundsAssumption DEF Money
<1>5. /\ row \in Row /\ row.status = "completed"
      /\ row.remaining \in Money /\ row.principal \in Nat /\ row.interest \in Nat
  BY <1>2, <1>3, <1>4 DEF EarlyRow, Row, RowStatuses, Paid
<1>. HIDE DEF row
<1>6. inv.status \in Statuses /\ "closed" \in Statuses
  BY DEF InvestmentDoc, Statuses
<1>7. CreditedEarly(inv, row) \in InvestmentDoc /\ CreditedEarly(inv, row).state = inv.state
  <2>. DEFINE outstanding == row.remaining
              repaid == inv.repaid + row.principal
              earned == inv.earned + row.interest
              status == ClosedAt(outstanding, inv.status)
              credited == [inv EXCEPT !.outstanding = outstanding, !.repaid = repaid,
                                      !.earned = earned, !.status = status]
  <2>1. repaid \in Nat /\ earned \in Nat /\ outstanding \in Money /\ status \in Statuses
    BY <1>1, <1>5, <1>6 DEF ClosedAt
  <2>2. CreditedEarly(inv, row) = credited
    BY DEF CreditedEarly, InvestmentDoc
  <2>. HIDE DEF status, outstanding, repaid, earned
  <2>3. credited \in InvestmentDoc
    BY <2>1, CreditType
  <2>4. credited.state = inv.state
    BY DEF InvestmentDoc
  <2>. QED  BY <2>2, <2>3, <2>4
<1>. QED  BY <1>5, <1>7 DEF row, applied, interest

(* Adding the early repayment to the paid rows is a row step when no paid  *)
(* row holds its sequence number.                                          *)
LEMMA WithEarlyRowStep ==
    ASSUME NEW rows, IsRows(rows), NEW row \in Row, row.status = "completed",
           EarlySeq(rows) \notin DOMAIN PaidOnly(rows), EarlySeq(rows) <= MaxSeq
    PROVE  RowsStep(rows, WithEarlyRow(rows, row))
<1>. DEFINE kept == DOMAIN PaidOnly(rows)
            seq == EarlySeq(rows)
            new == WithEarlyRow(rows, row)
<1>1. /\ kept \subseteq DOMAIN rows
      /\ \A s \in kept : rows[s].status \in Paid
      /\ \A s \in DOMAIN rows : rows[s].status = "completed" => s \in kept
      /\ IsRows(PaidOnly(rows))
  BY PaidOnlyFacts DEF RowsStep
<1>2. seq \in 1..MaxSeq
  <2>1. Visible(PaidOnly(rows)) \in SUBSET (1..MaxSeq)
    BY <1>1 DEF Visible, IsRows
  <2>2. Highest(Visible(PaidOnly(rows))) \in 0..MaxSeq
    BY <2>1, HighestIn
  <2>. QED  BY <2>2, BoundsAssumption DEF EarlySeq
<1>3. new = [s \in kept \cup {seq} |-> IF s = seq THEN row ELSE rows[s]]
  BY DEF WithEarlyRow
<1>. HIDE DEF kept, seq, new
<1>4. /\ DOMAIN new = kept \cup {seq}
      /\ new[seq] = row
      /\ \A s \in kept : s # seq => new[s] = rows[s]
  BY <1>3
<1>5. IsRows(new)
  <2>1. new \in [kept \cup {seq} -> Row]
    BY <1>1, <1>3 DEF IsRows
  <2>2. kept \cup {seq} \subseteq 1..MaxSeq
    BY <1>1, <1>2 DEF IsRows
  <2>. QED  BY <2>1, <2>2, <1>4 DEF IsRows
<1>6. seq \notin kept
  BY DEF seq, kept
<1>7. RowsKept(rows, new)
  BY <1>1, <1>4, <1>6 DEF RowsKept
<1>8. OneUpcoming(new)
  BY <1>1, <1>4 DEF OneUpcoming, Paid
<1>. QED  BY <1>5, <1>7, <1>8 DEF RowsStep, new

-----------------------------------------------------------------------------
(* The steps of the system.  First what a request writes at its end. *)
LEMMA RowsWritten ==
    ASSUME LedgerTypeOK, NEW i \in Investments, NEW new, RowsStep(payments[i], new),
           payments' = [payments EXCEPT ![i] = new]
    PROVE  PaymentsStep
<1>1. DOMAIN payments = Investments /\ \A j \in Investments : IsRows(payments[j])
  BY DEF LedgerTypeOK
<1>2. payments' = [j \in Investments |-> payments'[j]]
  BY <1>1
<1>3. \A j \in Investments : payments'[j] = IF j = i THEN new ELSE payments[j]
  BY <1>1
<1>4. \A j \in Investments : RowsStep(payments[j], payments[j])
  BY <1>1, RowsStepReflexive
<1>. QED  BY <1>2, <1>3, <1>4 DEF PaymentsStep

(* A request that leaves every row alone is a payments step.               *)
LEMMA RowsUntouched ==
    ASSUME LedgerTypeOK, UNCHANGED payments
    PROVE  PaymentsStep
BY RowsStepReflexive DEF LedgerTypeOK, PaymentsStep

(* A request that ends in refreshInvestmentPaymentMeta.                    *)
LEMMA RefreshStep ==
    ASSUME LedgerTypeOK, NEW i \in Investments, NEW inv \in InvestmentDoc, NEW rows,
           IsRows(rows), RowsStep(payments[i], rows), inv.state # "absent",
           Refresh(i, inv, rows)
    PROVE  investments' \in [Investments -> InvestmentDoc] /\ RowsOfCreated' /\ PaymentsStep
<1>1. RowsStep(payments[i], RefreshedRows(rows))
  BY RefreshedRowsStep, RowsStepTransitive
<1>2. PaymentsStep
  BY <1>1, RowsWritten DEF Refresh
<1>3. RefreshedMeta(inv, rows) \in InvestmentDoc /\ RefreshedMeta(inv, rows).state # "absent"
  BY RefreshedMetaType
<1>4. investments' \in [Investments -> InvestmentDoc]
  BY <1>3 DEF Refresh, LedgerTypeOK
<1>5. RowsOfCreated'
  BY <1>3 DEF Refresh, LedgerTypeOK, RowsOfCreated
<1>. QED  BY <1>2, <1>4, <1>5

(* A request that ends in regenerateSchedule.                              *)
LEMMA RegenerateStep ==
    ASSUME LedgerTypeOK, NEW i \in Investments, NEW inv \in InvestmentDoc, NEW rows,
           IsRows(rows), RowsStep(payments[i], rows), inv.state # "absent",
           Regenerate(i, inv, rows)
    PROVE  /\ investments' \in [Investments -> InvestmentDoc]
           /\ RowsOfCreated'
           /\ events' \in [Investments -> SUBSET (1..MaxSeq)]
           /\ PaymentsStep
<1>1. RegenerateFits(inv, rows) /\ today \in Nat
  BY BoundsAssumption DEF Regenerate, LedgerTypeOK
<1>2. /\ RowsStep(rows, RegeneratedRows(inv, rows))
      /\ RegeneratedMeta(inv, rows) \in InvestmentDoc
      /\ RegeneratedMeta(inv, rows).state # "absent"
      /\ \A old \in SUBSET (1..MaxSeq) :
            RegeneratedEvents(inv, rows, old) \in SUBSET (1..MaxSeq)
  BY <1>1, RegeneratedFacts
<1>3. RowsStep(payments[i], RegeneratedRows(inv, rows))
  BY <1>2, RowsStepTransitive
<1>4. PaymentsStep
  BY <1>3, RowsWritten DEF Regenerate
<1>5. investments' \in [Investments -> InvestmentDoc]
  BY <1>2 DEF Regenerate, LedgerTypeOK
<1>6. events' \in [Investments -> SUBSET (1..MaxSeq)]
  BY <1>2 DEF Regenerate, LedgerTypeOK
<1>7. RowsOfCreated'
  BY <1>2 DEF Regenerate, LedgerTypeOK, RowsOfCreated
<1>. QED  BY <1>4, <1>5, <1>6, <1>7

(* PaymentsStep gives the rows their type. *)
LEMMA PaymentsTyped ==
    ASSUME PaymentsStep
    PROVE  /\ payments' = [j \in Investments |-> payments'[j]]
           /\ \A j \in Investments : IsRows(payments'[j])
BY DEF PaymentsStep, RowsStep

(* The LOAN_CLOSED events stay within their bound.                         *)
LEMMA ClosingsTyped ==
    ASSUME LedgerTypeOK, NEW i \in Investments, NEW outstanding,
           AnnounceClosing(i, outstanding)
    PROVE  closings' \in [Investments -> 0..MaxClosings]
BY BoundsAssumption DEF LedgerTypeOK, AnnounceClosing

-----------------------------------------------------------------------------
(* Every step keeps the ledger's types and works on the rows by RowsStep:  *)
(* one lemma for each action whose effect takes more than a few facts.     *)

(* POST /investments *)
LEMMA CreateStep ==
    ASSUME LedgerTypeOK, NEW i \in Investments, NEW v \in Investors, NEW t \in Terms,
           NEW status \in StatusInputs, Create(i, v, t, status)
    PROVE  LedgerTypeOK' /\ PaymentsStep
<1>. DEFINE inv == [state |-> "live", investor |-> v, terms |-> t,
                    outstanding |-> t.principal, repaid |-> 0, earned |-> 0, status |-> status,
                    monthly |-> Instalment(t, t.principal, t.term), nextDue |-> NoDue]
            rows == GeneratedRows(t)
<1>1. /\ t.principal \in 1..MaxPrincipal /\ t.term \in 1..MaxSeq
      /\ status \in Statuses /\ today \in Nat
  BY TermsAssumption, BoundsAssumption DEF LedgerTypeOK
<1>2. Instalment(t, t.principal, t.term) \in Nat
  BY <1>1, InstalmentAssumption
<1>3. inv \in InvestmentDoc /\ inv.state # "absent"
  BY <1>1, <1>2, BoundsAssumption DEF InvestmentDoc, NoDue, Money
<1>4. IsRows(rows) /\ OneUpcoming(rows)
  BY <1>1, GeneratedRowsFacts
<1>5. RowsStep(payments[i], rows)
  BY <1>4 DEF RowsStep, RowsKept, Create, LedgerTypeOK, RowsOfCreated
<1>6. Refresh(i, inv, rows)
  BY DEF Create
<1>. HIDE DEF inv, rows
<1>7. investments' \in [Investments -> InvestmentDoc] /\ RowsOfCreated' /\ PaymentsStep
  BY <1>3, <1>4, <1>5, <1>6, RefreshStep
<1>8. events' \in [Investments -> SUBSET (1..MaxSeq)]
  BY <1>1, BoundsAssumption DEF Create, LedgerTypeOK
<1>9. today' = today /\ closings' = closings
  BY DEF Create
<1>. QED  BY <1>7, <1>8, <1>9, PaymentsTyped DEF LedgerTypeOK

(* PATCH /investments/:id with schedule fields.                            *)
LEMMA UpdateTermsStep ==
    ASSUME LedgerTypeOK, NEW i \in Investments, NEW t \in Terms, NEW repriced \in BOOLEAN,
           NEW status \in Statuses, UpdateTerms(i, t, repriced, status)
    PROVE  LedgerTypeOK' /\ PaymentsStep
<1>. DEFINE old == investments[i]
            monthly == IF repriced THEN Instalment(t, t.principal, t.term) ELSE old.monthly
            inv == [old EXCEPT !.terms = t, !.status = status, !.monthly = monthly]
<1>1. old \in InvestmentDoc /\ old.state = "live" /\ IsRows(payments[i])
  BY DEF LedgerTypeOK, UpdateTerms
<1>2. Instalment(t, t.principal, t.term) \in Nat
  BY TermsAssumption, InstalmentAssumption
<1>3. monthly \in Nat
  BY <1>1, <1>2 DEF InvestmentDoc
<1>4. Regenerate(i, inv, payments[i])
  BY <1>1 DEF UpdateTerms, InvestmentDoc
<1>5. today' = today /\ closings' = closings
  BY DEF UpdateTerms
<1>. HIDE DEF old, monthly
<1>6. inv \in InvestmentDoc /\ inv.state = "live"
  BY <1>1, <1>3 DEF InvestmentDoc
<1>. HIDE DEF inv
<1>7. /\ investments' \in [Investments -> InvestmentDoc]
      /\ RowsOfCreated'
      /\ events' \in [Investments -> SUBSET (1..MaxSeq)]
      /\ PaymentsStep
  BY <1>1, <1>4, <1>6, RegenerateStep, RowsStepReflexive
<1>. QED  BY <1>5, <1>7, PaymentsTyped DEF LedgerTypeOK

(* POST /payments/:id/mark-paid.                                           *)
LEMMA MarkPaidStep ==
    ASSUME LedgerTypeOK, NEW i \in Investments, NEW s \in DOMAIN payments[i],
           NEW amount \in Nat, MarkPaid(i, s, amount)
    PROVE  LedgerTypeOK' /\ PaymentsStep
<1>. DEFINE row  == payments[i][s]
            inv  == Credited(investments[i], row, amount)
            rows == WithPayment(payments[i], s, amount)
<1>1. /\ investments[i] \in InvestmentDoc /\ IsRows(payments[i]) /\ row \in Row
      /\ row.status # "completed" /\ investments[i].state = "live"
  BY DEF LedgerTypeOK, IsRows, MarkPaid, Payable
<1>2. inv \in InvestmentDoc /\ inv.state = "live"
  BY <1>1, CreditedFacts
<1>3. RowsStep(payments[i], rows) /\ IsRows(rows)
  BY <1>1, WithPaymentStep DEF RowsStep
<1>4. /\ \/ Refresh(i, inv, rows) /\ UNCHANGED events
         \/ Regenerate(i, inv, rows)
      /\ AnnounceClosing(i, inv.outstanding)
      /\ today' = today
  BY DEF MarkPaid
<1>. HIDE DEF row, inv, rows
<1>5. /\ investments' \in [Investments -> InvestmentDoc]
      /\ RowsOfCreated'
      /\ events' \in [Investments -> SUBSET (1..MaxSeq)]
      /\ PaymentsStep
  <2>1. CASE Refresh(i, inv, rows) /\ UNCHANGED events
    BY <2>1, <1>2, <1>3, RefreshStep DEF LedgerTypeOK
  <2>2. CASE Regenerate(i, inv, rows)
    BY <2>2, <1>2, <1>3, RegenerateStep
  <2>. QED  BY <1>4, <2>1, <2>2
<1>6. closings' \in [Investments -> 0..MaxClosings]
  BY <1>4, ClosingsTyped
<1>. QED  BY <1>4, <1>5, <1>6, PaymentsTyped DEF LedgerTypeOK

(* The same for a row whose investment is deleted.                         *)
LEMMA MarkPaidOfDeletedStep ==
    ASSUME LedgerTypeOK, NEW i \in Investments, NEW s \in DOMAIN payments[i],
           NEW amount \in Nat, MarkPaidOfDeleted(i, s, amount)
    PROVE  LedgerTypeOK' /\ PaymentsStep
<1>. DEFINE rows == WithPayment(payments[i], s, amount)
            new == IF Completes(payments[i][s], amount) THEN RefreshedRows(rows) ELSE rows
<1>1. RowsStep(payments[i], rows) /\ IsRows(rows)
  BY WithPaymentStep DEF LedgerTypeOK, MarkPaidOfDeleted, Payable, RowsStep
<1>. HIDE DEF rows
<1>2. RowsStep(payments[i], new)
  BY <1>1, RefreshedRowsStep, RowsStepTransitive
<1>3. payments' = [payments EXCEPT ![i] = new]
  BY DEF MarkPaidOfDeleted, rows
<1>. HIDE DEF new
<1>4. PaymentsStep
  BY <1>2, <1>3, RowsWritten
<1>5. RowsOfCreated'
  BY <1>3 DEF MarkPaidOfDeleted, LedgerTypeOK, RowsOfCreated
<1>. QED  BY <1>4, <1>5, PaymentsTyped DEF MarkPaidOfDeleted, LedgerTypeOK

(* POST /payments/:id/cancel.                                              *)
LEMMA CancelPaymentStep ==
    ASSUME LedgerTypeOK, NEW i \in Investments, NEW s \in DOMAIN payments[i],
           CancelPayment(i, s)
    PROVE  LedgerTypeOK' /\ PaymentsStep
<1>. DEFINE rows == [payments[i] EXCEPT ![s].status = "cancelled"]
<1>1. /\ RowsStep(payments[i], rows) /\ IsRows(rows)
      /\ investments[i] \in InvestmentDoc /\ investments[i].state # "absent"
  BY CancelledRowStep DEF LedgerTypeOK, CancelPayment, RowsStep, RowsOfCreated
<1>2. Refresh(i, investments[i], rows)
  BY DEF CancelPayment
<1>. HIDE DEF rows
<1>3. investments' \in [Investments -> InvestmentDoc] /\ RowsOfCreated' /\ PaymentsStep
  BY <1>1, <1>2, RefreshStep
<1>. QED  BY <1>3, PaymentsTyped DEF CancelPayment, LedgerTypeOK

(* POST /investments/:id/early-repayment.                                  *)
LEMMA EarlyRepaymentStep ==
    ASSUME LedgerTypeOK, NEW i \in Investments, NEW amount \in Nat, NEW portion \in Nat,
           EarlyRepayment(i, amount, portion)
    PROVE  LedgerTypeOK' /\ PaymentsStep
<1>. DEFINE applied == Smaller(amount, investments[i].outstanding)
            row  == EarlyRow(investments[i], applied, Smaller(portion, applied))
            inv  == CreditedEarly(investments[i], row)
            rows == WithEarlyRow(payments[i], row)
<1>1. /\ investments[i] \in InvestmentDoc /\ IsRows(payments[i]) /\ today \in Nat
      /\ investments[i].state = "live"
  BY BoundsAssumption DEF LedgerTypeOK, EarlyRepayment
<1>2. row \in Row /\ row.status = "completed" /\ inv \in InvestmentDoc /\ inv.state = "live"
  BY <1>1, EarlyRowFacts
<1>3. /\ EarlySeq(payments[i]) \notin DOMAIN PaidOnly(payments[i])
      /\ EarlySeq(payments[i]) <= MaxSeq
      /\ \/ Regenerate(i, inv, rows)
         \/ Refresh(i, inv, PaidOnly(rows)) /\ UNCHANGED events
      /\ AnnounceClosing(i, row.remaining)
      /\ today' = today
  BY DEF EarlyRepayment
<1>. HIDE DEF row, inv
<1>4. RowsStep(payments[i], rows) /\ IsRows(rows)
  BY <1>1, <1>2, <1>3, WithEarlyRowStep DEF RowsStep
<1>. HIDE DEF rows
<1>5. RowsStep(payments[i], PaidOnly(rows)) /\ IsRows(PaidOnly(rows))
  BY <1>4, PaidOnlyFacts, RowsStepTransitive DEF RowsStep
<1>6. /\ investments' \in [Investments -> InvestmentDoc]
      /\ RowsOfCreated'
      /\ events' \in [Investments -> SUBSET (1..MaxSeq)]
      /\ PaymentsStep
  <2>1. CASE Regenerate(i, inv, rows)
    BY <2>1, <1>2, <1>4, RegenerateStep
  <2>2. CASE Refresh(i, inv, PaidOnly(rows)) /\ UNCHANGED events
    BY <2>2, <1>2, <1>5, RefreshStep DEF LedgerTypeOK
  <2>. QED  BY <1>3, <2>1, <2>2
<1>7. closings' \in [Investments -> 0..MaxClosings]
  BY <1>3, ClosingsTyped
<1>. QED  BY <1>3, <1>6, <1>7, PaymentsTyped DEF LedgerTypeOK

(* Every step of the system. *)
LEMMA NextStep ==
    ASSUME LedgerTypeOK, [Next]_vars
    PROVE  LedgerTypeOK' /\ PaymentsStep
<1>1. CASE UNCHANGED vars
  <2>1. LedgerTypeOK'
    BY <1>1 DEF vars, LedgerTypeOK, RowsOfCreated
  <2>. QED  BY <1>1, <2>1, RowsUntouched DEF vars
<1>2. ASSUME NEW i \in Investments, Request(i)
      PROVE  LedgerTypeOK' /\ PaymentsStep
  <2>1. ASSUME NEW v \in Investors, NEW t \in Terms, NEW status \in StatusInputs,
               Create(i, v, t, status)
        PROVE  LedgerTypeOK' /\ PaymentsStep
    BY <2>1, CreateStep
  <2>2. ASSUME NEW t \in Terms, NEW repriced \in BOOLEAN,
               NEW status \in StatusInputs \cup {investments[i].status},
               UpdateTerms(i, t, repriced, status)
        PROVE  LedgerTypeOK' /\ PaymentsStep
    <3>1. status \in Statuses
      BY BoundsAssumption DEF LedgerTypeOK, InvestmentDoc
    <3>. QED  BY <2>2, <3>1, UpdateTermsStep
  <2>3. ASSUME NEW status \in StatusInputs, UpdateStatus(i, status)
        PROVE  LedgerTypeOK' /\ PaymentsStep
    <3>1. status \in Statuses
      BY BoundsAssumption
    <3>2. PaymentsStep
      BY <2>3, RowsUntouched DEF UpdateStatus
    <3>3. LedgerTypeOK'
      BY <2>3, <3>1 DEF UpdateStatus, LedgerTypeOK, RowsOfCreated, InvestmentDoc
    <3>. QED  BY <3>2, <3>3
  <2>4. CASE Remove(i)
    <3>1. PaymentsStep
      BY <2>4, RowsUntouched DEF Remove
    <3>2. LedgerTypeOK'
      BY <2>4 DEF Remove, LedgerTypeOK, RowsOfCreated, InvestmentDoc
    <3>. QED  BY <3>1, <3>2
  <2>5. CASE RegenerateSchedule(i)
    <3>1. /\ investments' \in [Investments -> InvestmentDoc]
          /\ RowsOfCreated'
          /\ events' \in [Investments -> SUBSET (1..MaxSeq)]
          /\ PaymentsStep
      BY <2>5, RegenerateStep, RowsStepReflexive DEF RegenerateSchedule, LedgerTypeOK
    <3>. QED  BY <2>5, <3>1, PaymentsTyped DEF RegenerateSchedule, LedgerTypeOK
  <2>6. ASSUME NEW s \in DOMAIN payments[i], NEW amount \in Amounts \cup {payments[i][s].total},
               MarkPaid(i, s, amount) \/ MarkPaidOfDeleted(i, s, amount)
        PROVE  LedgerTypeOK' /\ PaymentsStep
    <3>1. payments[i][s] \in Row
      BY DEF LedgerTypeOK, IsRows
    <3>2. amount \in Nat
      BY <3>1, BoundsAssumption DEF Row
    <3>. QED  BY <2>6, <3>2, MarkPaidStep, MarkPaidOfDeletedStep
  <2>7. ASSUME NEW s \in DOMAIN payments[i], CancelPayment(i, s)
        PROVE  LedgerTypeOK' /\ PaymentsStep
    BY <2>7, CancelPaymentStep
  <2>8. ASSUME NEW amount \in Amounts, NEW portion \in InterestPortions,
               EarlyRepayment(i, amount, portion)
        PROVE  LedgerTypeOK' /\ PaymentsStep
    BY <2>8, EarlyRepaymentStep, BoundsAssumption
  <2>9. ASSUME NEW amount \in Amounts, EarlyRepaymentRefused(i, amount)
        PROVE  LedgerTypeOK' /\ PaymentsStep
    <3>1. RowsStep(payments[i], PaidOnly(payments[i]))
      BY PaidOnlyFacts DEF LedgerTypeOK
    <3>2. PaymentsStep
      BY <2>9, <3>1, RowsWritten DEF EarlyRepaymentRefused, LedgerTypeOK
    <3>3. RowsOfCreated'
      BY <2>9 DEF EarlyRepaymentRefused, LedgerTypeOK, RowsOfCreated
    <3>. QED
      BY <2>9, <3>2, <3>3, PaymentsTyped DEF EarlyRepaymentRefused, LedgerTypeOK
  <2>10. CASE ListPayments(i)
    <3>1. RowsStep(payments[i], MarkedOverdue(payments[i]))
      BY MarkedOverdueStep DEF LedgerTypeOK
    <3>2. PaymentsStep
      BY <2>10, <3>1, RowsWritten DEF ListPayments, LedgerTypeOK
    <3>3. RowsOfCreated'
      BY <2>10 DEF ListPayments, LedgerTypeOK, RowsOfCreated
    <3>. QED  BY <2>10, <3>2, <3>3, PaymentsTyped DEF ListPayments, LedgerTypeOK
  <2>. QED
    BY <1>2, <2>1, <2>2, <2>3, <2>4, <2>5, <2>6, <2>7, <2>8, <2>9, <2>10 DEF Request
<1>3. ASSUME NEW v \in Investors, RemoveInvestor(v)
      PROVE  LedgerTypeOK' /\ PaymentsStep
  <2>1. PaymentsStep
    BY <1>3, RowsUntouched DEF RemoveInvestor
  <2>. QED  BY <1>3, <2>1 DEF RemoveInvestor, LedgerTypeOK, RowsOfCreated
<1>4. CASE SweepOverdue
  <2>1. \A j \in Investments : RowsStep(payments[j], MarkedOverdue(payments[j]))
    BY MarkedOverdueStep DEF LedgerTypeOK
  <2>2. /\ payments' = [j \in Investments |-> payments'[j]]
        /\ \A j \in Investments : payments'[j] = MarkedOverdue(payments[j])
    BY <1>4 DEF SweepOverdue
  <2>3. PaymentsStep
    BY <2>1, <2>2 DEF PaymentsStep
  <2>4. RowsOfCreated'
    BY <1>4, <2>2 DEF SweepOverdue, LedgerTypeOK, RowsOfCreated, MarkedOverdue
  <2>. QED  BY <1>4, <2>3, <2>4, PaymentsTyped DEF SweepOverdue, LedgerTypeOK
<1>5. CASE MonthPasses
  <2>1. PaymentsStep
    BY <1>5, RowsUntouched DEF MonthPasses
  <2>. QED
    BY <1>5, <2>1, BoundsAssumption DEF MonthPasses, LedgerTypeOK, RowsOfCreated
<1>. QED  BY <1>1, <1>2, <1>3, <1>4, <1>5 DEF Next

-----------------------------------------------------------------------------
(* The first state: nothing is lent yet, and no row is there.              *)
LEMMA InitTyped == Init => LedgerTypeOK /\ AtMostOneUpcoming
<1>. SUFFICES ASSUME Init PROVE LedgerTypeOK /\ AtMostOneUpcoming
  OBVIOUS
<1>1. Absent \in InvestmentDoc
  BY BoundsAssumption, TermsAssumption DEF Absent, InvestmentDoc, Money, Statuses, NoDue
<1>2. IsRows(<< >>) /\ DOMAIN << >> = {}
  BY DEF IsRows
<1>3. LedgerTypeOK
  BY <1>1, <1>2, BoundsAssumption DEF Init, LedgerTypeOK, RowsOfCreated
<1>. QED  BY <1>3 DEF Init, AtMostOneUpcoming, OneUpcoming

(* Whatever requests are served, the documents and rows of the ledger keep *)
(* their types: balances stay in 0..MaxPrincipal although markPaid,        *)
(* earlyRepayment and regenerateSchedule each compute them differently     *)
(* (investment.service.ts:289-294, 461-481, 580-607).                      *)
THEOREM LedgerTyped == Spec => []LedgerTypeOK
<1>1. Init => LedgerTypeOK
  BY InitTyped
<1>2. LedgerTypeOK /\ [Next]_vars => LedgerTypeOK'
  BY NextStep
<1>. QED  BY <1>1, <1>2, PTL DEF Spec

(* No sequence of requests, sweeps and removals ever shows two next        *)
(* payments of an investment: refreshInvestmentPaymentMeta may skip the    *)
(* normalisation, and yet every operator keeps a single upcoming row       *)
(* (investment.service.ts:243-262, 306-343, 683-696).                      *)
THEOREM OneNextPayment == Spec => []AtMostOneUpcoming
<1>1. Init => AtMostOneUpcoming
  BY InitTyped
<1>2. LedgerTypeOK /\ AtMostOneUpcoming /\ [Next]_vars => AtMostOneUpcoming'
  BY NextStep DEF PaymentsStep, RowsStep, AtMostOneUpcoming
<1>. QED  BY <1>1, <1>2, LedgerTyped, PTL DEF Spec

(* A completed payment is never deleted or rewritten, by deleteUnpaid, a   *)
(* regeneration, a sweep or any other request (investment.service.ts:287,  *)
(* 443-450, 556-562, 588-592; domain.repositories.ts:61-66).               *)
THEOREM CompletedStays == Spec => CompletedRowsFinal
<1>1. LedgerTypeOK /\ [Next]_vars =>
        [\A i \in Investments : \A s \in DOMAIN payments[i] :
            payments[i][s].status = "completed" =>
                s \in DOMAIN payments'[i] /\ payments'[i][s] = payments[i][s]]_vars
  BY NextStep DEF PaymentsStep, RowsStep, RowsKept
<1>. QED  BY <1>1, LedgerTyped, PTL DEF Spec, CompletedRowsFinal

-----------------------------------------------------------------------------
(* The totals of an investor.  What is counted of a finite set is finite,  *)
(* and the sums are natural numbers.                                       *)
LEMMA TotalsAreNatural ==
    ASSUME NEW invs \in [Investments -> InvestmentDoc], NEW v
    PROVE  TotalInvested(invs, v) \in Nat /\ TotalOutstanding(invs, v) \in Nat
<1>. DEFINE C == Counted(invs, v)
            invested == [i \in C |-> invs[i].terms.principal]
            outstanding == [i \in C |-> invs[i].outstanding]
<1>1. IsFiniteSet(C) /\ C \subseteq Investments
  BY FS_Subset, BoundsAssumption DEF Counted
<1>2. \A i \in C : invs[i].terms.principal \in Nat /\ invs[i].outstanding \in Nat
  <2>. TAKE i \in C
  <2>1. invs[i].terms \in Terms /\ invs[i].outstanding \in Money
    BY <1>1 DEF InvestmentDoc
  <2>. QED  BY <2>1, TermsAssumption, BoundsAssumption DEF Money
<1>. HIDE DEF C
<1>3. invested \in [C -> Nat] /\ outstanding \in [C -> Nat]
  BY <1>2
<1>4. SumFunction(invested) \in Nat /\ SumFunction(outstanding) \in Nat
  BY <1>1, <1>3, SumOfNaturals
<1>. QED  BY <1>4 DEF TotalInvested, TotalOutstanding, C

InvestorsTyped == investors \in [Investors -> [live : BOOLEAN, invested : Nat, outstanding : Nat]]

(* syncTotals writes natural numbers.                                      *)
LEMMA SyncTotalsTyped ==
    ASSUME InvestorsTyped, investments' \in [Investments -> InvestmentDoc],
           NEW v \in Investors, SyncTotals(v)
    PROVE  InvestorsTyped'
<1>1. TotalInvested(investments', v) \in Nat /\ TotalOutstanding(investments', v) \in Nat
  BY TotalsAreNatural
<1>. DEFINE a == TotalInvested(investments', v)
            b == TotalOutstanding(investments', v)
<1>2. investors' = IF investors[v].live
                   THEN [investors EXCEPT ![v].invested = a, ![v].outstanding = b]
                   ELSE investors
  BY DEF SyncTotals
<1>. HIDE DEF a, b
<1>3. a \in Nat /\ b \in Nat
  BY <1>1 DEF a, b
<1>. QED  BY <1>2, <1>3 DEF InvestorsTyped

(* A step writes the investors by syncTotals, or removes one, or leaves    *)
(* them alone.                                                             *)
LEMMA InvestorsWritten ==
    ASSUME LedgerTypeOK, [Next]_vars
    PROVE  \/ UNCHANGED investors
           \/ \E v \in Investors : SyncTotals(v) \/ RemoveInvestor(v)
<1>1. ASSUME NEW i \in Investments, Request(i)
      PROVE  UNCHANGED investors \/ \E v \in Investors : SyncTotals(v)
  <2>0. investments[i] \in InvestmentDoc /\ investments[i].investor \in Investors
    BY DEF LedgerTypeOK, InvestmentDoc
  <2>1. ASSUME NEW v \in Investors, NEW t \in Terms, NEW status \in StatusInputs,
               Create(i, v, t, status)
        PROVE  \E w \in Investors : SyncTotals(w)
    BY <2>1 DEF Create
  <2>2. ASSUME NEW t \in Terms, NEW repriced \in BOOLEAN,
               NEW status \in StatusInputs \cup {investments[i].status},
               UpdateTerms(i, t, repriced, status)
        PROVE  UNCHANGED investors \/ \E v \in Investors : SyncTotals(v)
    BY <2>0, <2>2 DEF UpdateTerms, InvestmentDoc
  <2>3. ASSUME NEW status \in StatusInputs, UpdateStatus(i, status)
        PROVE  \E v \in Investors : SyncTotals(v)
    BY <2>0, <2>3 DEF UpdateStatus
  <2>4. CASE Remove(i)
    BY <2>0, <2>4 DEF Remove
  <2>5. CASE RegenerateSchedule(i)
    BY <2>5 DEF RegenerateSchedule
  <2>6. ASSUME NEW s \in DOMAIN payments[i], NEW amount,
               MarkPaid(i, s, amount) \/ MarkPaidOfDeleted(i, s, amount)
        PROVE  UNCHANGED investors \/ \E v \in Investors : SyncTotals(v)
    <3>1. Credited(investments[i], payments[i][s], amount).investor = investments[i].investor
      BY <2>0 DEF Credited, InvestmentDoc
    <3>. QED  BY <2>0, <2>6, <3>1 DEF MarkPaid, MarkPaidOfDeleted
  <2>7. ASSUME NEW s \in DOMAIN payments[i], CancelPayment(i, s)
        PROVE  UNCHANGED investors
    BY <2>7 DEF CancelPayment
  <2>8. ASSUME NEW amount \in Amounts, NEW portion \in InterestPortions,
               EarlyRepayment(i, amount, portion)
        PROVE  UNCHANGED investors \/ \E v \in Investors : SyncTotals(v)
    <3>1. \A row : CreditedEarly(investments[i], row).investor = investments[i].investor
      BY <2>0 DEF CreditedEarly, InvestmentDoc
    <3>. QED  BY <2>0, <2>8, <3>1 DEF EarlyRepayment
  <2>9. ASSUME NEW amount \in Amounts, EarlyRepaymentRefused(i, amount)
        PROVE  UNCHANGED investors
    BY <2>9 DEF EarlyRepaymentRefused
  <2>10. CASE ListPayments(i)
    BY <2>10 DEF ListPayments
  <2>. QED
    BY <1>1, <2>1, <2>2, <2>3, <2>4, <2>5, <2>6, <2>7, <2>8, <2>9, <2>10 DEF Request
<1>. QED  BY <1>1 DEF Next, vars, SweepOverdue, MonthPasses

(* Every document keeps the shape its schema gives it: the totals          *)
(* syncTotals writes are natural numbers, and the rest is LedgerTyped      *)
(* (investor.service.ts, payment.model.ts, investment.model.ts).           *)
THEOREM LedgerAlwaysTyped == Spec => []TypeOK
<1>1. Init => InvestorsTyped
  BY DEF Init, InvestorsTyped
<1>2. LedgerTypeOK /\ LedgerTypeOK' /\ InvestorsTyped /\ [Next]_vars => InvestorsTyped'
  <2>. SUFFICES ASSUME LedgerTypeOK, LedgerTypeOK', InvestorsTyped, [Next]_vars
                PROVE  InvestorsTyped'
    OBVIOUS
  <2>1. ASSUME NEW v \in Investors, RemoveInvestor(v) PROVE InvestorsTyped'
    BY <2>1 DEF InvestorsTyped, RemoveInvestor
  <2>2. ASSUME NEW v \in Investors, SyncTotals(v) PROVE InvestorsTyped'
    BY <2>2, SyncTotalsTyped DEF LedgerTypeOK
  <2>3. CASE UNCHANGED investors
    BY <2>3 DEF InvestorsTyped
  <2>. QED  BY <2>1, <2>2, <2>3, InvestorsWritten
<1>3. LedgerTypeOK /\ InvestorsTyped => TypeOK
  BY DEF TypeOK, InvestorsTyped
<1>. QED  BY <1>1, <1>2, <1>3, LedgerTyped, PTL DEF Spec

-----------------------------------------------------------------------------
(* What the rows allocate of the money they received.                      *)
PrincipalParts(rows) == [s \in DOMAIN rows |-> PrincipalOf(rows[s], rows[s].amountPaid)]
InterestParts(rows)  == [s \in DOMAIN rows |-> InterestOf(rows[s], rows[s].amountPaid)]

PrincipalPaid(rows) == SumFunction(PrincipalParts(rows))
InterestPaid(rows)  == SumFunction(InterestParts(rows))

Covers(inv, rows) == PrincipalPaid(rows) <= inv.repaid /\ InterestPaid(rows) <= inv.earned

(* Rows come to new without receiving money, or are left out.              *)
NothingReceived(old, new) ==
    \A s \in DOMAIN new :
        \/ new[s].amountPaid = 0
        \/ /\ s \in DOMAIN old
           /\ new[s].principal = old[s].principal /\ new[s].interest = old[s].interest
           /\ new[s].amountPaid = old[s].amountPaid

(* The allocation of a natural amount: the parts are natural numbers that  *)
(* the row and the amount bound, and nothing is allocated of nothing.      *)
LEMMA AllocationFacts ==
    ASSUME NEW row \in Row, NEW amount \in Nat
    PROVE  /\ InterestOf(row, amount) \in Nat /\ InterestOf(row, amount) <= amount
           /\ InterestOf(row, amount) <= row.interest
           /\ PrincipalOf(row, amount) \in Nat /\ PrincipalOf(row, amount) <= row.principal
           /\ PrincipalOf(row, amount) <= amount - InterestOf(row, amount)
           /\ amount = 0 => InterestOf(row, amount) = 0 /\ PrincipalOf(row, amount) = 0
<1>1. row.principal \in Nat /\ row.interest \in Nat
  BY DEF Row
<1>. QED  BY <1>1 DEF InterestOf, PrincipalOf, Smaller

(* The rows of an investment are finitely many, and what each allocates is *)
(* a natural number.                                                       *)
LEMMA AllocationsTyped ==
    ASSUME NEW rows, IsRows(rows)
    PROVE  /\ IsFiniteSet(DOMAIN rows)
           /\ PrincipalParts(rows) \in [DOMAIN rows -> Nat]
           /\ InterestParts(rows) \in [DOMAIN rows -> Nat]
           /\ PrincipalPaid(rows) \in Nat /\ InterestPaid(rows) \in Nat
<1>. DEFINE S == DOMAIN rows
            f == PrincipalParts(rows)
            g == InterestParts(rows)
<1>1. IsFiniteSet(S)
  <2>1. 1 \in Int /\ MaxSeq \in Int
    BY BoundsAssumption
  <2>2. IsFiniteSet(1..MaxSeq)
    BY <2>1, FS_Interval
  <2>3. S \subseteq 1..MaxSeq
    BY DEF IsRows
  <2>. QED  BY <2>2, <2>3, FS_Subset
<1>2. f \in [S -> Nat] /\ g \in [S -> Nat]
  <2>1. \A s \in S : rows[s] \in Row /\ rows[s].amountPaid \in Nat
    BY DEF IsRows, Row
  <2>2. \A s \in S : /\ PrincipalOf(rows[s], rows[s].amountPaid) \in Nat
                     /\ InterestOf(rows[s], rows[s].amountPaid) \in Nat
    BY <2>1, AllocationFacts
  <2>. QED  BY <2>2 DEF PrincipalParts, InterestParts
<1>. HIDE DEF S, f, g
<1>3. SumFunction(f) \in Nat /\ SumFunction(g) \in Nat
  BY <1>1, <1>2, SumOfNaturals
<1>. QED  BY <1>1, <1>2, <1>3 DEF S, f, g, PrincipalPaid, InterestPaid

(* Rows that receive nothing allocate no more than before.                 *)
LEMMA NothingReceivedCovers ==
    ASSUME NEW old, IsRows(old), NEW new, IsRows(new), NothingReceived(old, new)
    PROVE  PrincipalPaid(new) <= PrincipalPaid(old) /\ InterestPaid(new) <= InterestPaid(old)
<1>. DEFINE S == DOMAIN old
            T == DOMAIN new
            pOld == PrincipalParts(old)
            pNew == PrincipalParts(new)
            iOld == InterestParts(old)
            iNew == InterestParts(new)
<1>1. /\ IsFiniteSet(S) /\ pOld \in [S -> Nat] /\ iOld \in [S -> Nat]
      /\ IsFiniteSet(T) /\ pNew \in [T -> Nat] /\ iNew \in [T -> Nat]
  BY AllocationsTyped
<1>2. ASSUME NEW s \in T
      PROVE  /\ pNew[s] = 0 \/ (s \in S /\ pNew[s] <= pOld[s])
             /\ iNew[s] = 0 \/ (s \in S /\ iNew[s] <= iOld[s])
  <2>1. new[s] \in Row
    BY DEF IsRows
  <2>2. CASE new[s].amountPaid = 0
    <3>1. PrincipalOf(new[s], 0) = 0 /\ InterestOf(new[s], 0) = 0
      BY <2>1, AllocationFacts
    <3>. QED  BY <2>2, <3>1 DEF PrincipalParts, InterestParts
  <2>3. CASE /\ s \in DOMAIN old
             /\ new[s].principal = old[s].principal /\ new[s].interest = old[s].interest
             /\ new[s].amountPaid = old[s].amountPaid
    <3>1. pNew[s] = pOld[s] /\ iNew[s] = iOld[s]
      BY <2>3 DEF PrincipalParts, InterestParts, PrincipalOf, InterestOf
    <3>2. pOld[s] \in Nat /\ iOld[s] \in Nat
      BY <1>1, <2>3
    <3>. HIDE DEF pOld, pNew, iOld, iNew
    <3>. QED  BY <2>3, <3>1, <3>2
  <2>. QED  BY <2>2, <2>3 DEF NothingReceived
<1>. HIDE DEF pOld, pNew, iOld, iNew, S, T
<1>3. SumFunction(pNew) <= SumFunction(pOld)
  BY <1>1, <1>2, SumShrinks
<1>4. SumFunction(iNew) <= SumFunction(iOld)
  BY <1>1, <1>2, SumShrinks
<1>. QED  BY <1>3, <1>4 DEF pOld, pNew, iOld, iNew, PrincipalPaid, InterestPaid

(* Receiving nothing is transitive, as updates of the same rows chain.     *)
LEMMA NothingReceivedTransitive ==
    ASSUME NEW a, NEW b, NEW c, NothingReceived(a, b), NothingReceived(b, c)
    PROVE  NothingReceived(a, c)
BY DEF NothingReceived

(* A ledger that covers the rows covers them when they receive nothing.    *)
LEMMA CoversStill ==
    ASSUME NEW inv, NEW rows, IsRows(rows), Covers(inv, rows),
           inv.repaid \in Nat, inv.earned \in Nat,
           NEW now, now.repaid = inv.repaid, now.earned = inv.earned,
           NEW new, IsRows(new), NothingReceived(rows, new)
    PROVE  Covers(now, new)
<1>1. PrincipalPaid(new) <= PrincipalPaid(rows) /\ InterestPaid(new) <= InterestPaid(rows)
  BY NothingReceivedCovers
<1>2. /\ PrincipalPaid(new) \in Nat /\ InterestPaid(new) \in Nat
      /\ PrincipalPaid(rows) \in Nat /\ InterestPaid(rows) \in Nat
  BY AllocationsTyped
<1>. QED  BY <1>1, <1>2 DEF Covers

-----------------------------------------------------------------------------
(* Sweeps, refreshes, deletions of unpaid rows and regenerations receive   *)
(* nothing.                                                                *)
LEMMA MarkedReceivesNothing ==
    ASSUME NEW rows, IsRows(rows)
    PROVE  NothingReceived(rows, MarkedOverdue(rows))
<1>1. \A s \in DOMAIN rows : rows[s] \in Row
  BY DEF IsRows
<1>. QED  BY <1>1 DEF NothingReceived, MarkedOverdue, WithStatus, Row

(* The normalisation changes statuses only.                                *)
LEMMA NormalisedReceivesNothing ==
    ASSUME NEW rows, IsRows(rows)
    PROVE  NothingReceived(rows, Normalised(rows))
<1>1. \A s \in DOMAIN rows : rows[s] \in Row
  BY DEF IsRows
<1>2. DOMAIN Normalised(rows) = DOMAIN rows
  BY DEF Normalised
<1>3. ASSUME NEW s \in DOMAIN rows
      PROVE  \/ Normalised(rows)[s] = rows[s]
             \/ Normalised(rows)[s] = WithStatus(rows[s], "upcoming")
             \/ Normalised(rows)[s] = WithStatus(rows[s], "future")
  BY DEF Normalised
<1>. QED  BY <1>1, <1>2, <1>3 DEF NothingReceived, WithStatus, Row

(* The refresh marks and normalises.                                       *)
LEMMA RefreshReceivesNothing ==
    ASSUME NEW rows, IsRows(rows)
    PROVE  NothingReceived(rows, RefreshedRows(rows)) /\ IsRows(RefreshedRows(rows))
<1>1. IsRows(MarkedOverdue(rows))
  BY MarkedOverdueStep DEF RowsStep
<1>2. NothingReceived(MarkedOverdue(rows), RefreshedRows(rows))
  BY <1>1, NormalisedReceivesNothing DEF RefreshedRows
<1>3. NothingReceived(rows, RefreshedRows(rows))
  BY <1>2, MarkedReceivesNothing, NothingReceivedTransitive
<1>. QED  BY <1>3, RefreshedRowsStep DEF RowsStep

(* A regeneration keeps paid rows as they are and adds rows that have      *)
(* received nothing, however far insertMany comes.                         *)
LEMMA RegeneratedReceivesNothing ==
    ASSUME NEW rows, IsRows(rows), NEW inv \in InvestmentDoc, RegenerateFits(inv, rows),
           today \in Nat
    PROVE  NothingReceived(rows, RegeneratedRows(inv, rows)) /\ IsRows(RegeneratedRows(inv, rows))
<1>. DEFINE new == Rebuilt(inv, rows)
<1>1. IsRows(new)
  BY RebuiltStep DEF RowsStep
<1>2. NothingReceived(rows, new)
  <2>1. /\ DOMAIN PaidOnly(rows) \subseteq DOMAIN rows
        /\ \A s \in DOMAIN PaidOnly(rows) : PaidOnly(rows)[s] = rows[s]
    BY PaidOnlyFacts
  <2>2. \A s \in DOMAIN new : \/ s \in DOMAIN PaidOnly(rows) /\ new[s] = PaidOnly(rows)[s]
                              \/ new[s] = RegeneratedRow(inv, rows, s)
    BY DEF Rebuilt
  <2>3. \A s : RegeneratedRow(inv, rows, s).amountPaid = 0
    BY DEF RegeneratedRow, NewRow
  <2>. HIDE DEF new
  <2>. QED  BY <2>1, <2>2, <2>3 DEF NothingReceived
<1>. HIDE DEF new
<1>3. NothingReceived(rows, RefreshedRows(new)) /\ IsRows(RefreshedRows(new))
  BY <1>1, <1>2, RefreshReceivesNothing, NothingReceivedTransitive
<1>4. NothingReceived(rows, MarkedOverdue(RefreshedRows(new)))
  BY <1>3, MarkedReceivesNothing, NothingReceivedTransitive
<1>5. NothingReceived(rows, RegeneratedRows(inv, rows))
  BY <1>2, <1>4 DEF RegeneratedRows, new
<1>. QED  BY <1>5, RegeneratedFacts DEF RowsStep

-----------------------------------------------------------------------------
(* markPaid credits at least what the row allocates more than before: the  *)
(* parts of the amount grow by no more than the two clamped differences.   *)
LEMMA CreditedCovers ==
    ASSUME NEW inv \in InvestmentDoc, NEW rows, IsRows(rows), NEW s \in DOMAIN rows,
           NEW amount \in Nat, Covers(inv, rows), IsRows(WithPayment(rows, s, amount))
    PROVE  Covers(Credited(inv, rows[s], amount), WithPayment(rows, s, amount))
<1>. DEFINE new == WithPayment(rows, s, amount)
            row == rows[s]
            S == DOMAIN rows
            p == PrincipalParts(rows)
            q == PrincipalParts(new)
            f == InterestParts(rows)
            g == InterestParts(new)
<1>1. /\ row \in Row /\ row.amountPaid \in Nat
      /\ row.principal \in Nat /\ row.interest \in Nat
  BY DEF IsRows, Row
<1>2. /\ DOMAIN new = S
      /\ \A u \in S \ {s} : new[u] = rows[u]
      /\ new[s].principal = row.principal /\ new[s].interest = row.interest
      /\ new[s].amountPaid = amount
  BY <1>1 DEF WithPayment, Row
<1>3. /\ IsFiniteSet(S)
      /\ p \in [S -> Int] /\ q \in [S -> Int] /\ f \in [S -> Int] /\ g \in [S -> Int]
      /\ SumFunction(p) \in Nat /\ SumFunction(f) \in Nat
  BY <1>2, AllocationsTyped DEF PrincipalPaid, InterestPaid
<1>4. /\ \A u \in S \ {s} : p[u] = q[u] /\ f[u] = g[u]
      /\ p[s] = PrincipalOf(row, row.amountPaid) /\ q[s] = PrincipalOf(row, amount)
      /\ f[s] = InterestOf(row, row.amountPaid) /\ g[s] = InterestOf(row, amount)
  BY <1>2 DEF PrincipalParts, InterestParts, PrincipalOf, InterestOf
<1>. HIDE DEF new, row, S, p, q, f, g
<1>5. /\ SumFunction(q) = SumFunction(p) - p[s] + q[s]
      /\ SumFunction(g) = SumFunction(f) - f[s] + g[s]
  BY <1>3, <1>4, SumOfUpdate DEF S
<1>6. /\ p[s] \in Nat /\ f[s] \in Nat /\ q[s] \in Nat /\ g[s] \in Nat
      /\ p[s] <= row.amountPaid - f[s] /\ q[s] <= row.principal
  BY <1>1, <1>4, AllocationFacts
<1>7. p[s] = row.principal \/ p[s] = row.amountPaid - f[s]
  BY <1>1, <1>4 DEF PrincipalOf, Smaller
<1>8. q[s] - p[s] <= NewPrincipal(row, amount) /\ NewPrincipal(row, amount) \in Nat
  BY <1>1, <1>4, <1>6, <1>7 DEF NewPrincipal, Minus
<1>9. g[s] - f[s] <= NewInterest(row, amount) /\ NewInterest(row, amount) \in Nat
  BY <1>4, <1>6 DEF NewInterest, Minus
<1>10. /\ Credited(inv, row, amount).repaid = inv.repaid + NewPrincipal(row, amount)
       /\ Credited(inv, row, amount).earned = inv.earned + NewInterest(row, amount)
       /\ inv.repaid \in Nat /\ inv.earned \in Nat
  BY DEF Credited, InvestmentDoc
<1>11. SumFunction(p) <= inv.repaid /\ SumFunction(f) <= inv.earned
  BY DEF Covers, PrincipalPaid, InterestPaid, p, f
<1>12. /\ SumFunction(q) <= Credited(inv, row, amount).repaid
       /\ SumFunction(g) <= Credited(inv, row, amount).earned
  BY <1>3, <1>5, <1>6, <1>8, <1>9, <1>10, <1>11
<1>. QED  BY <1>12 DEF Covers, PrincipalPaid, InterestPaid, q, g, new, row

(* An early repayment is credited as its row allocates it, whole.          *)
LEMMA EarlyCovers ==
    ASSUME NEW inv \in InvestmentDoc, NEW rows, IsRows(rows), Covers(inv, rows),
           NEW row \in Row, row.amountPaid = row.principal + row.interest,
           EarlySeq(rows) \notin DOMAIN PaidOnly(rows), IsRows(WithEarlyRow(rows, row))
    PROVE  Covers(CreditedEarly(inv, row), WithEarlyRow(rows, row))
<1>. DEFINE new == WithEarlyRow(rows, row)
            kept == PaidOnly(rows)
            n == EarlySeq(rows)
            T == DOMAIN kept \cup {n}
            q == PrincipalParts(new)
            g == InterestParts(new)
            p == PrincipalParts(kept)
            f == InterestParts(kept)
<1>1. /\ DOMAIN new = T /\ new[n] = row
      /\ \A u \in DOMAIN kept : kept[u] = rows[u] /\ new[u] = kept[u]
      /\ DOMAIN kept \subseteq DOMAIN rows /\ IsRows(kept)
  BY PaidOnlyFacts DEF WithEarlyRow, RowsStep
<1>2. row.principal \in Nat /\ row.interest \in Nat
  BY DEF Row
<1>3. q[n] = row.principal /\ g[n] = row.interest
  <2>1. PrincipalOf(row, row.amountPaid) = row.principal /\ InterestOf(row, row.amountPaid) = row.interest
    BY <1>2 DEF PrincipalOf, InterestOf, Smaller
  <2>. HIDE DEF new, n
  <2>. QED  BY <1>1, <2>1 DEF PrincipalParts, InterestParts
<1>4. /\ IsFiniteSet(T) /\ q \in [T -> Int] /\ g \in [T -> Int]
      /\ SumFunction(p) \in Nat /\ SumFunction(f) \in Nat
  BY <1>1, AllocationsTyped DEF PrincipalPaid, InterestPaid
<1>5. Without(q, n) = p /\ Without(g, n) = f
  <2>1. DOMAIN q \ {n} = DOMAIN kept /\ DOMAIN g \ {n} = DOMAIN kept
    BY <1>1 DEF PrincipalParts, InterestParts
  <2>2. \A u \in DOMAIN kept : q[u] = p[u] /\ g[u] = f[u]
    BY <1>1 DEF PrincipalParts, InterestParts
  <2>3. p = [u \in DOMAIN kept |-> p[u]] /\ f = [u \in DOMAIN kept |-> f[u]]
    BY DEF PrincipalParts, InterestParts
  <2>. HIDE DEF new, kept, n, q, g, p, f
  <2>. QED  BY <2>1, <2>2, <2>3 DEF Without
<1>6. NothingReceived(rows, kept)
  BY <1>1 DEF NothingReceived
<1>7. PrincipalPaid(kept) <= inv.repaid /\ InterestPaid(kept) <= inv.earned
  <2>1. inv.repaid \in Nat /\ inv.earned \in Nat
    BY DEF InvestmentDoc
  <2>2. Covers(inv, kept)
    BY <1>1, <1>6, <2>1, CoversStill
  <2>. QED  BY <2>2 DEF Covers
<1>8. n \in T
  OBVIOUS
<1>. HIDE DEF new, kept, n, T, q, g, p, f
<1>9. SumFunction(q) = q[n] + SumFunction(p) /\ SumFunction(g) = g[n] + SumFunction(f)
  BY <1>4, <1>5, <1>8, SumOfRest
<1>10. /\ CreditedEarly(inv, row).repaid = inv.repaid + row.principal
       /\ CreditedEarly(inv, row).earned = inv.earned + row.interest
       /\ inv.repaid \in Nat /\ inv.earned \in Nat
  BY DEF CreditedEarly, InvestmentDoc
<1>11. SumFunction(p) <= inv.repaid /\ SumFunction(f) <= inv.earned
  BY <1>7 DEF PrincipalPaid, InterestPaid, p, f
<1>12. /\ SumFunction(q) <= CreditedEarly(inv, row).repaid
       /\ SumFunction(g) <= CreditedEarly(inv, row).earned
  BY <1>2, <1>3, <1>4, <1>9, <1>10, <1>11
<1>. QED  BY <1>12 DEF Covers, PrincipalPaid, InterestPaid, q, g, new

-----------------------------------------------------------------------------
(* Every step keeps the ledger covering the rows.  The refresh and the     *)
(* regeneration leave what was collected alone.                            *)
LEMMA MetaCollectsNothing ==
    ASSUME NEW inv \in InvestmentDoc, NEW rows
    PROVE  /\ RefreshedMeta(inv, rows).repaid = inv.repaid
           /\ RefreshedMeta(inv, rows).earned = inv.earned
           /\ RegeneratedMeta(inv, rows).repaid = inv.repaid
           /\ RegeneratedMeta(inv, rows).earned = inv.earned
<1>1. \A seen : /\ RefreshedMeta(inv, seen).repaid = inv.repaid
                /\ RefreshedMeta(inv, seen).earned = inv.earned
  BY DEF RefreshedMeta, InvestmentDoc
<1>. QED  BY <1>1 DEF RegeneratedMeta

(* A request that ends in refreshInvestmentPaymentMeta.                    *)
LEMMA RefreshCovers ==
    ASSUME LedgerTypeOK, LedgerCoversRows, NEW i \in Investments, NEW inv \in InvestmentDoc,
           NEW rows, IsRows(rows), inv.state = "live" => Covers(inv, rows),
           Refresh(i, inv, rows)
    PROVE  LedgerCoversRows'
<1>1. NothingReceived(rows, RefreshedRows(rows)) /\ IsRows(RefreshedRows(rows))
  BY RefreshReceivesNothing
<1>2. RefreshedMeta(inv, rows).state = inv.state
  BY RefreshedMetaType
<1>3. inv.repaid \in Nat /\ inv.earned \in Nat
  BY DEF InvestmentDoc
<1>4. inv.state = "live" => Covers(RefreshedMeta(inv, rows), RefreshedRows(rows))
  BY <1>1, <1>3, MetaCollectsNothing, CoversStill
<1>5. \A j \in Investments :
        /\ investments'[j] = IF j = i THEN RefreshedMeta(inv, rows) ELSE investments[j]
        /\ payments'[j] = IF j = i THEN RefreshedRows(rows) ELSE payments[j]
  BY DEF Refresh, LedgerTypeOK
<1>6. ASSUME NEW j \in Investments, investments'[j].state = "live"
      PROVE  Covers(investments'[j], payments'[j])
  <2>1. CASE j = i
    BY <1>2, <1>4, <1>5, <1>6, <2>1
  <2>2. CASE j # i
    BY <1>5, <1>6, <2>2 DEF LedgerCoversRows, Covers, PrincipalPaid, InterestPaid,
                            PrincipalParts, InterestParts
  <2>. QED  BY <2>1, <2>2
<1>. QED  BY <1>6 DEF LedgerCoversRows, Covers, PrincipalPaid, InterestPaid,
                     PrincipalParts, InterestParts

(* A request that ends in regenerateSchedule.                              *)
LEMMA RegenerateCovers ==
    ASSUME LedgerTypeOK, LedgerCoversRows, NEW i \in Investments, NEW inv \in InvestmentDoc,
           NEW rows, IsRows(rows), inv.state = "live" => Covers(inv, rows),
           Regenerate(i, inv, rows)
    PROVE  LedgerCoversRows'
<1>0. RegenerateFits(inv, rows) /\ today \in Nat
  BY BoundsAssumption DEF Regenerate, LedgerTypeOK
<1>1. NothingReceived(rows, RegeneratedRows(inv, rows)) /\ IsRows(RegeneratedRows(inv, rows))
  BY <1>0, RegeneratedReceivesNothing
<1>2. RegeneratedMeta(inv, rows).state = inv.state
  BY <1>0, RegeneratedFacts
<1>3. inv.repaid \in Nat /\ inv.earned \in Nat
  BY DEF InvestmentDoc
<1>4. inv.state = "live" => Covers(RegeneratedMeta(inv, rows), RegeneratedRows(inv, rows))
  BY <1>1, <1>3, MetaCollectsNothing, CoversStill
<1>5. \A j \in Investments :
        /\ investments'[j] = IF j = i THEN RegeneratedMeta(inv, rows) ELSE investments[j]
        /\ payments'[j] = IF j = i THEN RegeneratedRows(inv, rows) ELSE payments[j]
  BY DEF Regenerate, LedgerTypeOK
<1>6. ASSUME NEW j \in Investments, investments'[j].state = "live"
      PROVE  Covers(investments'[j], payments'[j])
  <2>1. CASE j = i
    BY <1>2, <1>4, <1>5, <1>6, <2>1
  <2>2. CASE j # i
    BY <1>5, <1>6, <2>2 DEF LedgerCoversRows, Covers, PrincipalPaid, InterestPaid,
                            PrincipalParts, InterestParts
  <2>. QED  BY <2>1, <2>2
<1>. QED  BY <1>6 DEF LedgerCoversRows, Covers, PrincipalPaid, InterestPaid,
                     PrincipalParts, InterestParts

(* A step that changes rows only, and of no live investment what the       *)
(* rows received.                                                          *)
LEMMA SweepCovers ==
    ASSUME LedgerTypeOK, LedgerCoversRows, LedgerTypeOK',
           \A j \in Investments : investments'[j].state = "live" =>
              /\ investments[j].state = "live"
              /\ investments'[j].repaid = investments[j].repaid
              /\ investments'[j].earned = investments[j].earned
              /\ NothingReceived(payments[j], payments'[j])
    PROVE  LedgerCoversRows'
<1>1. ASSUME NEW j \in Investments, investments'[j].state = "live"
      PROVE  Covers(investments'[j], payments'[j])
  <2>1. /\ Covers(investments[j], payments[j])
        /\ investments[j].repaid \in Nat /\ investments[j].earned \in Nat
        /\ IsRows(payments[j]) /\ IsRows(payments'[j])
    BY <1>1 DEF LedgerCoversRows, Covers, PrincipalPaid, InterestPaid, PrincipalParts,
                InterestParts, LedgerTypeOK, InvestmentDoc
  <2>. QED  BY <1>1, <2>1, CoversStill
<1>. QED  BY <1>1 DEF LedgerCoversRows, Covers, PrincipalPaid, InterestPaid,
                     PrincipalParts, InterestParts

(* No rows allocate nothing.                                               *)
LEMMA NoRowsCovered ==
    ASSUME NEW inv \in InvestmentDoc, NEW rows, DOMAIN rows = {}
    PROVE  Covers(inv, rows)
<1>1. DOMAIN PrincipalParts(rows) = {} /\ DOMAIN InterestParts(rows) = {}
  BY DEF PrincipalParts, InterestParts
<1>2. PrincipalPaid(rows) = 0 /\ InterestPaid(rows) = 0
  BY <1>1, SumOfNothing DEF PrincipalPaid, InterestPaid
<1>3. inv.repaid \in Nat /\ inv.earned \in Nat
  BY DEF InvestmentDoc
<1>. QED  BY <1>2, <1>3 DEF Covers

(* POST /investments: the new rows have received nothing.                  *)
LEMMA CreateCovers ==
    ASSUME LedgerTypeOK, LedgerCoversRows, NEW i \in Investments, NEW v \in Investors,
           NEW t \in Terms, NEW status \in StatusInputs, Create(i, v, t, status)
    PROVE  LedgerCoversRows'
<1>. DEFINE inv == [state |-> "live", investor |-> v, terms |-> t,
                    outstanding |-> t.principal, repaid |-> 0, earned |-> 0, status |-> status,
                    monthly |-> Instalment(t, t.principal, t.term), nextDue |-> NoDue]
            rows == GeneratedRows(t)
<1>1. /\ t.principal \in 1..MaxPrincipal /\ t.term \in 1..MaxSeq
      /\ status \in Statuses /\ today \in Nat
  BY TermsAssumption, BoundsAssumption DEF LedgerTypeOK
<1>2. inv \in InvestmentDoc
  <2>1. Instalment(t, t.principal, t.term) \in Nat
    BY <1>1, InstalmentAssumption
  <2>. QED  BY <1>1, <2>1, BoundsAssumption DEF InvestmentDoc, NoDue, Money
<1>3. IsRows(rows)
  BY <1>1, GeneratedRowsFacts
<1>4. Covers(inv, payments[i]) /\ IsRows(payments[i])
  BY <1>2, NoRowsCovered DEF Create, LedgerTypeOK, RowsOfCreated
<1>5. NothingReceived(payments[i], rows)
  BY DEF NothingReceived, GeneratedRows, NewRow
<1>6. inv.repaid = 0 /\ inv.earned = 0
  OBVIOUS
<1>7. Refresh(i, inv, rows)
  BY DEF Create
<1>. HIDE DEF inv, rows
<1>8. Covers(inv, rows)
  BY <1>3, <1>4, <1>5, <1>6, CoversStill
<1>. QED  BY <1>2, <1>3, <1>7, <1>8, RefreshCovers

(* PATCH /investments/:id: new terms collect nothing.                      *)
LEMMA UpdateTermsCovers ==
    ASSUME LedgerTypeOK, LedgerCoversRows, NEW i \in Investments, NEW t \in Terms,
           NEW repriced \in BOOLEAN, NEW status \in Statuses, UpdateTerms(i, t, repriced, status)
    PROVE  LedgerCoversRows'
<1>. DEFINE old == investments[i]
            monthly == IF repriced THEN Instalment(t, t.principal, t.term) ELSE old.monthly
            inv == [old EXCEPT !.terms = t, !.status = status, !.monthly = monthly]
<1>1. old \in InvestmentDoc /\ old.state = "live" /\ IsRows(payments[i])
  BY DEF LedgerTypeOK, UpdateTerms
<1>2. monthly \in Nat
  <2>1. Instalment(t, t.principal, t.term) \in Nat
    BY TermsAssumption, InstalmentAssumption
  <2>. QED  BY <1>1, <2>1 DEF InvestmentDoc
<1>3. Regenerate(i, inv, payments[i])
  BY <1>1 DEF UpdateTerms, InvestmentDoc
<1>4. Covers(old, payments[i])
  BY <1>1 DEF LedgerCoversRows, Covers, PrincipalPaid, InterestPaid, PrincipalParts, InterestParts
<1>. HIDE DEF old, monthly
<1>5. inv \in InvestmentDoc /\ inv.repaid = old.repaid /\ inv.earned = old.earned
  BY <1>1, <1>2 DEF InvestmentDoc
<1>. HIDE DEF inv
<1>6. Covers(inv, payments[i])
  BY <1>4, <1>5 DEF Covers
<1>. QED  BY <1>1, <1>3, <1>5, <1>6, RegenerateCovers

(* POST /payments/:id/mark-paid, of a live investment.                     *)
LEMMA MarkPaidCovers ==
    ASSUME LedgerTypeOK, LedgerCoversRows, NEW i \in Investments, NEW s \in DOMAIN payments[i],
           NEW amount \in Nat, MarkPaid(i, s, amount)
    PROVE  LedgerCoversRows'
<1>. DEFINE inv  == Credited(investments[i], payments[i][s], amount)
            rows == WithPayment(payments[i], s, amount)
<1>1. /\ investments[i] \in InvestmentDoc /\ IsRows(payments[i]) /\ payments[i][s] \in Row
      /\ payments[i][s].status # "completed" /\ investments[i].state = "live"
  BY DEF LedgerTypeOK, IsRows, MarkPaid, Payable
<1>2. inv \in InvestmentDoc
  BY <1>1, CreditedFacts
<1>3. IsRows(rows)
  BY <1>1, WithPaymentStep DEF RowsStep
<1>4. Covers(investments[i], payments[i])
  BY <1>1 DEF LedgerCoversRows, Covers, PrincipalPaid, InterestPaid, PrincipalParts, InterestParts
<1>5. Covers(inv, rows)
  BY <1>1, <1>3, <1>4, CreditedCovers
<1>6. Refresh(i, inv, rows) \/ Regenerate(i, inv, rows)
  BY DEF MarkPaid
<1>. HIDE DEF inv, rows
<1>. QED  BY <1>2, <1>3, <1>5, <1>6, RefreshCovers, RegenerateCovers

(* POST /payments/:id/cancel takes back no money.                          *)
LEMMA CancelPaymentCovers ==
    ASSUME LedgerTypeOK, LedgerCoversRows, NEW i \in Investments, NEW s \in DOMAIN payments[i],
           CancelPayment(i, s)
    PROVE  LedgerCoversRows'
<1>. DEFINE rows == [payments[i] EXCEPT ![s].status = "cancelled"]
<1>1. /\ IsRows(payments[i]) /\ investments[i] \in InvestmentDoc
      /\ investments[i].repaid \in Nat /\ investments[i].earned \in Nat
  BY DEF LedgerTypeOK, InvestmentDoc
<1>2. IsRows(rows)
  BY <1>1, CancelledRowStep DEF CancelPayment, RowsStep
<1>3. NothingReceived(payments[i], rows)
  <2>1. \A u \in DOMAIN payments[i] : payments[i][u] \in Row
    BY <1>1 DEF IsRows
  <2>. QED  BY <2>1 DEF NothingReceived, Row
<1>4. Refresh(i, investments[i], rows)
  BY DEF CancelPayment
<1>. HIDE DEF rows
<1>5. investments[i].state = "live" => Covers(investments[i], rows)
  <2>1. investments[i].state = "live" => Covers(investments[i], payments[i])
    BY DEF LedgerCoversRows, Covers, PrincipalPaid, InterestPaid, PrincipalParts, InterestParts
  <2>. QED  BY <1>1, <1>2, <1>3, <2>1, CoversStill
<1>. QED  BY <1>1, <1>2, <1>4, <1>5, RefreshCovers

(* POST /investments/:id/early-repayment.                                  *)
LEMMA EarlyRepaymentCovers ==
    ASSUME LedgerTypeOK, LedgerCoversRows, NEW i \in Investments, NEW amount \in Nat,
           NEW portion \in Nat, EarlyRepayment(i, amount, portion)
    PROVE  LedgerCoversRows'
<1>. DEFINE applied == Smaller(amount, investments[i].outstanding)
            interest == Smaller(portion, applied)
            row  == EarlyRow(investments[i], applied, interest)
            inv  == CreditedEarly(investments[i], row)
            rows == WithEarlyRow(payments[i], row)
<1>1. /\ investments[i] \in InvestmentDoc /\ IsRows(payments[i]) /\ today \in Nat
      /\ investments[i].state = "live" /\ investments[i].outstanding \in Nat
  BY BoundsAssumption DEF LedgerTypeOK, EarlyRepayment, InvestmentDoc, Money
<1>2. row \in Row /\ row.status = "completed" /\ inv \in InvestmentDoc
  BY <1>1, EarlyRowFacts
<1>3. row.amountPaid = row.principal + row.interest
  <2>1. applied \in Int /\ interest \in Int
    BY <1>1 DEF Smaller
  <2>. HIDE DEF applied, interest
  <2>. QED  BY <2>1 DEF EarlyRow
<1>4. /\ EarlySeq(payments[i]) \notin DOMAIN PaidOnly(payments[i])
      /\ EarlySeq(payments[i]) <= MaxSeq
      /\ Regenerate(i, inv, rows) \/ Refresh(i, inv, PaidOnly(rows))
  BY DEF EarlyRepayment
<1>5. Covers(investments[i], payments[i])
  BY <1>1 DEF LedgerCoversRows, Covers, PrincipalPaid, InterestPaid, PrincipalParts, InterestParts
<1>. HIDE DEF row
<1>6. IsRows(rows)
  BY <1>1, <1>2, <1>4, WithEarlyRowStep DEF RowsStep
<1>7. Covers(inv, rows)
  BY <1>1, <1>2, <1>3, <1>4, <1>5, <1>6, EarlyCovers
<1>. HIDE DEF inv, rows
<1>8. Covers(inv, PaidOnly(rows)) /\ IsRows(PaidOnly(rows))
  <2>1. IsRows(PaidOnly(rows)) /\ NothingReceived(rows, PaidOnly(rows))
    BY <1>6, PaidOnlyFacts DEF RowsStep, NothingReceived
  <2>2. inv.repaid \in Nat /\ inv.earned \in Nat
    BY <1>2 DEF InvestmentDoc
  <2>. QED  BY <1>6, <1>7, <2>1, <2>2, CoversStill
<1>. QED  BY <1>2, <1>4, <1>6, <1>7, <1>8, RefreshCovers, RegenerateCovers

(* Every step of the system.                                               *)
LEMMA NextCovers ==
    ASSUME LedgerTypeOK, LedgerTypeOK', LedgerCoversRows, [Next]_vars
    PROVE  LedgerCoversRows'
<1>0. \A j \in Investments : IsRows(payments[j]) /\ NothingReceived(payments[j], payments[j])
  BY DEF LedgerTypeOK, NothingReceived
<1>1. CASE UNCHANGED <<investments, payments>>
  BY <1>1 DEF LedgerCoversRows
<1>2. ASSUME NEW i \in Investments, Request(i) PROVE LedgerCoversRows'
  <2>1. ASSUME NEW v \in Investors, NEW t \in Terms, NEW status \in StatusInputs,
               Create(i, v, t, status)
        PROVE  LedgerCoversRows'
    BY <2>1, CreateCovers
  <2>2. ASSUME NEW t \in Terms, NEW repriced \in BOOLEAN,
               NEW status \in StatusInputs \cup {investments[i].status},
               UpdateTerms(i, t, repriced, status)
        PROVE  LedgerCoversRows'
    <3>1. status \in Statuses
      BY BoundsAssumption DEF LedgerTypeOK, InvestmentDoc
    <3>. QED  BY <2>2, <3>1, UpdateTermsCovers
  <2>3. ASSUME NEW status \in StatusInputs, UpdateStatus(i, status) PROVE LedgerCoversRows'
    <3>1. payments' = payments
      BY <2>3 DEF UpdateStatus
    <3>2. \A j \in Investments : /\ investments'[j].state = investments[j].state
                                 /\ investments'[j].repaid = investments[j].repaid
                                 /\ investments'[j].earned = investments[j].earned
      BY <2>3 DEF UpdateStatus, LedgerTypeOK, InvestmentDoc
    <3>. QED  BY <1>0, <3>1, <3>2, SweepCovers
  <2>4. CASE Remove(i)
    <3>1. payments' = payments
      BY <2>4 DEF Remove
    <3>2. \A j \in Investments :
            /\ investments'[j].state = "live" => investments[j].state = "live"
            /\ investments'[j].repaid = investments[j].repaid
            /\ investments'[j].earned = investments[j].earned
      BY <2>4 DEF Remove, LedgerTypeOK, InvestmentDoc
    <3>. QED  BY <1>0, <3>1, <3>2, SweepCovers
  <2>5. CASE RegenerateSchedule(i)
    <3>1. investments[i] \in InvestmentDoc /\ Covers(investments[i], payments[i])
      BY <2>5 DEF RegenerateSchedule, LedgerTypeOK, LedgerCoversRows, Covers, PrincipalPaid,
                  InterestPaid, PrincipalParts, InterestParts
    <3>. QED  BY <1>0, <2>5, <3>1, RegenerateCovers DEF RegenerateSchedule
  <2>6. ASSUME NEW s \in DOMAIN payments[i], NEW amount \in Amounts \cup {payments[i][s].total},
               MarkPaid(i, s, amount) \/ MarkPaidOfDeleted(i, s, amount)
        PROVE  LedgerCoversRows'
    <3>1. amount \in Nat
      <4>1. payments[i][s] \in Row
        BY DEF LedgerTypeOK, IsRows
      <4>. QED  BY <4>1, BoundsAssumption DEF Row
    <3>2. CASE MarkPaidOfDeleted(i, s, amount)
      <4>1. investments' = investments /\ investments[i].state = "deleted"
        BY <3>2 DEF MarkPaidOfDeleted
      <4>2. \A j \in Investments : j # i => payments'[j] = payments[j]
        BY <3>2 DEF MarkPaidOfDeleted, LedgerTypeOK
      <4>3. \A j \in Investments : investments'[j].state = "live" => j # i
        BY <4>1
      <4>. QED  BY <1>0, <4>1, <4>2, <4>3, SweepCovers
    <3>. QED  BY <2>6, <3>1, <3>2, MarkPaidCovers
  <2>7. ASSUME NEW s \in DOMAIN payments[i], CancelPayment(i, s) PROVE LedgerCoversRows'
    BY <2>7, CancelPaymentCovers
  <2>8. ASSUME NEW amount \in Amounts, NEW portion \in InterestPortions,
               EarlyRepayment(i, amount, portion)
        PROVE  LedgerCoversRows'
    BY <2>8, EarlyRepaymentCovers, BoundsAssumption
  <2>9. ASSUME NEW amount \in Amounts, EarlyRepaymentRefused(i, amount) PROVE LedgerCoversRows'
    <3>1. NothingReceived(payments[i], PaidOnly(payments[i]))
      BY <1>0, PaidOnlyFacts DEF NothingReceived
    <3>2. /\ investments' = investments
          /\ \A j \in Investments :
                payments'[j] = IF j = i THEN PaidOnly(payments[i]) ELSE payments[j]
      BY <2>9 DEF EarlyRepaymentRefused, LedgerTypeOK
    <3>. QED  BY <1>0, <3>1, <3>2, SweepCovers
  <2>10. CASE ListPayments(i)
    <3>1. NothingReceived(payments[i], MarkedOverdue(payments[i]))
      BY <1>0, MarkedReceivesNothing
    <3>2. /\ investments' = investments
          /\ \A j \in Investments :
                payments'[j] = IF j = i THEN MarkedOverdue(payments[i]) ELSE payments[j]
      BY <2>10 DEF ListPayments, LedgerTypeOK
    <3>. QED  BY <1>0, <3>1, <3>2, SweepCovers
  <2>. QED
    BY <1>2, <2>1, <2>2, <2>3, <2>4, <2>5, <2>6, <2>7, <2>8, <2>9, <2>10 DEF Request
<1>3. CASE SweepOverdue
  <2>1. \A j \in Investments : NothingReceived(payments[j], MarkedOverdue(payments[j]))
    BY <1>0, MarkedReceivesNothing
  <2>2. /\ investments' = investments
        /\ \A j \in Investments : payments'[j] = MarkedOverdue(payments[j])
    BY <1>3 DEF SweepOverdue
  <2>. QED  BY <2>1, <2>2, SweepCovers
<1>4. (\E v \in Investors : RemoveInvestor(v)) \/ MonthPasses \/ UNCHANGED vars
        => UNCHANGED <<investments, payments>>
  BY DEF RemoveInvestor, MonthPasses, vars
<1>. QED  BY <1>1, <1>2, <1>3, <1>4 DEF Next

(* No money a row records is missing from the ledger: principalRepaid and  *)
(* interestEarned are at least what the rows allocate of their amountPaid, *)
(* after any sequence of payments, corrections, cancellations, early       *)
(* repayments and regenerations (investment.service.ts:461-481, 583-617).  *)
THEOREM LedgerAlwaysCoversRows == Spec => []LedgerCoversRows
<1>1. Init => LedgerCoversRows
  BY DEF Init, LedgerCoversRows, Absent
<1>2. LedgerTypeOK /\ LedgerTypeOK' /\ LedgerCoversRows /\ [Next]_vars => LedgerCoversRows'
  BY NextCovers
<1>. QED  BY <1>1, <1>2, LedgerTyped, PTL DEF Spec

-----------------------------------------------------------------------------
(***************************************************************************)
(* NextPaymentFresh, LastRowClears and TotalsFresh of InvestmentLedger,    *)
(* for schedules that findByInvestment returns whole: MaxSeq <= PageLimit, *)
(* as with loans of at most a hundred months.                              *)
(*                                                                         *)
(* The document shows the next payment as the last refresh found it, and   *)
(* the sweep and the listings change statuses without a refresh.  That     *)
(* leaves the document right because of the order the rows are in: rows    *)
(* that are still ahead come after every row that is due next, and become  *)
(* overdue in the order of their sequence (Ordered), so that marking rows  *)
(* overdue never finds an earlier next payment.  The totals only need that *)
(* a regeneration which sees every row does not run into the unique index, *)
(* because the request that does ends before syncTotals.                   *)
(***************************************************************************)

Ahead == {"scheduled", "future"}
Due == {"upcoming", "overdue"}

(* The rows that are ahead, among each other and after those due next.     *)
Ordered(rows) ==
    \A s, u \in DOMAIN rows :
        /\ rows[s].status \in Ahead /\ rows[u].status \in Due => u < s
        /\ rows[s].status \in Ahead /\ rows[u].status \in Ahead /\ s < u
               => rows[s].due <= rows[u].due

(* What the document shows, and that the next payment is a row due next.   *)
Fresh(inv, rows) ==
    IF Unpaid(rows) = {} THEN inv.nextDue = NoDue
    ELSE /\ DueNext(rows) # {}
         /\ inv.nextDue = rows[NextOpen(rows)].due
         /\ inv.monthly = rows[NextOpen(rows)].total

Clears(rows) == DOMAIN rows # {} => rows[Highest(DOMAIN rows)].remaining = 0

Serviced(inv, rows) ==
    /\ Clears(rows)
    /\ inv.state = "live" => Ordered(rows) /\ Fresh(inv, rows)

Servicing == \A i \in Investments : Serviced(investments[i], payments[i])

IInv == LedgerTypeOK /\ AtMostOneUpcoming /\ Servicing

-----------------------------------------------------------------------------
(* The least and the greatest of a set are what they are.                  *)
LEMMA LowestIs ==
    ASSUME NEW S \in SUBSET Nat, NEW n \in S, \A u \in S : n <= u
    PROVE  Lowest(S) = n
<1>1. Lowest(S) \in S /\ Lowest(S) <= n
  BY LowestIn
<1>2. n <= Lowest(S) /\ n \in Nat /\ Lowest(S) \in Nat
  BY <1>1
<1>. QED  BY <1>1, <1>2

(* The same of the greatest.                                               *)
LEMMA HighestIs ==
    ASSUME NEW S \in SUBSET (1..MaxSeq), NEW n \in S, \A u \in S : u <= n
    PROVE  Highest(S) = n
<1>1. Highest(S) \in S /\ n <= Highest(S)
  BY HighestIn
<1>2. Highest(S) <= n /\ n \in 1..MaxSeq /\ Highest(S) \in 1..MaxSeq
  BY <1>1
<1>. QED  BY <1>1, <1>2, BoundsAssumption

(* No row of a schedule within the page limit is out of sight.             *)
LEMMA AllVisible ==
    ASSUME MaxSeq <= PageLimit, NEW rows, IsRows(rows)
    PROVE  /\ Visible(rows) = DOMAIN rows
           /\ Unpaid(rows) = {s \in DOMAIN rows : rows[s].status # "completed"}
           /\ DueNext(rows) = {s \in DOMAIN rows : rows[s].status \in Due}
<1>1. ASSUME NEW s \in DOMAIN rows
      PROVE  Cardinality({u \in DOMAIN rows : u < s}) < PageLimit
  <2>. DEFINE below == {u \in DOMAIN rows : u < s}
  <2>1. s \in 1..MaxSeq /\ MaxSeq \in Nat /\ PageLimit \in Nat
    BY BoundsAssumption DEF IsRows
  <2>2. below \in SUBSET (1..(s - 1))
    BY <2>1, BoundsAssumption DEF IsRows
  <2>3. IsFiniteSet(1..(s - 1)) /\ Cardinality(1..(s - 1)) = s - 1
    <3>1. 1 \in Int /\ s - 1 \in Int /\ (1 > s - 1 => s - 1 = 0)
      BY <2>1
    <3>2. /\ IsFiniteSet(1..(s - 1))
          /\ Cardinality(1..(s - 1)) = IF 1 > s - 1 THEN 0 ELSE (s - 1) - 1 + 1
      BY <3>1, FS_Interval
    <3>. QED  BY <2>1, <3>1, <3>2
  <2>. HIDE DEF below
  <2>4. IsFiniteSet(below) /\ Cardinality(below) <= s - 1
    BY <2>2, <2>3, FS_Subset
  <2>5. Cardinality(below) \in Nat
    BY <2>4, FS_CardinalityType
  <2>6. Cardinality(below) < PageLimit
    BY <2>1, <2>4, <2>5
  <2>. QED  BY <2>6 DEF below
<1>2. Visible(rows) = DOMAIN rows
  BY <1>1 DEF Visible
<1>3. Unpaid(rows) = {s \in DOMAIN rows : rows[s].status # "completed"}
  BY <1>2 DEF Unpaid
<1>4. DueNext(rows) = {s \in DOMAIN rows : rows[s].status \in Due}
  BY <1>3 DEF DueNext, Due
<1>. QED  BY <1>2, <1>3, <1>4

(* The next payment is the least of the rows due next, or of the unpaid.   *)
LEMMA NextOpenIs ==
    ASSUME MaxSeq <= PageLimit, NEW rows, IsRows(rows), Unpaid(rows) # {}
    PROVE  /\ DueNext(rows) # {} => /\ NextOpen(rows) \in DueNext(rows)
                                    /\ \A u \in DueNext(rows) : NextOpen(rows) <= u
           /\ DueNext(rows) = {} => /\ NextOpen(rows) \in Unpaid(rows)
                                    /\ \A u \in Unpaid(rows) : NextOpen(rows) <= u
<1>1. DueNext(rows) \in SUBSET Nat /\ Unpaid(rows) \in SUBSET Nat
  BY AllVisible, BoundsAssumption DEF IsRows
<1>. QED  BY <1>1, LowestIn DEF NextOpen

-----------------------------------------------------------------------------
(* Marking rows overdue.                                                   *)
LEMMA MarkedFacts ==
    ASSUME NEW rows, IsRows(rows), today \in Nat
    PROVE  LET new == MarkedOverdue(rows)
           IN  /\ DOMAIN new = DOMAIN rows /\ IsRows(new)
               /\ \A s \in DOMAIN rows :
                     /\ new[s].due = rows[s].due /\ new[s].total = rows[s].total
                     /\ new[s].remaining = rows[s].remaining
                     /\ \/ /\ new[s].status = rows[s].status
                           /\ rows[s].status \in Awaited => ~(rows[s].due < today)
                        \/ /\ new[s].status = "overdue" /\ rows[s].status \in Awaited
                           /\ rows[s].due < today
<1>. DEFINE new == MarkedOverdue(rows)
<1>1. IsRows(new)
  BY MarkedOverdueStep DEF RowsStep
<1>2. DOMAIN new = DOMAIN rows
  BY DEF MarkedOverdue
<1>3. ASSUME NEW s \in DOMAIN rows
      PROVE  /\ new[s].due = rows[s].due /\ new[s].total = rows[s].total
             /\ new[s].remaining = rows[s].remaining
             /\ \/ /\ new[s].status = rows[s].status
                   /\ rows[s].status \in Awaited => ~(rows[s].due < today)
                \/ /\ new[s].status = "overdue" /\ rows[s].status \in Awaited
                   /\ rows[s].due < today
  <2>1. rows[s] \in Row
    BY DEF IsRows
  <2>2. CASE rows[s].due < today /\ rows[s].status \in Awaited
    <3>1. new[s] = [rows[s] EXCEPT !.status = "overdue"]
      BY <2>2 DEF MarkedOverdue, WithStatus
    <3>. QED  BY <2>1, <2>2, <3>1 DEF Row
  <2>3. CASE ~(rows[s].due < today /\ rows[s].status \in Awaited)
    <3>1. new[s] = rows[s]
      BY <2>3 DEF MarkedOverdue
    <3>. QED  BY <2>3, <3>1
  <2>. QED  BY <2>2, <2>3
<1>. QED  BY <1>1, <1>2, <1>3

(* A row that is ahead and late is overdue before those after it.          *)
LEMMA MarkedOrdered ==
    ASSUME NEW rows, IsRows(rows), today \in Nat, Ordered(rows)
    PROVE  Ordered(MarkedOverdue(rows))
<1>. DEFINE new == MarkedOverdue(rows)
<1>1. /\ DOMAIN new = DOMAIN rows /\ DOMAIN rows \subseteq Nat
      /\ \A s \in DOMAIN rows :
            /\ rows[s].due \in Nat /\ new[s].due = rows[s].due
            /\ \/ /\ new[s].status = rows[s].status
                  /\ rows[s].status \in Awaited => ~(rows[s].due < today)
               \/ /\ new[s].status = "overdue" /\ rows[s].status \in Awaited
                  /\ rows[s].due < today
  BY MarkedFacts, BoundsAssumption DEF IsRows, Row
<1>. HIDE DEF new
<1>2. ASSUME NEW s \in DOMAIN rows, NEW u \in DOMAIN rows,
             new[s].status \in Ahead, new[u].status \in Due
      PROVE  u < s
  <2>1. rows[s].status \in Ahead /\ ~(rows[s].due < today)
    BY <1>1, <1>2 DEF Ahead, Awaited
  <2>2. CASE rows[u].status \in Due
    BY <2>1, <2>2 DEF Ordered
  <2>3. CASE rows[u].status \notin Due
    <3>1. rows[u].status \in Ahead /\ rows[u].due < today
      BY <1>1, <1>2, <2>3 DEF Ahead, Due, Awaited
    <3>2. ~(s < u) /\ s # u
      BY <1>1, <2>1, <3>1 DEF Ordered
    <3>. QED  BY <1>1, <3>2
  <2>. QED  BY <2>2, <2>3
<1>3. ASSUME NEW s \in DOMAIN rows, NEW u \in DOMAIN rows,
             new[s].status \in Ahead, new[u].status \in Ahead, s < u
      PROVE  new[s].due <= new[u].due
  <2>1. rows[s].status \in Ahead /\ rows[u].status \in Ahead
    BY <1>1, <1>3 DEF Ahead
  <2>. QED  BY <1>1, <1>3, <2>1 DEF Ordered
<1>. QED  BY <1>1, <1>2, <1>3 DEF Ordered, new

(* The document is right after the sweep when it was right before.         *)
LEMMA MarkedFresh ==
    ASSUME MaxSeq <= PageLimit, NEW rows, IsRows(rows), today \in Nat, Ordered(rows),
           NEW inv, Fresh(inv, rows)
    PROVE  Fresh(inv, MarkedOverdue(rows))
<1>. DEFINE new == MarkedOverdue(rows)
<1>1. /\ DOMAIN new = DOMAIN rows /\ IsRows(new)
      /\ \A s \in DOMAIN rows :
            /\ new[s].due = rows[s].due /\ new[s].total = rows[s].total
            /\ \/ new[s].status = rows[s].status
               \/ new[s].status = "overdue" /\ rows[s].status \in Awaited
  BY MarkedFacts
<1>. HIDE DEF new
<1>2. Unpaid(new) = Unpaid(rows)
  <2>1. \A s \in DOMAIN rows : new[s].status = "completed" <=> rows[s].status = "completed"
    BY <1>1 DEF Awaited
  <2>. QED  BY <1>1, <2>1, AllVisible
<1>3. CASE Unpaid(rows) = {}
  BY <1>2, <1>3 DEF Fresh, new
<1>4. CASE Unpaid(rows) # {}
  <2>. DEFINE n == NextOpen(rows)
  <2>1. DueNext(rows) # {} /\ inv.nextDue = rows[n].due /\ inv.monthly = rows[n].total
    BY <1>4 DEF Fresh
  <2>2. n \in DueNext(rows) /\ \A u \in DueNext(rows) : n <= u
    BY <1>4, <2>1, NextOpenIs
  <2>. HIDE DEF n
  <2>3. n \in DOMAIN rows /\ rows[n].status \in Due
    BY <2>2, AllVisible
  <2>4. n \in DueNext(new)
    BY <1>1, <2>3, AllVisible DEF Due, Awaited
  <2>5. ASSUME NEW u \in DueNext(new) PROVE n <= u
    <3>1. u \in DOMAIN rows /\ new[u].status \in Due
      BY <1>1, AllVisible
    <3>2. CASE rows[u].status \in Due
      BY <2>2, <3>1, <3>2, AllVisible
    <3>3. CASE rows[u].status \notin Due
      <4>1. rows[u].status \in Ahead
        BY <1>1, <3>1, <3>3 DEF Due, Ahead, Awaited
      <4>2. n < u /\ n \in Nat /\ u \in Nat
        BY <2>3, <3>1, <4>1, BoundsAssumption DEF Ordered, IsRows
      <4>. QED  BY <4>2
    <3>. QED  BY <3>2, <3>3
  <2>6. DueNext(new) \in SUBSET Nat
    BY <1>1, AllVisible, BoundsAssumption DEF IsRows
  <2>7. NextOpen(new) = n
    BY <2>4, <2>5, <2>6, LowestIs DEF NextOpen
  <2>. QED  BY <1>1, <1>2, <1>4, <2>1, <2>3, <2>4, <2>7 DEF Fresh, new, n
<1>. QED  BY <1>3, <1>4

-----------------------------------------------------------------------------
(* The normalisation.                                                      *)
LEMMA NormalisedFacts ==
    ASSUME MaxSeq <= PageLimit, NEW rows, IsRows(rows), OneUpcoming(rows), Unpaid(rows) # {}
    PROVE  LET new == Normalised(rows)
               n == NextOpen(rows)
           IN  /\ DOMAIN new = DOMAIN rows /\ IsRows(new) /\ n \in DOMAIN rows
               /\ rows[n].status # "completed"
               /\ \A s \in DOMAIN rows :
                     /\ new[s].due = rows[s].due /\ new[s].total = rows[s].total
                     /\ new[s].remaining = rows[s].remaining
                     /\ s # n => new[s].status = rows[s].status
               /\ new[n].status \in Due
               /\ DueNext(rows) # {} => new[n].status = rows[n].status
<1>. DEFINE new == Normalised(rows)
            n == NextOpen(rows)
<1>1. IsRows(new)
  BY NormalisedStep DEF RowsStep
<1>2. n \in DOMAIN rows /\ rows[n].status # "completed"
  BY NextOpenUnpaid
<1>3. DueNext(rows) # {} => rows[n].status \in Due
  BY NextOpenIs, AllVisible
<1>4. CASE rows[n].status = "overdue"
  <2>1. new = rows
    BY <1>4 DEF Normalised
  <2>. QED  BY <1>1, <1>2, <1>4, <2>1 DEF Due
<1>5. CASE rows[n].status # "overdue"
  <2>1. new = [s \in DOMAIN rows |->
                  IF s = n THEN WithStatus(rows[s], "upcoming")
                  ELSE IF rows[s].status = "upcoming" THEN WithStatus(rows[s], "future")
                  ELSE rows[s]]
    BY <1>5 DEF Normalised
  <2>2. ASSUME NEW s \in DOMAIN rows, s # n PROVE rows[s].status # "upcoming"
    <3>. SUFFICES ASSUME rows[s].status = "upcoming" PROVE FALSE
      OBVIOUS
    <3>1. s \in DueNext(rows)
      BY AllVisible DEF Due
    <3>2. rows[n].status = "upcoming"
      BY <1>3, <1>5, <3>1 DEF Due
    <3>. QED  BY <1>2, <2>2, <3>2 DEF OneUpcoming
  <2>. HIDE DEF n
  <2>3. DOMAIN new = DOMAIN rows /\ new[n] = [rows[n] EXCEPT !.status = "upcoming"]
    BY <1>2, <2>1 DEF WithStatus
  <2>4. \A s \in DOMAIN rows : s # n => new[s] = rows[s]
    BY <2>1, <2>2
  <2>5. rows[n] \in Row
    BY <1>2 DEF IsRows
  <2>6. /\ new[n].due = rows[n].due /\ new[n].total = rows[n].total
        /\ new[n].remaining = rows[n].remaining /\ new[n].status = "upcoming"
    BY <2>3, <2>5 DEF Row
  <2>. HIDE DEF new
  <2>7. DueNext(rows) # {} => new[n].status = rows[n].status
    BY <1>3, <1>5, <2>6 DEF Due
  <2>. QED  BY <1>1, <1>2, <2>3, <2>4, <2>6, <2>7 DEF Due, new, n
<1>. QED  BY <1>4, <1>5

(* The normalisation keeps the order, and makes the next payment due next. *)
LEMMA NormalisedOrdered ==
    ASSUME MaxSeq <= PageLimit, NEW rows, IsRows(rows), OneUpcoming(rows), Ordered(rows),
           Unpaid(rows) # {}
    PROVE  /\ Ordered(Normalised(rows))
           /\ Unpaid(Normalised(rows)) = Unpaid(rows)
           /\ DueNext(Normalised(rows)) # {}
           /\ NextOpen(Normalised(rows)) = NextOpen(rows)
<1>. DEFINE new == Normalised(rows)
            n == NextOpen(rows)
<1>1. /\ DOMAIN new = DOMAIN rows /\ IsRows(new) /\ n \in DOMAIN rows
      /\ rows[n].status # "completed"
      /\ \A s \in DOMAIN rows : new[s].due = rows[s].due
                                /\ (s # n => new[s].status = rows[s].status)
      /\ new[n].status \in Due
      /\ DueNext(rows) # {} => new[n].status = rows[n].status
  BY NormalisedFacts
<1>2. /\ DueNext(rows) # {} => n \in DueNext(rows) /\ \A u \in DueNext(rows) : n <= u
      /\ DueNext(rows) = {} => n \in Unpaid(rows) /\ \A u \in Unpaid(rows) : n <= u
  BY NextOpenIs
<1>. HIDE DEF new, n
<1>3. DOMAIN rows \subseteq Nat
  BY BoundsAssumption DEF IsRows
<1>4. Unpaid(new) = Unpaid(rows)
  <2>1. \A s \in DOMAIN rows : new[s].status = "completed" <=> rows[s].status = "completed"
    BY <1>1 DEF Due
  <2>. QED  BY <1>1, <2>1, AllVisible
<1>5. n \in DueNext(new)
  BY <1>1, AllVisible
<1>6. ASSUME NEW u \in DueNext(new) PROVE n <= u
  <2>1. u \in DOMAIN rows /\ new[u].status \in Due
    BY <1>1, AllVisible
  <2>2. CASE u = n
    BY <1>3, <2>1, <2>2
  <2>3. CASE u # n
    <3>1. u \in DueNext(rows)
      BY <1>1, <2>1, <2>3, AllVisible
    <3>. QED  BY <1>2, <3>1
  <2>. QED  BY <2>2, <2>3
<1>7. NextOpen(new) = n
  <2>1. DueNext(new) \in SUBSET Nat
    BY <1>1, <1>3, AllVisible
  <2>. QED  BY <1>5, <1>6, <2>1, LowestIs DEF NextOpen
<1>8. Ordered(new)
  <2>1. ASSUME NEW s \in DOMAIN rows, new[s].status \in Ahead PROVE s # n /\ rows[s].status \in Ahead
    BY <1>1, <2>1 DEF Ahead, Due
  <2>2. ASSUME NEW s \in DOMAIN rows, NEW u \in DOMAIN rows,
               new[s].status \in Ahead, new[u].status \in Due
        PROVE  u < s
    <3>1. s # n /\ rows[s].status \in Ahead
      BY <2>1, <2>2
    <3>2. CASE rows[u].status \in Due
      BY <3>1, <3>2 DEF Ordered
    <3>3. CASE rows[u].status \notin Due
      <4>1. u = n /\ DueNext(rows) = {}
        BY <1>1, <2>2, <3>3
      <4>2. s \in Unpaid(rows)
        BY <3>1, AllVisible DEF Ahead
      <4>3. n <= s
        BY <1>2, <4>1, <4>2
      <4>. QED  BY <1>3, <3>1, <4>1, <4>3
    <3>. QED  BY <3>2, <3>3
  <2>3. ASSUME NEW s \in DOMAIN rows, NEW u \in DOMAIN rows,
               new[s].status \in Ahead, new[u].status \in Ahead, s < u
        PROVE  new[s].due <= new[u].due
    BY <1>1, <2>1, <2>3 DEF Ordered
  <2>. QED  BY <1>1, <2>2, <2>3 DEF Ordered
<1>. QED  BY <1>4, <1>5, <1>7, <1>8 DEF new, n

(* refreshInvestmentPaymentMeta leaves the document right, whatever the    *)
(* request changed before, as long as the rows are in order.               *)
LEMMA RefreshedIsFresh ==
    ASSUME MaxSeq <= PageLimit, NEW rows, IsRows(rows), OneUpcoming(rows), Ordered(rows),
           today \in Nat, NEW inv \in InvestmentDoc, inv.state = "live"
    PROVE  /\ Ordered(RefreshedRows(rows))
           /\ Fresh(RefreshedMeta(inv, rows), RefreshedRows(rows))
<1>. DEFINE seen == MarkedOverdue(rows)
<1>1. IsRows(seen) /\ OneUpcoming(seen) /\ Ordered(seen)
  BY MarkedOverdueStep, MarkedOrdered DEF RowsStep
<1>2. RefreshedRows(rows) = Normalised(seen)
  BY DEF RefreshedRows
<1>3. CASE Unpaid(seen) = {}
  <2>1. Normalised(seen) = seen
    BY <1>3 DEF Normalised
  <2>2. RefreshedMeta(inv, rows).nextDue = NoDue
    BY <1>3 DEF RefreshedMeta, InvestmentDoc
  <2>. QED  BY <1>1, <1>2, <1>3, <2>1, <2>2 DEF Fresh
<1>4. CASE Unpaid(seen) # {}
  <2>. DEFINE n == NextOpen(seen)
  <2>1. /\ RefreshedMeta(inv, rows).nextDue = seen[n].due
        /\ RefreshedMeta(inv, rows).monthly = seen[n].total
    BY <1>4 DEF RefreshedMeta, InvestmentDoc
  <2>. HIDE DEF seen
  <2>2. /\ n \in DOMAIN seen
        /\ Normalised(seen)[n].due = seen[n].due /\ Normalised(seen)[n].total = seen[n].total
    BY <1>1, <1>4, NormalisedFacts
  <2>3. /\ Ordered(Normalised(seen))
        /\ Unpaid(Normalised(seen)) = Unpaid(seen)
        /\ DueNext(Normalised(seen)) # {}
        /\ NextOpen(Normalised(seen)) = n
    BY <1>1, <1>4, NormalisedOrdered
  <2>. QED  BY <1>2, <1>4, <2>1, <2>2, <2>3 DEF Fresh
<1>. QED  BY <1>3, <1>4

(* The refresh changes no balance, so the last row clears if it did.       *)
LEMMA RefreshedClears ==
    ASSUME MaxSeq <= PageLimit, NEW rows, IsRows(rows), OneUpcoming(rows), today \in Nat,
           Clears(rows)
    PROVE  Clears(MarkedOverdue(rows)) /\ Clears(RefreshedRows(rows))
<1>. DEFINE seen == MarkedOverdue(rows)
            new == Normalised(seen)
<1>1. /\ DOMAIN seen = DOMAIN rows /\ IsRows(seen) /\ OneUpcoming(seen)
      /\ \A s \in DOMAIN rows : seen[s].remaining = rows[s].remaining
  BY MarkedFacts, MarkedOverdueStep DEF RowsStep
<1>. HIDE DEF seen
<1>2. /\ DOMAIN new = DOMAIN seen
      /\ \A s \in DOMAIN seen : new[s].remaining = seen[s].remaining
  <2>1. CASE Unpaid(seen) = {}
    BY <2>1 DEF Normalised
  <2>2. CASE Unpaid(seen) # {}
    BY <1>1, <2>2, NormalisedFacts
  <2>. QED  BY <2>1, <2>2
<1>. HIDE DEF new
<1>3. DOMAIN rows # {} => Highest(DOMAIN rows) \in DOMAIN rows
  BY HighestIn DEF IsRows
<1>4. Clears(seen) /\ Clears(new)
  BY <1>1, <1>2, <1>3 DEF Clears
<1>. QED  BY <1>4 DEF seen, new, RefreshedRows

-----------------------------------------------------------------------------
(* The rows of a new loan are in order, and the last one clears.           *)
LEMMA GeneratedFine ==
    ASSUME NEW t \in Terms, today \in Nat
    PROVE  Ordered(GeneratedRows(t)) /\ Clears(GeneratedRows(t))
<1>. DEFINE plan == Plan(t, t.principal, t.term, t.grace)
            status(s) == IF t.start + s < today THEN "overdue"
                         ELSE IF s = 1 THEN "upcoming" ELSE "future"
            new == GeneratedRows(t)
<1>1. /\ t.principal \in 1..MaxPrincipal /\ t.term \in 1..MaxSeq
      /\ t.start \in Nat /\ t.grace \in {0, t.grace}
  BY TermsAssumption
<1>2. plan[t.term].remaining = 0
  BY <1>1, PlanAssumption
<1>. HIDE DEF plan
<1>3. new = [s \in 1..t.term |-> NewRow(plan[s], t.start + s, status(s))]
  BY DEF GeneratedRows, plan
<1>4. /\ DOMAIN new = 1..t.term
      /\ \A s \in 1..t.term : /\ new[s].due = t.start + s /\ new[s].status = status(s)
                              /\ new[s].remaining = plan[s].remaining
  BY <1>3 DEF NewRow
<1>. HIDE DEF new
<1>5. Ordered(new)
  BY <1>1, <1>4, BoundsAssumption DEF Ordered, Ahead, Due
<1>6. Highest(1..t.term) = t.term
  <2>1. 1..t.term \in SUBSET (1..MaxSeq) /\ t.term \in 1..t.term
        /\ \A u \in 1..t.term : u <= t.term
    BY <1>1, BoundsAssumption
  <2>. QED  BY <2>1, HighestIs
<1>7. Clears(new)
  BY <1>1, <1>2, <1>4, <1>6, BoundsAssumption DEF Clears
<1>. QED  BY <1>5, <1>7 DEF new

(* Rows that are paid are in order: none is ahead and none is due next.    *)
LEMMA PaidOrdered ==
    ASSUME NEW rows, \A s \in DOMAIN rows : rows[s].status \in Paid
    PROVE  Ordered(rows)
BY DEF Ordered, Paid, Ahead, Due

(* What regenerateSchedule does when it sees every row: the new rows come  *)
(* after all the paid ones, and nothing is in their way.                   *)
LEMMA RegenerateSees ==
    ASSUME MaxSeq <= PageLimit, NEW rows, IsRows(rows), NEW inv \in InvestmentDoc,
           RegenerateFits(inv, rows)
    PROVE  /\ PaidSeen(rows) = DOMAIN PaidOnly(rows)
           /\ ~InsertFails(inv, rows)
           /\ Inserted(inv, rows) = NewSeqs(inv, rows)
           /\ \A s \in NewSeqs(inv, rows), u \in DOMAIN PaidOnly(rows) : u < s
<1>1. PaidSeen(rows) = DOMAIN PaidOnly(rows)
  <2>1. DOMAIN PaidOnly(rows) = {s \in DOMAIN rows : rows[s].status \in Paid}
    BY DEF PaidOnly, Restrict
  <2>. QED  BY <2>1, AllVisible DEF PaidSeen
<1>2. PaidSeen(rows) \in SUBSET (1..MaxSeq)
  BY AllVisible DEF PaidSeen, IsRows
<1>3. LastPaidSeq(rows) \in 0..MaxSeq /\ \A u \in PaidSeen(rows) : u <= LastPaidSeq(rows)
  BY <1>2, HighestIn DEF LastPaidSeq
<1>4. ASSUME NEW s \in NewSeqs(inv, rows) PROVE s \in Int /\ LastPaidSeq(rows) < s
  <2>1. RemainingTerm(inv, rows) \in Int
    BY RegenerateReads
  <2>2. s \in LastPaidSeq(rows) + 1 .. LastPaidSeq(rows) + RemainingTerm(inv, rows)
    BY <1>4 DEF NewSeqs
  <2>. QED  BY <1>3, <2>1, <2>2
<1>5. ASSUME NEW s \in NewSeqs(inv, rows), NEW u \in DOMAIN PaidOnly(rows) PROVE u < s
  <2>1. u \in 1..MaxSeq /\ u <= LastPaidSeq(rows)
    BY <1>1, <1>2, <1>3
  <2>. QED  BY <1>3, <1>4, <2>1, BoundsAssumption
<1>6. Clash(inv, rows) = {}
  <2>. SUFFICES ASSUME NEW s \in NewSeqs(inv, rows), s \in DOMAIN PaidOnly(rows) PROVE FALSE
    BY DEF Clash
  <2>1. s < s /\ s \in Int
    BY <1>4, <1>5
  <2>. QED  BY <2>1
<1>. QED  BY <1>1, <1>5, <1>6 DEF InsertFails, Inserted

(* What is left to repay is spread over at least one month.                *)
LEMMA TermPositive ==
    ASSUME NEW rows, IsRows(rows), NEW inv \in InvestmentDoc, RegenerateFits(inv, rows),
           ~Settled(inv, rows)
    PROVE  RemainingTerm(inv, rows) >= 1
<1>1. /\ inv.terms.term \in 1..MaxSeq /\ inv.monthly \in Nat
  BY TermsAssumption DEF InvestmentDoc
<1>2. LastPaidSeq(rows) \in 0..MaxSeq /\ RemainingPrincipal(inv, rows) \in Money
  BY RegenerateReads
<1>3. RemainingPrincipal(inv, rows) \in Nat \ {0}
  BY <1>2, BoundsAssumption DEF Settled, Money
<1>4. CASE inv.terms.term > LastPaidSeq(rows)
  BY <1>1, <1>2, <1>4, BoundsAssumption DEF RemainingTerm
<1>5. CASE ~(inv.terms.term > LastPaidSeq(rows)) /\ inv.monthly > 0
  <2>1. RemainingTerm(inv, rows) = CeilDiv(RemainingPrincipal(inv, rows), inv.monthly)
    BY <1>5 DEF RemainingTerm
  <2>2. \A a \in Nat \ {0}, b \in Nat \ {0} : CeilDiv(a, b) >= 1
    <3>. SUFFICES ASSUME NEW a \in Nat \ {0}, NEW b \in Nat \ {0} PROVE (a + b - 1) \div b >= 1
      BY DEF CeilDiv
    <3>1. a + b - 1 >= b
      OBVIOUS
    <3>. QED  BY <3>1, Z3
  <2>. QED  BY <1>1, <1>3, <1>5, <2>1, <2>2
<1>6. CASE ~(inv.terms.term > LastPaidSeq(rows)) /\ ~(inv.monthly > 0)
  BY <1>1, <1>6, BoundsAssumption DEF RemainingTerm
<1>. QED  BY <1>4, <1>5, <1>6

(* The schedule regenerateSchedule leaves is in order, ahead of its        *)
(* refresh, and its last row clears.                                       *)
LEMMA RebuiltFine ==
    ASSUME MaxSeq <= PageLimit, NEW rows, IsRows(rows), NEW inv \in InvestmentDoc,
           RegenerateFits(inv, rows), today \in Nat
    PROVE  Ordered(Rebuilt(inv, rows)) /\ Clears(Rebuilt(inv, rows))
<1>. DEFINE kept == PaidOnly(rows)
            seqs == NewSeqs(inv, rows)
            new == Rebuilt(inv, rows)
            last == LastPaidSeq(rows)
            term == RemainingTerm(inv, rows)
            principal == RemainingPrincipal(inv, rows)
            plan == Plan(inv.terms, principal, term, 0)
            due(s) == inv.terms.start + s
            status(s) == IF due(s) < today THEN "overdue"
                         ELSE IF \A u \in seqs : u < s => due(u) < today THEN "upcoming"
                         ELSE "future"
<1>1. /\ \A s \in DOMAIN kept : kept[s] = rows[s] /\ rows[s].status \in Paid
      /\ DOMAIN kept \subseteq DOMAIN rows
  BY PaidOnlyFacts
<1>2. /\ PaidSeen(rows) = DOMAIN kept /\ Inserted(inv, rows) = seqs
      /\ \A s \in seqs, u \in DOMAIN kept : u < s
  BY RegenerateSees
<1>3. /\ last \in 0..MaxSeq /\ term \in Int /\ seqs \subseteq 1..MaxSeq
      /\ seqs # {} => principal \in 1..MaxPrincipal /\ term \in 1..MaxSeq
  BY RegenerateReads
<1>4. inv.terms \in Terms /\ inv.terms.start \in Nat
  BY TermsAssumption DEF InvestmentDoc
<1>5. \A s \in seqs :
        /\ RegeneratedRow(inv, rows, s).due = due(s)
        /\ RegeneratedRow(inv, rows, s).status = status(s)
        /\ RegeneratedRow(inv, rows, s).remaining = plan[s - last].remaining
  BY DEF RegeneratedRow, NewRow
<1>6. /\ DOMAIN new = DOMAIN kept \cup seqs
      /\ \A s \in DOMAIN kept : new[s] = kept[s]
      /\ \A s \in seqs \ DOMAIN kept : new[s] = RegeneratedRow(inv, rows, s)
  BY <1>2 DEF Rebuilt
<1>7. \A s \in DOMAIN kept : s \in Int
  BY <1>1, BoundsAssumption DEF IsRows
<1>8. seqs \cap DOMAIN kept = {}
  BY <1>2, <1>7
<1>9. Ordered(new)
  <2>. HIDE DEF new, kept, seqs, plan, last, term, principal, status
  <2>1. ASSUME NEW s \in DOMAIN new, new[s].status \in Ahead \/ new[s].status \in Due
        PROVE  s \in seqs /\ s \in Nat /\ new[s].status = status(s) /\ new[s].due = due(s)
    <3>1. s \notin DOMAIN kept
      BY <1>1, <1>6, <2>1 DEF Paid, Ahead, Due
    <3>2. s \in seqs
      BY <1>6, <2>1, <3>1
    <3>3. s \in 1..MaxSeq
      BY <1>3, <3>2, Zenon
    <3>4. s \in Nat
      BY <3>3, BoundsAssumption
    <3>. QED  BY <1>5, <1>6, <3>1, <3>2, <3>4
  <2>2. ASSUME NEW s \in DOMAIN new, NEW u \in DOMAIN new,
               new[s].status \in Ahead, new[u].status \in Due
        PROVE  u < s
    <3>1. /\ s \in seqs /\ status(s) \in Ahead /\ u \in seqs /\ status(u) \in Due
          /\ s \in Nat /\ u \in Nat
      BY <2>1, <2>2
    <3>2. s # u
      BY <2>2 DEF Ahead, Due
    <3>3. ~(due(s) < today)
      BY <3>1, Zenon DEF Ahead, status
    <3>4. due(u) < today \/ \A x \in seqs : x < u => due(x) < today
      BY <3>1 DEF Due, status
    <3>5. ~(s < u)
      BY <1>4, <3>1, <3>3, <3>4
    <3>. QED  BY <3>1, <3>2, <3>5
  <2>3. ASSUME NEW s \in DOMAIN new, NEW u \in DOMAIN new,
               new[s].status \in Ahead, new[u].status \in Ahead, s < u
        PROVE  new[s].due <= new[u].due
    <3>1. s \in seqs /\ u \in seqs /\ new[s].due = due(s) /\ new[u].due = due(u)
      BY <2>1, <2>3
    <3>2. s \in Nat /\ u \in Nat
      BY <2>1, <2>3
    <3>. QED  BY <1>4, <2>3, <3>1, <3>2
  <2>. QED  BY <2>2, <2>3 DEF Ordered
<1>10. Clears(new)
  <2>1. CASE seqs # {}
    <3>1. /\ principal \in 1..MaxPrincipal /\ term \in 1..MaxSeq
          /\ seqs = last + 1 .. last + term
      BY <1>3, <2>1 DEF NewSeqs
    <3>2. plan[term].remaining = 0
      BY <1>4, <3>1, PlanAssumption
    <3>. HIDE DEF new, kept, seqs, plan, last, term, principal
    <3>3. last + term \in seqs /\ (last + term) - last = term
      BY <1>3, <3>1, BoundsAssumption
    <3>4. DOMAIN new \in SUBSET (1..MaxSeq)
      BY <1>1, <1>3, <1>6 DEF IsRows
    <3>5. ASSUME NEW u \in DOMAIN new PROVE u <= last + term
      <4>1. CASE u \in DOMAIN kept
        BY <1>2, <1>7, <1>3, <3>1, <3>3, <4>1, BoundsAssumption
      <4>2. CASE u \in seqs
        BY <1>3, <3>1, <4>2, BoundsAssumption
      <4>. QED  BY <1>6, <4>1, <4>2
    <3>6. Highest(DOMAIN new) = last + term
      BY <1>6, <3>3, <3>4, <3>5, HighestIs
    <3>7. new[last + term].remaining = 0
      BY <1>5, <1>6, <1>8, <3>2, <3>3
    <3>. QED  BY <3>6, <3>7 DEF Clears
  <2>2. CASE seqs = {} /\ DOMAIN kept # {}
    <3>1. DOMAIN new = DOMAIN kept
      BY <1>6, <2>2
    <3>2. last = Highest(DOMAIN kept) /\ principal = rows[last].remaining
      BY <1>2, <2>2 DEF LastPaidSeq, RemainingPrincipal
    <3>3. last \in DOMAIN kept
      BY <1>1, <2>2, <3>2, HighestIn DEF IsRows
    <3>4. principal = 0
      <4>. SUFFICES ASSUME principal # 0 PROVE FALSE
        OBVIOUS
      <4>1. term >= 1
        BY TermPositive DEF Settled
      <4>2. last + 1 \in seqs
        BY <1>3, <4>1 DEF NewSeqs, Settled
      <4>. QED  BY <2>2, <4>2
    <3>. QED  BY <1>1, <1>6, <3>1, <3>2, <3>3, <3>4 DEF Clears
  <2>3. CASE seqs = {} /\ DOMAIN kept = {}
    BY <1>6, <2>3 DEF Clears
  <2>. QED  BY <2>1, <2>2, <2>3
<1>. QED  BY <1>9, <1>10 DEF new

-----------------------------------------------------------------------------
(* What a request that ends in a refresh, or in a regeneration, leaves.    *)
LEMMA RefreshedServiced ==
    ASSUME MaxSeq <= PageLimit, NEW rows, IsRows(rows), OneUpcoming(rows), Clears(rows),
           today \in Nat, NEW inv \in InvestmentDoc, inv.state = "live" => Ordered(rows)
    PROVE  Serviced(RefreshedMeta(inv, rows), RefreshedRows(rows))
<1>1. Clears(RefreshedRows(rows))
  BY RefreshedClears
<1>2. RefreshedMeta(inv, rows).state = inv.state
  BY RefreshedMetaType
<1>3. CASE inv.state = "live"
  BY <1>1, <1>3, RefreshedIsFresh DEF Serviced
<1>4. CASE inv.state # "live"
  BY <1>1, <1>2, <1>4 DEF Serviced
<1>. QED  BY <1>3, <1>4

(* The same of regenerateSchedule, which marks overdue once more.          *)
LEMMA RegeneratedServiced ==
    ASSUME MaxSeq <= PageLimit, NEW rows, IsRows(rows), OneUpcoming(rows), today \in Nat,
           NEW inv \in InvestmentDoc, inv.state = "live", RegenerateFits(inv, rows)
    PROVE  Serviced(RegeneratedMeta(inv, rows), RegeneratedRows(inv, rows))
<1>. DEFINE built == Rebuilt(inv, rows)
            seen == RefreshedRows(built)
            meta == RefreshedMeta(inv, built)
<1>1. IsRows(built) /\ OneUpcoming(built)
  BY RebuiltStep DEF RowsStep
<1>2. Ordered(built) /\ Clears(built)
  BY RebuiltFine
<1>3. /\ RegeneratedMeta(inv, rows) = meta
      /\ RegeneratedRows(inv, rows) = MarkedOverdue(seen)
  BY RegenerateSees DEF RegeneratedMeta, RegeneratedRows
<1>. HIDE DEF built
<1>4. IsRows(seen) /\ OneUpcoming(seen)
  BY <1>1, RefreshedRowsStep DEF RowsStep
<1>5. Ordered(seen) /\ Fresh(meta, seen) /\ Clears(seen)
  BY <1>1, <1>2, RefreshedIsFresh, RefreshedClears
<1>. HIDE DEF seen, meta
<1>6. Ordered(MarkedOverdue(seen)) /\ Fresh(meta, MarkedOverdue(seen))
  BY <1>4, <1>5, MarkedOrdered, MarkedFresh
<1>7. Clears(MarkedOverdue(seen))
  BY <1>4, <1>5, RefreshedClears
<1>. QED  BY <1>3, <1>6, <1>7 DEF Serviced

(* A row that is paid or cancelled leaves the rows that wait, and keeps    *)
(* its balance.                                                            *)
LEMMA RowsLeave ==
    ASSUME NEW rows, IsRows(rows), NEW new, DOMAIN new = DOMAIN rows, NEW s \in DOMAIN rows,
           new[s].status \notin Ahead, new[s].status \notin Due,
           new[s].remaining = rows[s].remaining,
           \A u \in DOMAIN rows : u # s => new[u] = rows[u]
    PROVE  /\ Clears(rows) => Clears(new)
           /\ Ordered(rows) => Ordered(new)
<1>1. Clears(rows) => Clears(new)
  <2>1. DOMAIN rows # {} => Highest(DOMAIN rows) \in DOMAIN rows
    BY HighestIn DEF IsRows
  <2>. QED  BY <2>1 DEF Clears
<1>2. Ordered(rows) => Ordered(new)
  BY DEF Ordered
<1>. QED  BY <1>1, <1>2

(* markPaid before the refresh.                                            *)
LEMMA WithPaymentLeaves ==
    ASSUME NEW rows, IsRows(rows), NEW s \in DOMAIN rows, NEW amount
    PROVE  /\ Clears(rows) => Clears(WithPayment(rows, s, amount))
           /\ Ordered(rows) => Ordered(WithPayment(rows, s, amount))
<1>. DEFINE status == IF Completes(rows[s], amount) THEN "completed" ELSE "partially_paid"
            new == WithPayment(rows, s, amount)
            row == [rows[s] EXCEPT !.amountPaid = amount, !.status = status]
<1>1. status \notin Ahead /\ status \notin Due
  BY DEF Ahead, Due
<1>. HIDE DEF status
<1>2. row.status = status /\ row.remaining = rows[s].remaining
  BY DEF IsRows, Row
<1>3. new = [rows EXCEPT ![s] = row]
  BY DEF WithPayment, status
<1>. HIDE DEF row, new
<1>4. /\ DOMAIN new = DOMAIN rows /\ new[s] = row
      /\ \A u \in DOMAIN rows : u # s => new[u] = rows[u]
  BY <1>3
<1>. QED  BY <1>1, <1>2, <1>4, RowsLeave DEF new

(* cancelPayment before the refresh.                                       *)
LEMMA CancelledLeaves ==
    ASSUME NEW rows, IsRows(rows), NEW s \in DOMAIN rows
    PROVE  /\ Clears(rows) => Clears([rows EXCEPT ![s].status = "cancelled"])
           /\ Ordered(rows) => Ordered([rows EXCEPT ![s].status = "cancelled"])
<1>. DEFINE new == [rows EXCEPT ![s].status = "cancelled"]
            row == [rows[s] EXCEPT !.status = "cancelled"]
<1>1. row.status = "cancelled" /\ row.remaining = rows[s].remaining
  BY DEF IsRows, Row
<1>2. /\ DOMAIN new = DOMAIN rows /\ new[s] = row
      /\ \A u \in DOMAIN rows : u # s => new[u] = rows[u]
  OBVIOUS
<1>. HIDE DEF row, new
<1>3. new[s].status \notin Ahead /\ new[s].status \notin Due
  BY <1>1, <1>2 DEF Ahead, Due
<1>4. new[s].remaining = rows[s].remaining
  BY <1>1, <1>2
<1>. QED  BY <1>2, <1>3, <1>4, RowsLeave DEF new

-----------------------------------------------------------------------------
(* An early repayment takes the sequence after every paid row.             *)
LEMMA EarlySeqIsLast ==
    ASSUME MaxSeq <= PageLimit, NEW rows, IsRows(rows)
    PROVE  /\ EarlySeq(rows) \in Nat
           /\ \A u \in DOMAIN PaidOnly(rows) : u \in Nat /\ u < EarlySeq(rows)
<1>. DEFINE kept == PaidOnly(rows)
<1>1. IsRows(kept)
  BY PaidOnlyFacts DEF RowsStep
<1>2. Visible(kept) = DOMAIN kept /\ DOMAIN kept \in SUBSET (1..MaxSeq)
  BY <1>1, AllVisible DEF IsRows
<1>3. EarlySeq(rows) = Highest(DOMAIN kept) + 1
  BY <1>2 DEF EarlySeq
<1>. HIDE DEF kept
<1>4. Highest(DOMAIN kept) \in 0..MaxSeq /\ \A u \in DOMAIN kept : u <= Highest(DOMAIN kept)
  BY <1>2, HighestIn
<1>5. \A u \in DOMAIN kept : u \in Nat
  BY <1>2, BoundsAssumption
<1>. QED  BY <1>3, <1>4, <1>5, BoundsAssumption DEF kept

(* Its row and the paid rows: nothing waits, and the new row is the last.  *)
LEMMA EarlyRowsEnd ==
    ASSUME MaxSeq <= PageLimit, NEW rows, IsRows(rows), NEW row \in Row,
           row.status = "completed", row.remaining = 0, EarlySeq(rows) <= MaxSeq
    PROVE  LET new == WithEarlyRow(rows, row)
           IN  /\ IsRows(PaidOnly(new)) /\ OneUpcoming(PaidOnly(new))
               /\ Ordered(PaidOnly(new)) /\ Clears(PaidOnly(new))
<1>. DEFINE kept == DOMAIN PaidOnly(rows)
            seq == EarlySeq(rows)
            new == WithEarlyRow(rows, row)
            left == PaidOnly(new)
<1>1. seq \in Nat /\ \A u \in kept : u \in Nat /\ u < seq
  BY EarlySeqIsLast
<1>2. seq \notin kept
  BY <1>1
<1>3. IsRows(new)
  BY <1>2, WithEarlyRowStep DEF RowsStep
<1>4. /\ DOMAIN new = kept \cup {seq} /\ new[seq] = row
      /\ \A s \in kept : s # seq => new[s] = rows[s]
  BY DEF WithEarlyRow
<1>. HIDE DEF new
<1>5. /\ DOMAIN left \subseteq DOMAIN new /\ IsRows(left)
      /\ \A s \in DOMAIN left : left[s] = new[s] /\ new[s].status \in Paid
      /\ \A s \in DOMAIN new : new[s].status = "completed" => s \in DOMAIN left
  BY <1>3, PaidOnlyFacts DEF RowsStep
<1>. HIDE DEF left, kept, seq
<1>6. \A s \in DOMAIN left : left[s].status \in Paid
  BY <1>5
<1>7. Ordered(left)
  BY <1>6, PaidOrdered
<1>8. OneUpcoming(left)
  BY <1>6 DEF OneUpcoming, Paid
<1>9. seq \in DOMAIN left /\ left[seq].remaining = 0
  BY <1>4, <1>5
<1>10. \A u \in DOMAIN left : u <= seq
  BY <1>1, <1>4, <1>5
<1>11. Highest(DOMAIN left) = seq
  BY <1>5, <1>9, <1>10, HighestIs DEF IsRows
<1>12. Clears(left)
  BY <1>9, <1>11 DEF Clears
<1>. QED  BY <1>5, <1>7, <1>8, <1>12 DEF left, new

-----------------------------------------------------------------------------
(* The steps.  First: a request that writes one investment and its rows.   *)
LEMMA ServicedWritten ==
    ASSUME LedgerTypeOK, Servicing, NEW i \in Investments, NEW inv, NEW new,
           investments' = [investments EXCEPT ![i] = inv],
           payments' = [payments EXCEPT ![i] = new], Serviced(inv, new)
    PROVE  Servicing'
<1>1. DOMAIN payments = Investments /\ DOMAIN investments = Investments
  BY DEF LedgerTypeOK
<1>2. ASSUME NEW j \in Investments PROVE Serviced(investments'[j], payments'[j])
  <2>1. CASE j = i
    BY <1>1, <2>1
  <2>2. CASE j # i
    <3>1. investments'[j] = investments[j] /\ payments'[j] = payments[j]
      BY <1>1, <2>2
    <3>. QED  BY <3>1 DEF Servicing
  <2>. QED  BY <2>1, <2>2
<1>. QED  BY <1>2 DEF Servicing

(* A request that ends in refreshInvestmentPaymentMeta.                    *)
LEMMA RefreshKeeps ==
    ASSUME MaxSeq <= PageLimit, LedgerTypeOK, Servicing, NEW i \in Investments,
           NEW rows, IsRows(rows), OneUpcoming(rows), Clears(rows),
           NEW inv \in InvestmentDoc, inv.state = "live" => Ordered(rows),
           Refresh(i, inv, rows)
    PROVE  Servicing'
<1>1. today \in Nat
  BY BoundsAssumption DEF LedgerTypeOK
<1>. QED  BY <1>1, RefreshedServiced, ServicedWritten DEF Refresh

(* A request that ends in regenerateSchedule.                              *)
LEMMA RegenerateKeeps ==
    ASSUME MaxSeq <= PageLimit, LedgerTypeOK, Servicing, NEW i \in Investments,
           NEW rows, IsRows(rows), OneUpcoming(rows),
           NEW inv \in InvestmentDoc, inv.state = "live", Regenerate(i, inv, rows)
    PROVE  Servicing'
<1>1. today \in Nat /\ RegenerateFits(inv, rows)
  BY BoundsAssumption DEF LedgerTypeOK, Regenerate
<1>. QED  BY <1>1, RegeneratedServiced, ServicedWritten DEF Regenerate

(* POST /investments.                                                      *)
LEMMA CreateKeeps ==
    ASSUME MaxSeq <= PageLimit, IInv, NEW i \in Investments, NEW v \in Investors,
           NEW t \in Terms, NEW status \in StatusInputs, Create(i, v, t, status)
    PROVE  Servicing'
<1>. DEFINE inv == [state |-> "live", investor |-> v, terms |-> t,
                    outstanding |-> t.principal, repaid |-> 0, earned |-> 0, status |-> status,
                    monthly |-> Instalment(t, t.principal, t.term), nextDue |-> NoDue]
            rows == GeneratedRows(t)
<1>1. /\ t.principal \in 1..MaxPrincipal /\ t.term \in 1..MaxSeq
      /\ status \in Statuses /\ today \in Nat
  BY TermsAssumption, BoundsAssumption DEF IInv, LedgerTypeOK
<1>2. Instalment(t, t.principal, t.term) \in Nat
  BY <1>1, InstalmentAssumption
<1>3. inv \in InvestmentDoc
  BY <1>1, <1>2, BoundsAssumption DEF InvestmentDoc, NoDue, Money
<1>4. IsRows(rows) /\ OneUpcoming(rows) /\ Ordered(rows) /\ Clears(rows)
  BY <1>1, GeneratedRowsFacts, GeneratedFine
<1>5. Refresh(i, inv, rows)
  BY DEF Create
<1>. HIDE DEF inv, rows
<1>. QED  BY <1>3, <1>4, <1>5, RefreshKeeps DEF IInv

(* PATCH /investments/:id with schedule fields.                            *)
LEMMA UpdateTermsKeeps ==
    ASSUME MaxSeq <= PageLimit, IInv, NEW i \in Investments, NEW t \in Terms,
           NEW repriced \in BOOLEAN, NEW status \in Statuses,
           UpdateTerms(i, t, repriced, status)
    PROVE  Servicing'
<1>. DEFINE old == investments[i]
            monthly == IF repriced THEN Instalment(t, t.principal, t.term) ELSE old.monthly
            inv == [old EXCEPT !.terms = t, !.status = status, !.monthly = monthly]
<1>1. /\ old \in InvestmentDoc /\ old.state = "live" /\ IsRows(payments[i])
      /\ OneUpcoming(payments[i])
  BY DEF IInv, LedgerTypeOK, AtMostOneUpcoming, UpdateTerms
<1>2. Instalment(t, t.principal, t.term) \in Nat
  BY TermsAssumption, InstalmentAssumption
<1>3. monthly \in Nat
  BY <1>1, <1>2 DEF InvestmentDoc
<1>4. Regenerate(i, inv, payments[i])
  BY <1>1 DEF UpdateTerms, InvestmentDoc
<1>. HIDE DEF old, monthly
<1>5. inv \in InvestmentDoc /\ inv.state = "live"
  BY <1>1, <1>3 DEF InvestmentDoc
<1>. HIDE DEF inv
<1>. QED  BY <1>1, <1>4, <1>5, RegenerateKeeps DEF IInv

(* POST /payments/:id/mark-paid.                                           *)
LEMMA MarkPaidKeeps ==
    ASSUME MaxSeq <= PageLimit, IInv, NEW i \in Investments, NEW s \in DOMAIN payments[i],
           NEW amount \in Nat, MarkPaid(i, s, amount)
    PROVE  Servicing'
<1>. DEFINE row  == payments[i][s]
            inv  == Credited(investments[i], row, amount)
            rows == WithPayment(payments[i], s, amount)
<1>1. /\ investments[i] \in InvestmentDoc /\ IsRows(payments[i]) /\ row \in Row
      /\ row.status # "completed" /\ investments[i].state = "live"
      /\ OneUpcoming(payments[i]) /\ Clears(payments[i]) /\ Ordered(payments[i])
  BY DEF IInv, LedgerTypeOK, IsRows, AtMostOneUpcoming, Servicing, Serviced, MarkPaid, Payable
<1>2. inv \in InvestmentDoc /\ inv.state = "live"
  BY <1>1, CreditedFacts
<1>3. IsRows(rows) /\ OneUpcoming(rows)
  BY <1>1, WithPaymentStep DEF RowsStep
<1>4. Clears(rows) /\ Ordered(rows)
  BY <1>1, WithPaymentLeaves
<1>5. Refresh(i, inv, rows) \/ Regenerate(i, inv, rows)
  BY DEF MarkPaid
<1>. HIDE DEF row, inv, rows
<1>6. CASE Refresh(i, inv, rows)
  BY <1>2, <1>3, <1>4, <1>6, RefreshKeeps DEF IInv
<1>7. CASE Regenerate(i, inv, rows)
  BY <1>2, <1>3, <1>7, RegenerateKeeps DEF IInv
<1>. QED  BY <1>5, <1>6, <1>7

(* The same for a row whose investment is deleted.                         *)
LEMMA MarkPaidOfDeletedKeeps ==
    ASSUME MaxSeq <= PageLimit, IInv, NEW i \in Investments, NEW s \in DOMAIN payments[i],
           NEW amount \in Nat, MarkPaidOfDeleted(i, s, amount)
    PROVE  Servicing'
<1>. DEFINE rows == WithPayment(payments[i], s, amount)
            new == IF Completes(payments[i][s], amount) THEN RefreshedRows(rows) ELSE rows
            inv == investments[i]
<1>1. /\ IsRows(payments[i]) /\ payments[i][s].status # "completed"
      /\ OneUpcoming(payments[i]) /\ Clears(payments[i]) /\ today \in Nat
      /\ inv.state = "deleted"
  BY BoundsAssumption DEF IInv, LedgerTypeOK, AtMostOneUpcoming, Servicing, Serviced,
                          MarkPaidOfDeleted, Payable
<1>2. IsRows(rows) /\ OneUpcoming(rows)
  BY <1>1, WithPaymentStep DEF RowsStep
<1>3. Clears(rows)
  BY <1>1, WithPaymentLeaves
<1>. HIDE DEF rows
<1>4. Clears(new)
  BY <1>1, <1>2, <1>3, RefreshedClears
<1>5. /\ payments' = [payments EXCEPT ![i] = new]
      /\ investments' = [investments EXCEPT ![i] = inv]
  BY DEF MarkPaidOfDeleted, rows, IInv, LedgerTypeOK
<1>. HIDE DEF new
<1>6. Serviced(inv, new)
  BY <1>1, <1>4 DEF Serviced
<1>. HIDE DEF inv
<1>. QED  BY <1>5, <1>6, ServicedWritten DEF IInv

(* POST /payments/:id/cancel, of a live or a deleted investment.           *)
LEMMA CancelPaymentKeeps ==
    ASSUME MaxSeq <= PageLimit, IInv, NEW i \in Investments, NEW s \in DOMAIN payments[i],
           CancelPayment(i, s)
    PROVE  Servicing'
<1>. DEFINE rows == [payments[i] EXCEPT ![s].status = "cancelled"]
            inv == investments[i]
<1>1. /\ IsRows(payments[i]) /\ payments[i][s].status # "completed"
      /\ OneUpcoming(payments[i]) /\ inv \in InvestmentDoc
      /\ Clears(payments[i]) /\ (inv.state = "live" => Ordered(payments[i]))
  BY DEF IInv, LedgerTypeOK, AtMostOneUpcoming, Servicing, Serviced, CancelPayment
<1>2. IsRows(rows) /\ OneUpcoming(rows)
  BY <1>1, CancelledRowStep DEF RowsStep
<1>3. Clears(rows) /\ (inv.state = "live" => Ordered(rows))
  BY <1>1, CancelledLeaves
<1>4. Refresh(i, inv, rows)
  BY DEF CancelPayment
<1>. HIDE DEF rows, inv
<1>. QED  BY <1>1, <1>2, <1>3, <1>4, RefreshKeeps DEF IInv

(* POST /investments/:id/early-repayment.                                  *)
LEMMA EarlyRepaymentKeeps ==
    ASSUME MaxSeq <= PageLimit, IInv, NEW i \in Investments, NEW amount \in Nat,
           NEW portion \in Nat, EarlyRepayment(i, amount, portion)
    PROVE  Servicing'
<1>. DEFINE applied == Smaller(amount, investments[i].outstanding)
            row  == EarlyRow(investments[i], applied, Smaller(portion, applied))
            inv  == CreditedEarly(investments[i], row)
            rows == WithEarlyRow(payments[i], row)
<1>1. /\ investments[i] \in InvestmentDoc /\ IsRows(payments[i]) /\ today \in Nat
      /\ investments[i].state = "live" /\ OneUpcoming(payments[i])
  BY BoundsAssumption DEF IInv, LedgerTypeOK, AtMostOneUpcoming, EarlyRepayment
<1>2. row \in Row /\ row.status = "completed" /\ inv \in InvestmentDoc /\ inv.state = "live"
  BY <1>1, EarlyRowFacts
<1>3. /\ EarlySeq(payments[i]) \notin DOMAIN PaidOnly(payments[i])
      /\ EarlySeq(payments[i]) <= MaxSeq
      /\ \/ Regenerate(i, inv, rows)
         \/ row.remaining = 0 /\ Refresh(i, inv, PaidOnly(rows))
  BY DEF EarlyRepayment
<1>. HIDE DEF row, inv
<1>4. CASE Regenerate(i, inv, rows)
  <2>1. IsRows(rows) /\ OneUpcoming(rows)
    BY <1>1, <1>2, <1>3, WithEarlyRowStep DEF RowsStep
  <2>. HIDE DEF rows
  <2>. QED  BY <1>2, <1>4, <2>1, RegenerateKeeps DEF IInv
<1>5. CASE row.remaining = 0 /\ Refresh(i, inv, PaidOnly(rows))
  <2>. DEFINE left == PaidOnly(rows)
  <2>1. IsRows(left) /\ OneUpcoming(left) /\ Ordered(left) /\ Clears(left)
    BY <1>1, <1>2, <1>3, <1>5, EarlyRowsEnd
  <2>2. Refresh(i, inv, left)
    BY <1>5
  <2>. HIDE DEF left
  <2>. QED  BY <1>2, <2>1, <2>2, RefreshKeeps DEF IInv
<1>. QED  BY <1>3, <1>4, <1>5

(* A listing, or the sweep, marks the rows of an investment overdue.       *)
LEMMA MarkedServiced ==
    ASSUME MaxSeq <= PageLimit, NEW rows, IsRows(rows), OneUpcoming(rows), today \in Nat,
           NEW inv, Serviced(inv, rows)
    PROVE  Serviced(inv, MarkedOverdue(rows))
BY MarkedOrdered, MarkedFresh, RefreshedClears DEF Serviced

(* A request that changes neither the rows nor the payment meta.           *)
LEMMA ServicingUntouched ==
    ASSUME LedgerTypeOK, Servicing, UNCHANGED payments,
           \A i \in Investments :
              /\ investments'[i].state = "live" => investments[i].state = "live"
              /\ investments'[i].nextDue = investments[i].nextDue
              /\ investments'[i].monthly = investments[i].monthly
    PROVE  Servicing'
<1>1. \A i \in Investments : Serviced(investments'[i], payments[i])
  BY DEF Servicing, Serviced, Fresh
<1>. QED  BY <1>1 DEF Servicing

(* Every step keeps the rows in order and the documents fresh.             *)
LEMMA NextKeeps ==
    ASSUME MaxSeq <= PageLimit, IInv, [Next]_vars
    PROVE  IInv'
<1>1. LedgerTypeOK' /\ AtMostOneUpcoming'
  BY NextStep DEF IInv, PaymentsStep, RowsStep, AtMostOneUpcoming
<1>. SUFFICES Servicing'
  BY <1>1 DEF IInv
<1>2. /\ LedgerTypeOK /\ Servicing /\ today \in Nat
      /\ \A i \in Investments : /\ IsRows(payments[i]) /\ OneUpcoming(payments[i])
                                 /\ Serviced(investments[i], payments[i])
                                 /\ investments[i] \in InvestmentDoc
  BY BoundsAssumption DEF IInv, LedgerTypeOK, AtMostOneUpcoming, Servicing
<1>3. CASE UNCHANGED vars
  <2>1. payments' = payments /\ investments' = investments
    BY <1>3 DEF vars
  <2>. QED  BY <1>2, <2>1, ServicingUntouched
<1>4. ASSUME NEW i \in Investments, Request(i)
      PROVE  Servicing'
  <2>1. ASSUME NEW v \in Investors, NEW t \in Terms, NEW status \in StatusInputs,
               Create(i, v, t, status)
        PROVE  Servicing'
    BY <2>1, CreateKeeps
  <2>2. ASSUME NEW t \in Terms, NEW repriced \in BOOLEAN,
               NEW status \in StatusInputs \cup {investments[i].status},
               UpdateTerms(i, t, repriced, status)
        PROVE  Servicing'
    <3>1. status \in Statuses
      BY <1>2, BoundsAssumption DEF InvestmentDoc
    <3>. QED  BY <2>2, <3>1, UpdateTermsKeeps
  <2>3. ASSUME NEW status \in StatusInputs, UpdateStatus(i, status)
        PROVE  Servicing'
    <3>1. /\ payments' = payments
          /\ \A j \in Investments :
                /\ investments'[j].state = investments[j].state
                /\ investments'[j].nextDue = investments[j].nextDue
                /\ investments'[j].monthly = investments[j].monthly
      BY <2>3 DEF UpdateStatus, IInv, LedgerTypeOK, InvestmentDoc
    <3>. QED  BY <1>2, <3>1, ServicingUntouched
  <2>4. CASE Remove(i)
    <3>1. /\ payments' = payments
          /\ \A j \in Investments :
                /\ investments'[j].state = "live" => investments[j].state = "live"
                /\ investments'[j].nextDue = investments[j].nextDue
                /\ investments'[j].monthly = investments[j].monthly
      BY <2>4 DEF Remove, IInv, LedgerTypeOK, InvestmentDoc
    <3>. QED  BY <1>2, <3>1, ServicingUntouched
  <2>5. CASE RegenerateSchedule(i)
    <3>1. investments[i].state = "live" /\ Regenerate(i, investments[i], payments[i])
      BY <2>5 DEF RegenerateSchedule
    <3>. QED  BY <1>2, <3>1, RegenerateKeeps
  <2>6. ASSUME NEW s \in DOMAIN payments[i], NEW amount \in Amounts \cup {payments[i][s].total},
               MarkPaid(i, s, amount) \/ MarkPaidOfDeleted(i, s, amount)
        PROVE  Servicing'
    <3>1. payments[i][s] \in Row
      BY <1>2 DEF IsRows
    <3>2. amount \in Nat
      BY <3>1, BoundsAssumption DEF Row
    <3>. QED  BY <2>6, <3>2, MarkPaidKeeps, MarkPaidOfDeletedKeeps
  <2>7. ASSUME NEW s \in DOMAIN payments[i], CancelPayment(i, s)
        PROVE  Servicing'
    BY <2>7, CancelPaymentKeeps
  <2>8. ASSUME NEW amount \in Amounts, NEW portion \in InterestPortions,
               EarlyRepayment(i, amount, portion)
        PROVE  Servicing'
    BY <2>8, EarlyRepaymentKeeps, BoundsAssumption
  <2>9. ASSUME NEW amount \in Amounts, EarlyRepaymentRefused(i, amount)
        PROVE  FALSE
    <3>1. EarlySeq(payments[i]) \in DOMAIN PaidOnly(payments[i])
      BY <2>9 DEF EarlyRepaymentRefused
    <3>2. EarlySeq(payments[i]) \in Nat /\ EarlySeq(payments[i]) < EarlySeq(payments[i])
      BY <1>2, <3>1, EarlySeqIsLast
    <3>. QED  BY <3>2
  <2>10. CASE ListPayments(i)
    <3>1. /\ payments' = [payments EXCEPT ![i] = MarkedOverdue(payments[i])]
          /\ investments' = [investments EXCEPT ![i] = investments[i]]
      BY <1>2, <2>10 DEF ListPayments, LedgerTypeOK
    <3>2. Serviced(investments[i], MarkedOverdue(payments[i]))
      BY <1>2, MarkedServiced
    <3>. QED  BY <1>2, <3>1, <3>2, ServicedWritten
  <2>. QED
    BY <1>4, <2>1, <2>2, <2>3, <2>4, <2>5, <2>6, <2>7, <2>8, <2>9, <2>10 DEF Request
<1>5. ASSUME NEW v \in Investors, RemoveInvestor(v)
      PROVE  Servicing'
  BY <1>2, <1>5, ServicingUntouched DEF RemoveInvestor
<1>6. CASE SweepOverdue
  <2>1. \A j \in Investments : /\ payments'[j] = MarkedOverdue(payments[j])
                               /\ investments'[j] = investments[j]
    BY <1>6 DEF SweepOverdue
  <2>2. ASSUME NEW j \in Investments PROVE Serviced(investments[j], MarkedOverdue(payments[j]))
    <3>1. IsRows(payments[j]) /\ OneUpcoming(payments[j]) /\ Serviced(investments[j], payments[j])
      BY <1>2
    <3>. QED  BY <1>2, <3>1, MarkedServiced
  <2>. QED  BY <2>1, <2>2 DEF Servicing
<1>7. CASE MonthPasses
  <2>1. payments' = payments /\ investments' = investments
    BY <1>7 DEF MonthPasses
  <2>. QED  BY <1>2, <2>1, ServicingUntouched
<1>. QED  BY <1>3, <1>4, <1>5, <1>6, <1>7 DEF Next

(* The first state: nothing is lent yet.                                   *)
LEMMA InitServes == Init => Servicing
BY DEF Init, Absent, Servicing, Serviced, Clears

-----------------------------------------------------------------------------
(* The document always shows the next payment its rows give, although the  *)
(* sweep and the listings change statuses without touching the document    *)
(* (investment.service.ts:415-424, 664-703; cron/index.ts:87-119).         *)
THEOREM NextPaymentIsFresh ==
    ASSUME MaxSeq <= PageLimit
    PROVE  Spec => []NextPaymentFresh
<1>1. LedgerTypeOK /\ AtMostOneUpcoming /\ Init => IInv
  BY InitServes DEF IInv
<1>2. IInv /\ [Next]_vars => IInv'
  BY NextKeeps
<1>3. IInv => NextPaymentFresh
  BY DEF IInv, Servicing, Serviced, Fresh, NextPaymentFresh
<1>. QED  BY <1>1, <1>2, <1>3, LedgerTyped, OneNextPayment, PTL DEF Spec

(* Every schedule leads to the end of its loan, whatever was paid early,   *)
(* cancelled, re-termed or regenerated (investment.service.ts:264-304,     *)
(* 546-641).                                                               *)
THEOREM LastRowAlwaysClears ==
    ASSUME MaxSeq <= PageLimit
    PROVE  Spec => []LastRowClears
<1>1. LedgerTypeOK /\ AtMostOneUpcoming /\ Init => IInv
  BY InitServes DEF IInv
<1>2. IInv /\ [Next]_vars => IInv'
  BY NextKeeps
<1>3. IInv => LastRowClears
  <2>. SUFFICES ASSUME IInv, NEW i \in Investments, payments[i] # << >>
                PROVE  payments[i][Highest(DOMAIN payments[i])].remaining = 0
    BY DEF LastRowClears
  <2>1. payments[i] \in [DOMAIN payments[i] -> Row] /\ Clears(payments[i])
    BY DEF IInv, LedgerTypeOK, IsRows, Servicing, Serviced
  <2>2. DOMAIN payments[i] # {}
    <3>. SUFFICES ASSUME DOMAIN payments[i] = {} PROVE FALSE
      OBVIOUS
    <3>1. DOMAIN << >> = {}
      OBVIOUS
    <3>2. << >> = [s \in {} |-> << >>[s]] /\ payments[i] = [s \in {} |-> payments[i][s]]
      BY <2>1, <3>1
    <3>3. [s \in {} |-> << >>[s]] = [s \in {} |-> payments[i][s]]
      OBVIOUS
    <3>. QED  BY <3>2, <3>3
  <2>. QED  BY <2>1, <2>2 DEF Clears
<1>. QED  BY <1>1, <1>2, <1>3, LedgerTyped, OneNextPayment, PTL DEF Spec

-----------------------------------------------------------------------------
(* The totals of the investors.  What an investment adds to the totals of  *)
(* an investor: nothing when it is not counted.                            *)
Counts(invs, i, v) ==
    /\ invs[i].state = "live"
    /\ invs[i].investor = v
    /\ invs[i].status \in {"active", "pending", "matured"}

SameFor(v) ==
    \A i \in Investments :
        /\ Counts(investments', i, v) <=> Counts(investments, i, v)
        /\ Counts(investments, i, v) =>
              /\ investments'[i].terms.principal = investments[i].terms.principal
              /\ investments'[i].outstanding = investments[i].outstanding

TotalsFreshFor(v) ==
    investors[v].live =>
        /\ investors[v].invested = TotalInvested(investments, v)
        /\ investors[v].outstanding = TotalOutstanding(investments, v)

(* Totals that an investment does not add to do not change with it.        *)
LEMMA TotalsStay ==
    ASSUME NEW v, SameFor(v)
    PROVE  /\ TotalInvested(investments', v) = TotalInvested(investments, v)
           /\ TotalOutstanding(investments', v) = TotalOutstanding(investments, v)
<1>1. Counted(investments', v) = Counted(investments, v)
  BY DEF Counted, SameFor, Counts
<1>. DEFINE C == Counted(investments, v)
<1>2. \A i \in C : /\ investments'[i].terms.principal = investments[i].terms.principal
                   /\ investments'[i].outstanding = investments[i].outstanding
  BY DEF Counted, SameFor, Counts
<1>3. /\ [i \in C |-> investments'[i].terms.principal] = [i \in C |-> investments[i].terms.principal]
      /\ [i \in C |-> investments'[i].outstanding] = [i \in C |-> investments[i].outstanding]
  BY <1>2
<1>. QED  BY <1>1, <1>3 DEF TotalInvested, TotalOutstanding

(* A step that writes the investment i, of an investor it then syncs or    *)
(* without changing what i adds, leaves the totals fresh.                  *)
LEMMA TotalsWritten ==
    ASSUME LedgerTypeOK, InvestorsTyped, TotalsFresh, NEW i \in Investments, NEW v,
           \A j \in Investments \ {i} : investments'[j] = investments[j],
           \A w \in Investors \ {v} : ~Counts(investments, i, w) /\ ~Counts(investments', i, w),
           \/ v \in Investors /\ SyncTotals(v)
           \/ SameFor(v) /\ UNCHANGED investors
    PROVE  TotalsFresh'
<1>1. ASSUME NEW w \in Investors, w # v PROVE TotalsFreshFor(w)'
  <2>1. SameFor(w)
    BY <1>1 DEF SameFor, Counts
  <2>2. investors'[w] = investors[w]
    BY <1>1 DEF SyncTotals, InvestorsTyped
  <2>3. TotalsFreshFor(w)
    BY DEF TotalsFresh, TotalsFreshFor
  <2>. QED  BY <2>1, <2>2, <2>3, TotalsStay DEF TotalsFreshFor
<1>2. ASSUME v \in Investors PROVE TotalsFreshFor(v)'
  <2>1. CASE SyncTotals(v)
    <3>. DEFINE a == TotalInvested(investments', v)
                b == TotalOutstanding(investments', v)
    <3>1. investors' = IF investors[v].live
                       THEN [investors EXCEPT ![v].invested = a, ![v].outstanding = b]
                       ELSE investors
      BY <2>1 DEF SyncTotals
    <3>. HIDE DEF a, b
    <3>2. investors'[v].live => investors'[v].invested = a /\ investors'[v].outstanding = b
      BY <1>2, <3>1 DEF InvestorsTyped
    <3>. QED  BY <3>2 DEF TotalsFreshFor, a, b
  <2>2. CASE SameFor(v) /\ UNCHANGED investors
    <3>1. TotalsFreshFor(v)
      BY <1>2 DEF TotalsFresh, TotalsFreshFor
    <3>. QED  BY <2>2, <3>1, TotalsStay DEF TotalsFreshFor
  <2>. QED  BY <2>1, <2>2
<1>. QED  BY <1>1, <1>2 DEF TotalsFresh, TotalsFreshFor

(* A step that leaves the investments alone, and of the investors only     *)
(* removes one.                                                            *)
LEMMA TotalsUntouched ==
    ASSUME InvestorsTyped, TotalsFresh, UNCHANGED investments,
           UNCHANGED investors \/ \E v \in Investors : RemoveInvestor(v)
    PROVE  TotalsFresh'
<1>1. \A w \in Investors : SameFor(w)
  BY DEF SameFor, Counts
<1>2. \A w \in Investors : investors'[w].live =>
            /\ investors[w].live /\ investors'[w].invested = investors[w].invested
            /\ investors'[w].outstanding = investors[w].outstanding
  BY DEF InvestorsTyped, RemoveInvestor
<1>. QED  BY <1>1, <1>2, TotalsStay DEF TotalsFresh

(* The refresh and the regeneration write only the next payment, so that   *)
(* what an investment adds is what it added before them.                   *)
LEMMA MetaAdds ==
    ASSUME NEW inv \in InvestmentDoc, NEW rows,
           NEW new \in {RefreshedMeta(inv, rows), RegeneratedMeta(inv, rows)}
    PROVE  /\ new.state = inv.state /\ new.investor = inv.investor /\ new.status = inv.status
           /\ new.terms = inv.terms /\ new.outstanding = inv.outstanding
<1>1. ASSUME NEW seen, NEW m, m = RefreshedMeta(inv, seen)
      PROVE  /\ m.state = inv.state /\ m.investor = inv.investor /\ m.status = inv.status
             /\ m.terms = inv.terms /\ m.outstanding = inv.outstanding
  BY <1>1 DEF RefreshedMeta, InvestmentDoc
<1>. QED  BY <1>1 DEF RegeneratedMeta

(* A request that leaves the investment i as inv, with its investor, and   *)
(* ends in a refresh or a regeneration and in syncTotals.                  *)
LEMMA SyncedWrite ==
    ASSUME LedgerTypeOK, InvestorsTyped, TotalsFresh, NEW i \in Investments,
           NEW inv \in InvestmentDoc, NEW rows, Refresh(i, inv, rows) \/ Regenerate(i, inv, rows),
           investments[i].state = "absent" \/ inv.investor = investments[i].investor,
           SyncTotals(inv.investor)
    PROVE  TotalsFresh'
<1>1. PICK new \in {RefreshedMeta(inv, rows), RegeneratedMeta(inv, rows)} :
         investments' = [investments EXCEPT ![i] = new]
  BY DEF Refresh, Regenerate
<1>2. new.investor = inv.investor /\ inv.investor \in Investors
  BY MetaAdds DEF InvestmentDoc
<1>3. investments'[i] = new /\ \A j \in Investments \ {i} : investments'[j] = investments[j]
  BY <1>1 DEF LedgerTypeOK
<1>4. \A w \in Investors \ {inv.investor} : ~Counts(investments, i, w) /\ ~Counts(investments', i, w)
  BY <1>2, <1>3 DEF Counts
<1>. QED  BY <1>2, <1>3, <1>4, TotalsWritten

(* A request that leaves what the investment i adds as it was, refreshes   *)
(* or regenerates, and syncs nothing.                                      *)
LEMMA UnsyncedWrite ==
    ASSUME LedgerTypeOK, InvestorsTyped, TotalsFresh, NEW i \in Investments, NEW rows,
           \/ Refresh(i, investments[i], rows)
           \/ Regenerate(i, investments[i], rows),
           UNCHANGED investors
    PROVE  TotalsFresh'
<1>0. investments[i] \in InvestmentDoc
  BY DEF LedgerTypeOK
<1>1. PICK new \in {RefreshedMeta(investments[i], rows), RegeneratedMeta(investments[i], rows)} :
         investments' = [investments EXCEPT ![i] = new]
  BY DEF Refresh, Regenerate
<1>2. /\ new.state = investments[i].state /\ new.investor = investments[i].investor
      /\ new.status = investments[i].status /\ new.terms = investments[i].terms
      /\ new.outstanding = investments[i].outstanding
  BY <1>0, MetaAdds
<1>3. investments'[i] = new /\ \A j \in Investments \ {i} : investments'[j] = investments[j]
  BY <1>1 DEF LedgerTypeOK
<1>4. SameFor(investments[i].investor)
  BY <1>2, <1>3 DEF SameFor, Counts
<1>5. \A w \in Investors \ {investments[i].investor} :
         ~Counts(investments, i, w) /\ ~Counts(investments', i, w)
  BY <1>2, <1>3 DEF Counts
<1>. QED  BY <1>3, <1>4, <1>5, TotalsWritten

-----------------------------------------------------------------------------
(* POST /investments                                                       *)
LEMMA CreateTotals ==
    ASSUME LedgerTypeOK, InvestorsTyped, TotalsFresh, NEW i \in Investments,
           NEW v \in Investors, NEW t \in Terms, NEW status \in StatusInputs,
           Create(i, v, t, status)
    PROVE  TotalsFresh'
<1>. DEFINE inv == [state |-> "live", investor |-> v, terms |-> t,
                    outstanding |-> t.principal, repaid |-> 0, earned |-> 0, status |-> status,
                    monthly |-> Instalment(t, t.principal, t.term), nextDue |-> NoDue]
            rows == GeneratedRows(t)
<1>1. /\ t.principal \in 1..MaxPrincipal /\ t.term \in 1..MaxSeq /\ status \in Statuses
  BY TermsAssumption, BoundsAssumption
<1>2. inv \in InvestmentDoc
  <2>1. Instalment(t, t.principal, t.term) \in Nat
    BY <1>1, InstalmentAssumption
  <2>. QED  BY <1>1, <2>1, BoundsAssumption DEF InvestmentDoc, NoDue, Money
<1>3. Refresh(i, inv, rows) /\ SyncTotals(v) /\ investments[i].state = "absent"
  BY DEF Create
<1>4. inv.investor = v
  OBVIOUS
<1>. HIDE DEF inv, rows
<1>. QED  BY <1>2, <1>3, <1>4, SyncedWrite

(* PATCH /investments/:id with schedule fields: insertMany does not fail   *)
(* when regenerateSchedule sees every row, so that the totals are synced.  *)
LEMMA UpdateTermsTotals ==
    ASSUME MaxSeq <= PageLimit, LedgerTypeOK, InvestorsTyped, TotalsFresh,
           NEW i \in Investments, NEW t \in Terms, NEW repriced \in BOOLEAN,
           NEW status \in Statuses, UpdateTerms(i, t, repriced, status)
    PROVE  TotalsFresh'
<1>. DEFINE old == investments[i]
            monthly == IF repriced THEN Instalment(t, t.principal, t.term) ELSE old.monthly
            inv == [old EXCEPT !.terms = t, !.status = status, !.monthly = monthly]
<1>1. old \in InvestmentDoc /\ IsRows(payments[i])
  BY DEF LedgerTypeOK
<1>2. monthly \in Nat
  <2>1. Instalment(t, t.principal, t.term) \in Nat
    BY TermsAssumption, InstalmentAssumption
  <2>. QED  BY <1>1, <2>1 DEF InvestmentDoc
<1>3. /\ Regenerate(i, inv, payments[i])
      /\ IF InsertFails(inv, payments[i]) THEN UNCHANGED investors ELSE SyncTotals(inv.investor)
  BY <1>1 DEF UpdateTerms, InvestmentDoc
<1>. HIDE DEF monthly
<1>4. inv \in InvestmentDoc /\ inv.investor = old.investor
  BY <1>1, <1>2 DEF InvestmentDoc
<1>. HIDE DEF inv
<1>5. ~InsertFails(inv, payments[i])
  BY <1>1, <1>3, <1>4, RegenerateSees DEF Regenerate
<1>. QED  BY <1>3, <1>4, <1>5, SyncedWrite

(* POST /payments/:id/mark-paid.                                           *)
LEMMA MarkPaidTotals ==
    ASSUME LedgerTypeOK, InvestorsTyped, TotalsFresh, NEW i \in Investments,
           NEW s \in DOMAIN payments[i], NEW amount \in Nat, MarkPaid(i, s, amount)
    PROVE  TotalsFresh'
<1>. DEFINE inv  == Credited(investments[i], payments[i][s], amount)
            rows == WithPayment(payments[i], s, amount)
<1>1. investments[i] \in InvestmentDoc /\ payments[i][s] \in Row
  BY DEF LedgerTypeOK, IsRows
<1>2. inv \in InvestmentDoc
  BY <1>1, CreditedFacts
<1>3. inv.investor = investments[i].investor
  BY <1>1 DEF Credited, InvestmentDoc
<1>4. (Refresh(i, inv, rows) \/ Regenerate(i, inv, rows)) /\ SyncTotals(inv.investor)
  BY DEF MarkPaid
<1>. HIDE DEF inv, rows
<1>. QED  BY <1>2, <1>3, <1>4, SyncedWrite

(* POST /investments/:id/early-repayment.                                  *)
LEMMA EarlyRepaymentTotals ==
    ASSUME MaxSeq <= PageLimit, LedgerTypeOK, InvestorsTyped, TotalsFresh,
           NEW i \in Investments, NEW amount \in Nat, NEW portion \in Nat,
           EarlyRepayment(i, amount, portion)
    PROVE  TotalsFresh'
<1>. DEFINE applied == Smaller(amount, investments[i].outstanding)
            row  == EarlyRow(investments[i], applied, Smaller(portion, applied))
            inv  == CreditedEarly(investments[i], row)
            rows == WithEarlyRow(payments[i], row)
<1>1. investments[i] \in InvestmentDoc /\ IsRows(payments[i]) /\ today \in Nat
  BY BoundsAssumption DEF LedgerTypeOK
<1>2. row \in Row /\ row.status = "completed" /\ inv \in InvestmentDoc
  BY <1>1, EarlyRowFacts
<1>3. /\ EarlySeq(payments[i]) \notin DOMAIN PaidOnly(payments[i])
      /\ EarlySeq(payments[i]) <= MaxSeq
      /\ \/ /\ Regenerate(i, inv, rows)
            /\ IF InsertFails(inv, rows) THEN UNCHANGED investors ELSE SyncTotals(inv.investor)
         \/ Refresh(i, inv, PaidOnly(rows)) /\ SyncTotals(inv.investor)
  BY DEF EarlyRepayment
<1>. HIDE DEF row
<1>4. IsRows(rows)
  BY <1>1, <1>2, <1>3, WithEarlyRowStep DEF RowsStep
<1>5. inv.investor = investments[i].investor
  BY <1>1 DEF CreditedEarly, InvestmentDoc
<1>. HIDE DEF inv, rows
<1>6. Regenerate(i, inv, rows) => ~InsertFails(inv, rows)
  BY <1>2, <1>4, RegenerateSees DEF Regenerate
<1>. QED  BY <1>2, <1>3, <1>5, <1>6, SyncedWrite

(* PATCH without schedule fields, and DELETE.                              *)
LEMMA DocumentTotals ==
    ASSUME LedgerTypeOK, InvestorsTyped, TotalsFresh, NEW i \in Investments,
           Remove(i) \/ \E status \in StatusInputs : UpdateStatus(i, status)
    PROVE  TotalsFresh'
<1>1. investments[i] \in InvestmentDoc /\ investments[i].investor \in Investors
  BY DEF LedgerTypeOK, InvestmentDoc
<1>2. /\ investments'[i].investor = investments[i].investor
      /\ \A j \in Investments \ {i} : investments'[j] = investments[j]
      /\ SyncTotals(investments[i].investor)
  BY <1>1 DEF Remove, UpdateStatus, LedgerTypeOK, InvestmentDoc
<1>3. \A w \in Investors \ {investments[i].investor} :
         ~Counts(investments, i, w) /\ ~Counts(investments', i, w)
  BY <1>2 DEF Counts
<1>. QED  BY <1>1, <1>2, <1>3, TotalsWritten

(* Every step of the system.                                               *)
LEMMA NextTotals ==
    ASSUME MaxSeq <= PageLimit, LedgerTypeOK, InvestorsTyped, TotalsFresh, [Next]_vars
    PROVE  TotalsFresh'
<1>1. ASSUME NEW i \in Investments, Request(i) PROVE TotalsFresh'
  <2>1. ASSUME NEW v \in Investors, NEW t \in Terms, NEW status \in StatusInputs,
               Create(i, v, t, status)
        PROVE  TotalsFresh'
    BY <2>1, CreateTotals
  <2>2. ASSUME NEW t \in Terms, NEW repriced \in BOOLEAN,
               NEW status \in StatusInputs \cup {investments[i].status},
               UpdateTerms(i, t, repriced, status)
        PROVE  TotalsFresh'
    <3>1. status \in Statuses
      BY BoundsAssumption DEF LedgerTypeOK, InvestmentDoc
    <3>. QED  BY <2>2, <3>1, UpdateTermsTotals
  <2>3. ASSUME NEW status \in StatusInputs, UpdateStatus(i, status) PROVE TotalsFresh'
    BY <2>3, DocumentTotals
  <2>4. CASE Remove(i)
    BY <2>4, DocumentTotals
  <2>5. CASE RegenerateSchedule(i)
    BY <2>5, UnsyncedWrite DEF RegenerateSchedule
  <2>6. ASSUME NEW s \in DOMAIN payments[i], NEW amount \in Amounts \cup {payments[i][s].total},
               MarkPaid(i, s, amount) \/ MarkPaidOfDeleted(i, s, amount)
        PROVE  TotalsFresh'
    <3>1. amount \in Nat
      <4>1. payments[i][s] \in Row
        BY DEF LedgerTypeOK, IsRows
      <4>. QED  BY <4>1, BoundsAssumption DEF Row
    <3>2. CASE MarkPaidOfDeleted(i, s, amount)
      BY <3>2, TotalsUntouched DEF MarkPaidOfDeleted
    <3>. QED  BY <2>6, <3>1, <3>2, MarkPaidTotals
  <2>7. ASSUME NEW s \in DOMAIN payments[i], CancelPayment(i, s) PROVE TotalsFresh'
    BY <2>7, UnsyncedWrite DEF CancelPayment
  <2>8. ASSUME NEW amount \in Amounts, NEW portion \in InterestPortions,
               EarlyRepayment(i, amount, portion)
        PROVE  TotalsFresh'
    BY <2>8, EarlyRepaymentTotals, BoundsAssumption
  <2>9. ASSUME NEW amount \in Amounts, EarlyRepaymentRefused(i, amount) PROVE TotalsFresh'
    BY <2>9, TotalsUntouched DEF EarlyRepaymentRefused
  <2>10. CASE ListPayments(i)
    BY <2>10, TotalsUntouched DEF ListPayments
  <2>. QED
    BY <1>1, <2>1, <2>2, <2>3, <2>4, <2>5, <2>6, <2>7, <2>8, <2>9, <2>10 DEF Request
<1>2. ASSUME NEW v \in Investors, RemoveInvestor(v) PROVE TotalsFresh'
  BY <1>2, TotalsUntouched DEF RemoveInvestor
<1>3. CASE SweepOverdue \/ MonthPasses \/ UNCHANGED vars
  BY <1>3, TotalsUntouched DEF SweepOverdue, MonthPasses, vars
<1>. QED  BY <1>1, <1>2, <1>3 DEF Next

(* The totals of every live investor are the sums over the investments     *)
(* that count, after every request, as every handler that changes what an  *)
(* investment adds ends in InvestorService.syncTotals                      *)
(* (investment.service.ts:149, 204, 218, 496, 640; investor.service.ts:174)*)
THEOREM TotalsAlwaysFresh ==
    ASSUME MaxSeq <= PageLimit
    PROVE  Spec => []TotalsFresh
<1>1. Init => TotalsFresh
  <2>. SUFFICES ASSUME Init, NEW v \in Investors
                PROVE  /\ investors[v].invested = TotalInvested(investments, v)
                       /\ investors[v].outstanding = TotalOutstanding(investments, v)
    BY DEF TotalsFresh
  <2>1. Counted(investments, v) = {}
    BY DEF Init, Counted, Absent
  <2>2. TotalInvested(investments, v) = 0 /\ TotalOutstanding(investments, v) = 0
    <3>1. /\ DOMAIN [i \in Counted(investments, v) |-> investments[i].terms.principal] = {}
          /\ DOMAIN [i \in Counted(investments, v) |-> investments[i].outstanding] = {}
      BY <2>1
    <3>. QED  BY <3>1, SumOfNothing DEF TotalInvested, TotalOutstanding
  <2>. QED  BY <2>2 DEF Init
<1>2. LedgerTypeOK /\ InvestorsTyped /\ TotalsFresh /\ [Next]_vars => TotalsFresh'
  BY NextTotals
<1>3. TypeOK => LedgerTypeOK /\ InvestorsTyped
  BY DEF TypeOK, InvestorsTyped
<1>. QED  BY <1>1, <1>2, <1>3, LedgerAlwaysTyped, PTL DEF Spec
=============================================================================
