---------------------- MODULE InvestmentRequestsProofs ----------------------
(***************************************************************************)
(* Theorems about InvestmentRequests: any number of requests in flight at  *)
(* any of their statements, any of which may fail.                         *)
(*                                                                         *)
(* What a statement relies on was established by the statements before it. *)
(* Follows says which statement comes after which, so that a request that  *)
(* is about to insert rows has just deleted the unpaid ones; the rest of a *)
(* list of statements, or what is left of it when some are skipped, is     *)
(* chained the same way (TodoLater).                                       *)
(***************************************************************************)
EXTENDS MCFaultyRequests, InvestmentLedgerProofs, SequenceTheorems

(* The statement b comes after the statement a when a schedule is          *)
(* regenerated.                                                            *)
RegenerateFollows(a, b) ==
    \/ a = "loadInvestment" /\ b \in {"readRows", "markOverdue"}
    \/ a = "readRows" /\ b = "deleteUnpaid"
    \/ a = "deleteUnpaid" /\ b = "insertRows"
    \/ a = "insertRows" /\ b = "clearEvents"
    \/ a = "clearEvents" /\ b = "writeEvents"
    \/ a = "writeEvents" /\ b = "markOverdue"
    \/ a = "markOverdue" /\ b = "chooseNext"
    \/ a = "chooseNext" /\ b = "demote"
    \/ a = "demote" /\ b = "promote"
    \/ a = "promote" /\ b = "writeMeta"
    \/ a = "writeMeta" /\ b = "loadInvestment"

(* The same for any request.                                               *)
Follows(a, b) ==
    \/ RegenerateFollows(a, b)
    \/ a = "loadInvestment" /\ b \in {"deleteAll", "writeTerms", "writeStatus", "softDelete"}
    \/ a = "loadInvestor" /\ b = "insertInvestment"
    \/ a \in {"insertInvestment", "writeTerms"} /\ b = "loadInvestment"
    \/ a = "deleteAll" /\ b = "insertSchedule"
    \/ a = "insertSchedule" /\ b = "clearEvents"
    \/ a \in {"markOverdue", "writeMeta", "writeStatus", "softDelete", "credit"} /\ b = "sumTotals"
    \/ a = "sumTotals" /\ b = "writeTotals"
    \/ a = "writeTotals" /\ b = "announce"
    \/ a = "writePayment" /\ b = "findInvestment"
    \/ a = "findInvestment" /\ b = "credit"
    \/ a = "loadPayment" /\ b \in {"writePayment", "writeCancelled"}
    \/ a = "writeCancelled" /\ b = "markOverdue"
    \/ a = "loadOutstanding" /\ b = "deleteUnpaid"
    \/ a = "deleteUnpaid" /\ b \in {"readRows", "markOverdue"}
    \/ a = "readRows" /\ b = "insertEarly"
    \/ a = "insertEarly" /\ b = "credit"
    \/ a = "credit" /\ b = "announce"
    \/ a = "announce" /\ b \in {"markOverdue", "loadInvestment", "deleteUnpaid"}

Elements(todo) == {todo[k] : k \in 1..Len(todo)}

Chained(todo) == \A k \in 1..Len(todo) : k > 1 => Follows(todo[k - 1], todo[k])
RegenerateChained(todo) ==
    \A k \in 1..Len(todo) : k > 1 => RegenerateFollows(todo[k - 1], todo[k])

(* The statements that read the row of the request, and those that create  *)
(* executes up to the rows of a new loan.                                  *)
RowReaders == {"writePayment", "credit", "announce", "insertEarly"}
Opening == {"loadInvestor", "insertInvestment", "loadInvestment", "deleteAll", "insertSchedule"}

(* Those that write the status the request carries, and those after which  *)
(* there are always four more, some of which may be skipped.               *)
StatusWriters == {"writeStatus", "insertInvestment"}
Skipping == {"findInvestment", "insertRows", "insertSchedule", "deleteAll"}

Ops == {"create", "update", "updateStatus", "remove", "regenerate", "markPaid", "cancel", "early",
        "list", "none"}
Statements ==
    {"loadInvestment", "loadInvestor", "readRows", "deleteUnpaid", "deleteAll", "insertRows",
     "clearEvents", "writeEvents", "markOverdue", "chooseNext", "demote", "promote", "writeMeta",
     "sumTotals", "writeTotals", "insertInvestment", "insertSchedule", "writeTerms",
     "writeStatus", "softDelete", "loadPayment", "writePayment", "findInvestment", "credit",
     "announce", "writeCancelled", "loadOutstanding", "insertEarly"}

AllRows == UNION {[D -> Row] : D \in SUBSET (1..MaxSeq)}

RequestRecord ==
    [todo : Seq(Statements), op : Ops, i : Investments \cup {Idle.i}, s : Nat, terms : Terms, repriced : BOOLEAN,
     status : Statuses \cup {"none"}, amount : Nat, portion : Nat, row : Row \cup {<< >>},
     inv : InvestmentDoc, rows : AllRows, held : SUBSET (1..MaxSeq), fresh : SUBSET (1..MaxSeq),
     sums : Nat \X Nat, alone : BOOLEAN]

(* A loan gets its first rows before anything else; after a statement that *)
(* may skip others there are four, counting the free that come after.      *)
Opens(todo) ==
    \A k \in 1..Len(todo) : todo[k] = "insertSchedule" => \A j \in 1..k : todo[j] \in Opening
Room(todo, free) == \A k \in 1..Len(todo) : todo[k] \in Skipping => k + 4 <= Len(todo) + free

(* The statements a request has still to execute are chained, and what     *)
(* they read of the request is there.                                      *)
TodoOK(q) ==
    /\ Chained(q.todo) /\ Opens(q.todo) /\ Room(q.todo, 0)
    /\ Len(q.todo) > 0 => q.i \in Investments
    /\ q.op = "regenerate" =>
          RegenerateChained(q.todo) /\ (Len(q.todo) > 0 => q.todo[Len(q.todo)] = "markOverdue")
    /\ Elements(q.todo) \cap RowReaders # {} => q.row \in Row
    /\ "insertEarly" \in Elements(q.todo) => q.row.status = "completed"
    /\ Elements(q.todo) \cap StatusWriters # {} => q.status \in Statuses
    /\ Len(q.todo) > 0 /\ q.todo[1] \in {"loadPayment", "loadOutstanding"} => Len(q.todo) = 1

DocumentsTyped ==
    /\ today \in Nat
    /\ investments \in [Investments -> InvestmentDoc]
    /\ payments \in [Investments -> AllRows]
    /\ events \in [Investments -> SUBSET (1..MaxSeq)]

RequestsKnow ==
    /\ requests \in [Slots -> RequestRecord]
    /\ \A r \in Slots : /\ TodoOK(requests[r])
                        /\ requests[r].held \subseteq DOMAIN payments[requests[r].i]
                        /\ requests[r].todo = << >> => requests[r].held = {}
    /\ \A r \in Slots : requests[r].alone => \A p \in Slots \ {r} : ~InFlight(p)

RequestsIInv == DocumentsTyped /\ RequestsKnow /\ begun \in 0..MaxRequests

-----------------------------------------------------------------------------
(* The rows of an investment are the functions IsRows describes.           *)
LEMMA RowsAre ==
    ASSUME NEW rows
    PROVE  IsRows(rows) <=> rows \in AllRows
<1>1. ASSUME rows \in AllRows PROVE IsRows(rows)
  <2>1. PICK D \in SUBSET (1..MaxSeq) : rows \in [D -> Row]
    BY <1>1 DEF AllRows
  <2>. QED  BY <2>1 DEF IsRows
<1>2. ASSUME IsRows(rows) PROVE rows \in AllRows
  BY <1>2 DEF IsRows, AllRows
<1>. QED  BY <1>1, <1>2

(* new is what is left of old when its first statements are gone.          *)
Later(new, old) ==
    /\ new \in Seq(Statements)
    /\ \E d \in 0..Len(old) : /\ Len(new) = Len(old) - d
                              /\ \A k \in 1..Len(new) : new[k] = old[k + d]

(* The rest of a list of statements, and a rest from a later one on.       *)
LEMMA LaterOf ==
    ASSUME NEW t \in Seq(Statements), Len(t) > 0
    PROVE  /\ Later(t, t) /\ Head(t) = t[1]
           /\ Later(Tail(t), t)
           /\ \A m \in 1..Len(t) : Later(SubSeq(t, m, Len(t)), t)
<1>1. Len(t) \in Nat /\ t # << >>
  OBVIOUS
<1>2. Later(t, t)
  <2>1. \E d \in 0..Len(t) : Len(t) = Len(t) - d /\ \A k \in 1..Len(t) : t[k] = t[k + d]
    <3>1. 0 \in 0..Len(t) /\ Len(t) = Len(t) - 0 /\ \A k \in 1..Len(t) : k + 0 = k
      BY <1>1
    <3>. QED  BY <3>1, Zenon
  <2>. QED  BY <2>1, Zenon DEF Later
<1>3. Later(Tail(t), t)
  <2>1. Tail(t) \in Seq(Statements) /\ Len(Tail(t)) = Len(t) - 1
        /\ \A k \in 1..Len(Tail(t)) : Tail(t)[k] = t[k + 1]
    BY <1>1, HeadTailProperties
  <2>2. 1 \in 0..Len(t)
    BY <1>1
  <2>. QED  BY <2>1, <2>2 DEF Later
<1>4. ASSUME NEW m \in 1..Len(t) PROVE Later(SubSeq(t, m, Len(t)), t)
  <2>1. /\ SubSeq(t, m, Len(t)) \in Seq(Statements) /\ Len(SubSeq(t, m, Len(t))) = Len(t) - (m - 1)
        /\ \A k \in 1..(Len(t) - m + 1) : SubSeq(t, m, Len(t))[k] = t[k + (m - 1)]
    <3>1. m \in 1..(Len(t) + 1) /\ Len(t) \in m..Len(t)
      BY <1>1
    <3>. QED  BY <1>1, <3>1
  <2>2. m - 1 \in 0..Len(t) /\ Len(t) - (m - 1) = Len(t) - m + 1
    BY <1>1
  <2>. QED  BY <2>1, <2>2 DEF Later
<1>. QED  BY <1>1, <1>2, <1>3, <1>4

(* What is left later of what is left is left.                             *)
LEMMA LaterTransitive ==
    ASSUME NEW a \in Seq(Statements), NEW b, NEW c, Later(b, a), Later(c, b)
    PROVE  Later(c, a)
<1>1. PICK d \in 0..Len(a) : Len(b) = Len(a) - d /\ \A k \in 1..Len(b) : b[k] = a[k + d]
  BY DEF Later
<1>2. PICK e \in 0..Len(b) : Len(c) = Len(b) - e /\ \A k \in 1..Len(c) : c[k] = b[k + e]
  BY DEF Later
<1>3. Len(a) \in Nat /\ Len(b) \in Nat /\ Len(c) \in Nat /\ c \in Seq(Statements) /\ b \in Seq(Statements)
  BY DEF Later
<1>4. d + e \in 0..Len(a) /\ Len(c) = Len(a) - (d + e)
  BY <1>1, <1>2, <1>3
<1>5. ASSUME NEW k \in 1..Len(c) PROVE c[k] = a[k + (d + e)]
  <2>1. k + e \in 1..Len(b) /\ k + (d + e) = (k + e) + d
    BY <1>1, <1>2, <1>3
  <2>. QED  BY <1>1, <1>2, <2>1
<1>. QED  BY <1>3, <1>4, <1>5 DEF Later

(* A request that has less to do knows what it has to.                     *)
LEMMA TodoLater ==
    ASSUME NEW q, q.todo \in Seq(Statements), TodoOK(q),
           NEW p, Later(p.todo, q.todo), p.op = q.op, p.row = q.row, p.i = q.i,
           p.status = q.status
    PROVE  TodoOK(p) /\ Elements(p.todo) \subseteq Elements(q.todo)
<1>. PICK t, u : t = q.todo /\ u = p.todo
  OBVIOUS
<1>1. t \in Seq(Statements) /\ u \in Seq(Statements) /\ Len(t) \in Nat /\ Len(u) \in Nat
  BY DEF Later
<1>2. PICK d \in 0..Len(t) : Len(u) = Len(t) - d /\ \A k \in 1..Len(u) : u[k] = t[k + d]
  BY DEF Later
<1>3. \A k \in 1..Len(u) : /\ k + d \in 1..Len(t) /\ (k > 1 => (k - 1) + d = (k + d) - 1 /\ k + d > 1)
                           /\ k > 1 => k - 1 \in 1..Len(u)
  BY <1>1, <1>2
<1>4. Elements(u) \subseteq Elements(t)
  BY <1>2, <1>3 DEF Elements
<1>5. Chained(u)
  <2>. SUFFICES ASSUME NEW k \in 1..Len(u), k > 1 PROVE Follows(u[k - 1], u[k])
    BY DEF Chained
  <2>1. u[k] = t[k + d] /\ u[k - 1] = t[(k + d) - 1]
    BY <1>2, <1>3
  <2>. QED  BY <1>3, <2>1 DEF TodoOK, Chained
<1>6. ASSUME p.op = "regenerate"
      PROVE  RegenerateChained(u) /\ (Len(u) > 0 => u[Len(u)] = "markOverdue")
  <2>1. ASSUME NEW k \in 1..Len(u), k > 1 PROVE RegenerateFollows(u[k - 1], u[k])
    <3>1. u[k] = t[k + d] /\ u[k - 1] = t[(k + d) - 1]
      BY <1>2, <1>3, <2>1
    <3>. QED  BY <1>3, <1>6, <2>1, <3>1 DEF TodoOK, RegenerateChained
  <2>2. ASSUME Len(u) > 0 PROVE u[Len(u)] = "markOverdue"
    <3>1. Len(u) \in 1..Len(u) /\ Len(u) + d = Len(t) /\ Len(t) > 0
      BY <1>1, <1>2, <2>2
    <3>. QED  BY <1>2, <1>6, <3>1 DEF TodoOK
  <2>. QED  BY <2>1, <2>2 DEF RegenerateChained
<1>7. ASSUME NEW k \in 1..Len(u), u[k] = "insertSchedule", NEW j \in 1..k PROVE u[j] \in Opening
  <2>1. k \in Nat /\ j \in Nat /\ d \in Nat /\ j >= 1 /\ j <= k /\ k <= Len(u)
    BY <1>1, <1>2
  <2>2. j + d \in 1..(k + d) /\ j \in 1..Len(u)
    BY <1>1, <2>1
  <2>3. u[k] = t[k + d] /\ u[j] = t[j + d] /\ k + d \in 1..Len(t)
    BY <1>2, <1>3, <2>2
  <2>. QED  BY <1>7, <2>2, <2>3 DEF TodoOK, Opens
<1>10. Room(u, 0)
  <2>. SUFFICES ASSUME NEW k \in 1..Len(u), u[k] \in Skipping PROVE k + 4 <= Len(u)
    BY <1>1 DEF Room
  <2>1. k + d \in 1..Len(t) /\ u[k] = t[k + d]
    BY <1>2, <1>3
  <2>2. (k + d) + 4 <= Len(t) + 0
    BY <2>1 DEF TodoOK, Room
  <2>. QED  BY <1>1, <1>2, <2>2
<1>8. ASSUME Len(u) > 0, u[1] \in {"loadPayment", "loadOutstanding"} PROVE Len(u) = 1
  <2>1. 1 \in 1..Len(u) /\ 1 + d \in 1..Len(t) /\ u[1] = t[1 + d]
    BY <1>1, <1>2, <1>3, <1>8
  <2>2. CASE d = 0
    BY <1>2, <1>8, <2>1, <2>2 DEF TodoOK
  <2>3. CASE d # 0
    <3>1. 1 + d > 1 /\ (1 + d) - 1 = d
      BY <2>3
    <3>2. Follows(t[d], t[1 + d])
      BY <2>1, <3>1 DEF TodoOK, Chained
    <3>. QED  BY <1>8, <2>1, <3>2 DEF Follows, RegenerateFollows
  <2>. QED  BY <2>2, <2>3
<1>9. Len(u) > 0 => Len(t) > 0
  BY <1>1, <1>2
<1>11. Opens(u)
  BY <1>7 DEF Opens
<1>. QED  BY <1>4, <1>5, <1>6, <1>8, <1>9, <1>10, <1>11 DEF TodoOK

(* A slot that serves no request.                                          *)
LEMMA IdleKnows == Idle \in RequestRecord /\ TodoOK(Idle)
<1>1. PICK v, t, i : /\ v = (CHOOSE w \in Investors : TRUE) /\ t = (CHOOSE w \in Terms : TRUE)
                    /\ i = (CHOOSE w \in Investments : TRUE)
  OBVIOUS
<1>2. v \in Investors /\ t \in Terms
  <2>1. (\E v1 \in Investors : TRUE) /\ (\E t1 \in Terms : TRUE)
    BY BoundsAssumption, TermsAssumption
  <2>. QED  BY <1>1, <2>1, Zenon
<1>11. Absent = [state |-> "absent", investor |-> v, terms |-> t, outstanding |-> 0, repaid |-> 0,
                 earned |-> 0, status |-> "pending", monthly |-> 0, nextDue |-> 0]
  BY <1>1, Zenon DEF Absent, NoDue
<1>12. Absent \in InvestmentDoc /\ Absent.terms = t
  <2>1. 0 \in Money
    BY BoundsAssumption DEF Money
  <2>. QED  BY <1>2, <1>11, <2>1 DEF InvestmentDoc, Statuses
<1>3. << >> \in AllRows
  <2>1. IsRows(<< >>)
    BY DEF IsRows
  <2>. QED  BY <2>1, RowsAre
<1>4. << >> \in Seq(Statements) /\ Len(<< >>) = 0 /\ 1..0 = {}
  OBVIOUS
<1>5. <<0, 0>> \in Nat \X Nat
  OBVIOUS
<1>6. Idle = [todo |-> << >>, op |-> "none", i |-> i, s |-> 0, terms |-> Absent.terms,
              repriced |-> FALSE, status |-> "none", amount |-> 0, portion |-> 0, row |-> << >>,
              inv |-> Absent, rows |-> << >>, held |-> {}, fresh |-> {}, sums |-> <<0, 0>>,
              alone |-> FALSE]
  BY <1>1, Zenon DEF Idle
<1>7. /\ Idle.todo = << >> /\ Idle.op = "none" /\ Idle.i = i
  BY <1>6
<1>9. Idle \in RequestRecord
  <2>1. ASSUME NEW todo \in Seq(Statements), NEW terms \in Terms, NEW row \in Row \cup {<< >>},
               NEW inv \in InvestmentDoc, NEW rows \in AllRows, NEW sums \in Nat \X Nat,
               NEW place \in Investments \cup {Idle.i}
        PROVE  [todo |-> todo, op |-> "none", i |-> place, s |-> 0, terms |-> terms,
                repriced |-> FALSE, status |-> "none", amount |-> 0, portion |-> 0, row |-> row,
                inv |-> inv, rows |-> rows, held |-> {}, fresh |-> {}, sums |-> sums,
                alone |-> FALSE] \in RequestRecord
    BY DEF RequestRecord, Ops
  <2>2. i \in Investments \cup {Idle.i} /\ << >> \in Row \cup {<< >>} /\ Absent.terms \in Terms
    BY <1>2, <1>12, <1>7
  <2>. QED  BY <2>1, <2>2, <1>12, <1>3, <1>4, <1>5, <1>6, Zenon
<1>8. TodoOK(Idle)
  BY <1>4, <1>7 DEF TodoOK, Chained, Elements, Opens, Room
<1>. QED  BY <1>9, <1>8

(* A request that executed a statement knows what it has still to do.      *)
LEMMA AdvancedKnows ==
    ASSUME NEW q \in RequestRecord, TodoOK(q), Len(q.todo) > 0
    PROVE  /\ Advanced(q) \in RequestRecord /\ TodoOK(Advanced(q))
           /\ Advanced(q).held \subseteq q.held
           /\ Advanced(q).held # {} => Advanced(q).i = q.i
           /\ Advanced(q).alone => q.alone
           /\ Advanced(q).todo = << >> => Advanced(q).held = {}
           /\ Advanced(q).todo # << >> =>
                 /\ Advanced(q) = [q EXCEPT !.todo = Tail(@)]
                 /\ Later(Tail(q.todo), q.todo) /\ Len(q.todo) > 1
<1>1. q.todo \in Seq(Statements) /\ Later(Tail(q.todo), q.todo)
  BY LaterOf DEF RequestRecord
<1>2. CASE Len(q.todo) = 1
  <2>1. Advanced(q) = Idle
    BY <1>2 DEF Advanced
  <2>2. Idle.held = {} /\ ~Idle.alone /\ Idle.todo = << >>
    BY DEF Idle
  <2>. QED  BY <2>1, <2>2, IdleKnows
<1>3. CASE Len(q.todo) # 1
  <2>5. Len(q.todo) > 1
    <3>1. \A n \in Nat : n > 0 /\ n # 1 => n > 1
      OBVIOUS
    <3>2. Len(q.todo) \in Nat
      BY <1>1
    <3>. QED  BY <1>3, <3>1, <3>2, Zenon
  <2>. PICK p : p = [q EXCEPT !.todo = Tail(@)]
    OBVIOUS
  <2>1. Advanced(q) = p
    BY <1>3 DEF Advanced
  <2>2. Tail(q.todo) \in Seq(Statements)
    BY <1>1 DEF Later
  <2>3. /\ p \in RequestRecord /\ p.todo = Tail(q.todo) /\ p.op = q.op /\ p.row = q.row
        /\ p.held = q.held /\ p.i = q.i /\ p.alone = q.alone /\ p.status = q.status
    BY <2>2 DEF RequestRecord
  <2>4. TodoOK(p)
    BY <1>1, <2>3, TodoLater
  <2>6. p.todo # << >>
    <3>1. Len(Tail(q.todo)) = Len(q.todo) - 1
      BY <1>1, HeadTailProperties
    <3>2. Len(Tail(q.todo)) > 0
      BY <1>1, <2>5, <3>1
    <3>. QED  BY <2>3, <3>2
  <2>. QED  BY <1>1, <2>1, <2>3, <2>4, <2>5, <2>6
<1>. QED  BY <1>2, <1>3

(* What a request knows of its statements does not depend on the rest.     *)
LEMMA TodoSame ==
    ASSUME NEW q, NEW p, TodoOK(q), p.todo = q.todo, p.op = q.op, p.row = q.row, p.i = q.i,
           p.status = q.status
    PROVE  TodoOK(p)
BY DEF TodoOK

(* A request in flight has a statement to execute.                         *)
LEMMA FlightHas ==
    ASSUME RequestsIInv, NEW r \in Slots, InFlight(r)
    PROVE  /\ requests[r] \in RequestRecord /\ TodoOK(requests[r])
           /\ requests[r].todo \in Seq(Statements) /\ Len(requests[r].todo) > 0
           /\ Head(requests[r].todo) = requests[r].todo[1]
           /\ requests[r].i \in Investments /\ payments[requests[r].i] \in AllRows
           /\ IsRows(payments[requests[r].i])
           /\ requests[r].held \subseteq DOMAIN payments[requests[r].i]
<1>1. requests[r] \in RequestRecord /\ TodoOK(requests[r])
      /\ requests[r].held \subseteq DOMAIN payments[requests[r].i]
  BY DEF RequestsIInv, RequestsKnow
<1>2. requests[r].todo \in Seq(Statements)
  BY <1>1 DEF RequestRecord
<1>3. Len(requests[r].todo) > 0
  BY <1>2 DEF InFlight
<1>5. requests[r].i \in Investments
  BY <1>1, <1>3 DEF TodoOK
<1>4. payments[requests[r].i] \in AllRows
  BY <1>5 DEF RequestsIInv, DocumentsTyped
<1>. QED  BY <1>1, <1>2, <1>3, <1>4, <1>5, LaterOf, RowsAre

(* A statement leaves its request as q.                                    *)
LEMMA RequestBecomes ==
    ASSUME RequestsIInv, DocumentsTyped', NEW r \in Slots, InFlight(r),
           NEW q \in RequestRecord, TodoOK(q), q.held \subseteq DOMAIN payments'[q.i],
           q.todo = << >> => q.held = {},
           q.alone => requests[r].alone,
           requests' = [requests EXCEPT ![r] = q], UNCHANGED begun,
           \A p \in Slots \ {r} : requests[p].held \subseteq DOMAIN payments'[requests[p].i]
    PROVE  RequestsIInv'
<1>2. /\ requests \in [Slots -> RequestRecord] /\ requests' \in [Slots -> RequestRecord]
      /\ requests'[r] = q /\ \A p \in Slots \ {r} : requests'[p] = requests[p]
  BY DEF RequestsIInv, RequestsKnow
<1>3. \A p \in Slots : /\ TodoOK(requests'[p])
                       /\ requests'[p].held \subseteq DOMAIN payments'[requests'[p].i]
                       /\ requests'[p].todo = << >> => requests'[p].held = {}
  BY <1>2 DEF RequestsIInv, RequestsKnow
<1>4. ASSUME NEW p \in Slots, requests'[p].alone, NEW x \in Slots \ {p} PROVE requests'[x].todo = << >>
  <2>1. p = r
    BY <1>2, <1>4 DEF RequestsIInv, RequestsKnow, InFlight
  <2>. QED  BY <1>2, <1>4, <2>1 DEF RequestsIInv, RequestsKnow, InFlight
<1>. QED  BY <1>2, <1>3, <1>4 DEF RequestsIInv, RequestsKnow, TodoOK, InFlight

(* A statement leaves its request with what it knows then, or ends it.     *)
LEMMA RequestMoves ==
    ASSUME RequestsIInv, DocumentsTyped', NEW r \in Slots, InFlight(r),
           \/ Ends(r)
           \/ \E q \in RequestRecord :
                 /\ TodoOK(q) /\ Len(q.todo) > 0 /\ q.alone = requests[r].alone
                 /\ q.held \subseteq DOMAIN payments'[q.i]
                 /\ Goes(r, q),
           \A p \in Slots \ {r} : requests[p].held \subseteq DOMAIN payments'[requests[p].i]
    PROVE  RequestsIInv'
<1>1. PICK q \in RequestRecord :
          /\ TodoOK(q) /\ q.held \subseteq DOMAIN payments'[q.i]
          /\ q.todo = << >> => q.held = {}
          /\ q.alone => requests[r].alone
          /\ requests' = [requests EXCEPT ![r] = q] /\ UNCHANGED begun
  <2>1. CASE Ends(r)
    <3>1. Idle.held = {} /\ ~Idle.alone /\ Idle.todo = << >>
      BY DEF Idle
    <3>. QED  BY <2>1, <3>1, IdleKnows DEF Ends
  <2>2. ASSUME NEW q \in RequestRecord, TodoOK(q), Len(q.todo) > 0, q.alone = requests[r].alone,
               q.held \subseteq DOMAIN payments'[q.i], Goes(r, q)
        PROVE  \E p \in RequestRecord :
                  /\ TodoOK(p) /\ p.held \subseteq DOMAIN payments'[p.i]
                  /\ p.todo = << >> => p.held = {}
                  /\ p.alone => requests[r].alone
                  /\ requests' = [requests EXCEPT ![r] = p] /\ UNCHANGED begun
    <3>1. /\ Advanced(q) \in RequestRecord /\ TodoOK(Advanced(q))
          /\ Advanced(q).held \subseteq DOMAIN payments'[Advanced(q).i]
          /\ Advanced(q).todo = << >> => Advanced(q).held = {}
          /\ Advanced(q).alone => requests[r].alone
      BY <2>2, AdvancedKnows
    <3>. QED  BY <2>2, <3>1 DEF Goes
  <2>. QED  BY <2>1, <2>2
<1>. QED  BY <1>1, RequestBecomes

-----------------------------------------------------------------------------
(* What statements of a kind have in common.                               *)

(* p is the request q, which has read something.                           *)
SameRequest(p, q) ==
    /\ p \in RequestRecord
    /\ p.todo = q.todo /\ p.op = q.op /\ p.i = q.i /\ p.row = q.row /\ p.alone = q.alone
    /\ p.status = q.status

(* A statement that reads, or finds that the request has to end.           *)
LEMMA ReadsKeep ==
    ASSUME RequestsIInv, NEW r \in Slots, InFlight(r),
           \/ Rejects(r)
           \/ \E p : /\ SameRequest(p, requests[r]) /\ p.held \subseteq DOMAIN payments[p.i]
                     /\ Reads(r, p)
    PROVE  RequestsIInv'
<1>1. DocumentsTyped' /\ UNCHANGED payments
  BY DEF Rejects, Reads, vars, RequestsIInv, DocumentsTyped
<1>2. \/ Ends(r)
      \/ \E q \in RequestRecord :
            /\ TodoOK(q) /\ Len(q.todo) > 0 /\ q.alone = requests[r].alone
            /\ q.held \subseteq DOMAIN payments'[q.i]
            /\ Goes(r, q)
  <2>1. CASE Rejects(r)
    BY <2>1 DEF Rejects
  <2>2. ASSUME NEW p, SameRequest(p, requests[r]), p.held \subseteq DOMAIN payments[p.i],
               Reads(r, p)
        PROVE  /\ p \in RequestRecord
               /\ TodoOK(p) /\ Len(p.todo) > 0 /\ p.alone = requests[r].alone
               /\ p.held \subseteq DOMAIN payments'[p.i]
               /\ Goes(r, p)
    BY <1>1, <2>2, FlightHas, TodoSame DEF SameRequest, Reads
  <2>. QED  BY <2>1, <2>2
<1>3. \A p \in Slots \ {r} : requests[p].held \subseteq DOMAIN payments'[requests[p].i]
  BY <1>1 DEF RequestsIInv, RequestsKnow
<1>. QED  BY <1>1, <1>2, <1>3, RequestMoves

(* A statement that writes documents and deletes no rows.                  *)
LEMMA WritesKeep ==
    ASSUME RequestsIInv, DocumentsTyped', NEW r \in Slots, InFlight(r),
           \A i \in Investments : DOMAIN payments[i] \subseteq DOMAIN payments'[i],
           Ends(r) \/ Goes(r, requests[r])
    PROVE  RequestsIInv'
<1>1. \A p \in Slots : requests[p].held \subseteq DOMAIN payments'[requests[p].i]
  <2>. SUFFICES ASSUME NEW p \in Slots
                PROVE  requests[p].held \subseteq DOMAIN payments'[requests[p].i]
    OBVIOUS
  <2>1. CASE requests[p].held = {}
    BY <2>1
  <2>2. CASE requests[p].i \in Investments
    BY <2>2 DEF RequestsIInv, RequestsKnow
  <2>3. requests[p].held = {} \/ requests[p].i \in Investments
    BY FlightHas DEF InFlight, RequestsIInv, RequestsKnow
  <2>. QED  BY <2>1, <2>2, <2>3
<1>2. \/ Ends(r)
      \/ \E q \in RequestRecord :
            /\ TodoOK(q) /\ Len(q.todo) > 0 /\ q.alone = requests[r].alone
            /\ q.held \subseteq DOMAIN payments'[q.i]
            /\ Goes(r, q)
  BY <1>1, FlightHas
<1>. QED  BY <1>1, <1>2, RequestMoves

(* The rows of the investment are rewritten, none of them deleted.         *)
LEMMA RowsWrite ==
    ASSUME DocumentsTyped, NEW i \in Investments, NEW rows, IsRows(rows), WritesRows(i, rows)
    PROVE  /\ DocumentsTyped'
           /\ payments'[i] = rows /\ \A j \in Investments \ {i} : payments'[j] = payments[j]
<1>1. rows \in AllRows
  BY RowsAre
<1>. QED  BY <1>1 DEF DocumentsTyped, WritesRows

(* The same as a statement.                                                *)
LEMMA RowsKeep ==
    ASSUME RequestsIInv, NEW r \in Slots, InFlight(r), NEW rows, IsRows(rows),
           DOMAIN payments[requests[r].i] \subseteq DOMAIN rows,
           WritesRows(requests[r].i, rows), Ends(r) \/ Goes(r, requests[r])
    PROVE  RequestsIInv'
<1>1. requests[r].i \in Investments /\ DocumentsTyped
  BY FlightHas DEF RequestsIInv
<1>2. /\ DocumentsTyped' /\ payments'[requests[r].i] = rows
      /\ \A j \in Investments \ {requests[r].i} : payments'[j] = payments[j]
  BY <1>1, RowsWrite
<1>3. \A j \in Investments : DOMAIN payments[j] \subseteq DOMAIN payments'[j]
  BY <1>2
<1>. QED  BY <1>2, <1>3, WritesKeep

(* A document is updated.                                                  *)
LEMMA InvestmentKeeps ==
    ASSUME RequestsIInv, NEW r \in Slots, InFlight(r), NEW doc \in InvestmentDoc,
           WritesInvestment(requests[r].i, doc), Ends(r) \/ Goes(r, requests[r])
    PROVE  RequestsIInv'
<1>1. requests[r].i \in Investments
  BY FlightHas
<1>2. DocumentsTyped' /\ UNCHANGED payments
  BY <1>1 DEF WritesInvestment, RequestsIInv, DocumentsTyped
<1>. QED  BY <1>2, WritesKeep

(* The timeline is rewritten.                                              *)
LEMMA EventsKeep ==
    ASSUME RequestsIInv, NEW r \in Slots, InFlight(r), NEW sequences \in SUBSET (1..MaxSeq),
           WritesEvents(requests[r].i, sequences), Goes(r, requests[r])
    PROVE  RequestsIInv'
<1>1. requests[r].i \in Investments
  BY FlightHas
<1>2. DocumentsTyped' /\ UNCHANGED payments
  BY <1>1 DEF WritesEvents, RequestsIInv, DocumentsTyped
<1>. QED  BY <1>2, WritesKeep

-----------------------------------------------------------------------------
(* The lists of statements.                                                *)

(* A list that starts and ends so, where free more statements come after.  *)
Run(t, first, last, free) ==
    /\ t \in Seq(Statements) /\ Len(t) > 0
    /\ t[1] = first /\ t[Len(t)] = last
    /\ Chained(t) /\ Opens(t) /\ Room(t, free)

(* Two lists, one after the other.                                         *)
LEMMA Joined ==
    ASSUME NEW s \in Seq(Statements), NEW t \in Seq(Statements)
    PROVE  /\ s \o t \in Seq(Statements) /\ Len(s \o t) = Len(s) + Len(t)
           /\ \A k \in 1..Len(s) : (s \o t)[k] = s[k]
           /\ \A k \in 1..Len(t) : (s \o t)[Len(s) + k] = t[k]
           /\ \A k \in 1..Len(s \o t) :
                 \/ k \in 1..Len(s) /\ (s \o t)[k] = s[k]
                 \/ k - Len(s) \in 1..Len(t) /\ (s \o t)[k] = t[k - Len(s)]
           /\ Elements(s \o t) = Elements(s) \cup Elements(t)
<1>1. s \o t \in Seq(Statements) /\ Len(s \o t) = Len(s) + Len(t)
  OBVIOUS
<1>2. \A k \in 1..Len(s) : (s \o t)[k] = s[k]
  OBVIOUS
<1>3. \A k \in 1..Len(t) : (s \o t)[Len(s) + k] = t[k]
  OBVIOUS
<1>. PICK u : u = s \o t
  OBVIOUS
<1>. PICK m \in Nat, n \in Nat : m = Len(s) /\ n = Len(t)
  OBVIOUS
<1>4. ASSUME NEW k \in 1..Len(u)
      PROVE  \/ k \in 1..Len(s) /\ u[k] = s[k]
             \/ k - Len(s) \in 1..Len(t) /\ u[k] = t[k - Len(s)]
  <2>1. k \in 1..(m + n)
    BY <1>1
  <2>2. k \in 1..m \/ (k - m \in 1..n /\ m + (k - m) = k)
    BY <2>1
  <2>. QED  BY <1>2, <1>3, <2>2
<1>5. Elements(u) \subseteq Elements(s) \cup Elements(t)
  BY <1>4 DEF Elements
<1>6. Elements(s) \cup Elements(t) \subseteq Elements(u)
  <2>1. \A k \in 1..m : k \in 1..(m + n)
    OBVIOUS
  <2>2. \A k \in 1..n : m + k \in 1..(m + n)
    OBVIOUS
  <2>. QED  BY <1>1, <1>2, <1>3, <2>1, <2>2 DEF Elements
<1>. QED  BY <1>1, <1>2, <1>3, <1>4, <1>5, <1>6

(* The relation between neighbours, and where the one list meets the other.*)
LEMMA JoinedNeighbours ==
    ASSUME NEW s \in Seq(Statements), NEW t \in Seq(Statements), Len(s) > 0, Len(t) > 0
    PROVE  /\ Chained(s) /\ Chained(t) /\ Follows(s[Len(s)], t[1]) => Chained(s \o t)
           /\ RegenerateChained(s) /\ RegenerateChained(t) /\ RegenerateFollows(s[Len(s)], t[1])
                 => RegenerateChained(s \o t)
<1>. PICK u : u = s \o t
  OBVIOUS
<1>. PICK m \in Nat, n \in Nat : m = Len(s) /\ n = Len(t) /\ m > 0 /\ n > 0
  OBVIOUS
<1>1. /\ Len(u) = m + n /\ \A k \in 1..m : u[k] = s[k]
      /\ \A k \in 1..n : u[m + k] = t[k]
  BY Joined
<1>2. ASSUME NEW k \in 1..Len(u), k > 1
      PROVE  \/ k \in 1..m /\ u[k - 1] = s[k - 1] /\ u[k] = s[k]
             \/ u[k - 1] = s[m] /\ u[k] = t[1]
             \/ \E j \in 1..n : j > 1 /\ u[k - 1] = t[j - 1] /\ u[k] = t[j]
  <2>1. k \in 1..(m + n) /\ k > 1
    BY <1>1, <1>2
  <2>2. \/ k \in 1..m /\ k - 1 \in 1..m
        \/ k = m + 1 /\ k - 1 = m /\ m \in 1..m /\ 1 \in 1..n
        \/ /\ k - m \in 1..n /\ k - m > 1 /\ (k - m) - 1 \in 1..n
           /\ m + (k - m) = k /\ m + ((k - m) - 1) = k - 1
    BY <2>1
  <2>3. CASE k \in 1..m /\ k - 1 \in 1..m
    BY <1>1, <2>3
  <2>4. CASE k = m + 1 /\ k - 1 = m /\ m \in 1..m /\ 1 \in 1..n
    BY <1>1, <2>4
  <2>5. CASE /\ k - m \in 1..n /\ k - m > 1 /\ (k - m) - 1 \in 1..n
             /\ m + (k - m) = k /\ m + ((k - m) - 1) = k - 1
    <3>. PICK j : j = k - m
      OBVIOUS
    <3>1. j \in 1..n /\ j > 1 /\ j - 1 \in 1..n /\ u[m + j] = t[j] /\ u[m + (j - 1)] = t[j - 1]
      BY <1>1, <2>5
    <3>. QED  BY <2>5, <3>1
  <2>. QED  BY <2>2, <2>3, <2>4, <2>5
<1>3. ASSUME Chained(s), Chained(t), Follows(s[Len(s)], t[1]) PROVE Chained(u)
  <2>. SUFFICES ASSUME NEW k \in 1..Len(u), k > 1 PROVE Follows(u[k - 1], u[k])
    BY DEF Chained
  <2>. QED  BY <1>2, <1>3 DEF Chained
<1>4. ASSUME RegenerateChained(s), RegenerateChained(t), RegenerateFollows(s[Len(s)], t[1])
      PROVE  RegenerateChained(u)
  <2>. SUFFICES ASSUME NEW k \in 1..Len(u), k > 1 PROVE RegenerateFollows(u[k - 1], u[k])
    BY DEF RegenerateChained
  <2>. QED  BY <1>2, <1>4 DEF RegenerateChained
<1>. QED  BY <1>3, <1>4

(* Two runs are a run.                                                     *)
LEMMA RunJoins ==
    ASSUME NEW s, NEW t, NEW a, NEW b, NEW c, NEW d, NEW free \in Nat, NEW more \in Nat,
           Run(s, a, b, more), Run(t, c, d, free), more <= Len(t) + free, Follows(b, c),
           "insertSchedule" \notin Elements(t)
    PROVE  Run(s \o t, a, d, free) /\ Elements(s \o t) = Elements(s) \cup Elements(t)
<1>. PICK u : u = s \o t
  OBVIOUS
<1>1. s \in Seq(Statements) /\ t \in Seq(Statements) /\ Len(s) > 0 /\ Len(t) > 0
  BY DEF Run
<1>. PICK m \in Nat, n \in Nat : m = Len(s) /\ n = Len(t) /\ m > 0 /\ n > 0
  BY <1>1
<1>2. /\ u \in Seq(Statements) /\ Len(u) = m + n /\ \A k \in 1..m : u[k] = s[k]
      /\ \A k \in 1..n : u[m + k] = t[k]
      /\ \A k \in 1..Len(u) : \/ k \in 1..m /\ u[k] = s[k]
                              \/ k - m \in 1..n /\ u[k] = t[k - m]
      /\ Elements(u) = Elements(s) \cup Elements(t)
  BY <1>1, Joined
<1>3. Chained(u)
  BY <1>1, JoinedNeighbours DEF Run
<1>4. Len(u) > 0 /\ u[1] = a /\ u[Len(u)] = d
  <2>1. 1 \in 1..m /\ n \in 1..n /\ m + n > 0
    OBVIOUS
  <2>. QED  BY <1>2, <2>1 DEF Run
<1>5. Opens(u)
  <2>. SUFFICES ASSUME NEW k \in 1..Len(u), u[k] = "insertSchedule", NEW j \in 1..k
                PROVE  u[j] \in Opening
    BY DEF Opens
  <2>1. k \in 1..m /\ u[k] = s[k]
    BY <1>2 DEF Elements
  <2>2. j \in 1..m
    BY <2>1
  <2>. QED  BY <1>2, <2>1, <2>2 DEF Run, Opens
<1>6. Room(u, free)
  <2>. SUFFICES ASSUME NEW k \in 1..Len(u), u[k] \in Skipping PROVE k + 4 <= Len(u) + free
    BY DEF Room
  <2>1. CASE k \in 1..m /\ u[k] = s[k]
    <3>1. k + 4 <= m + more
      BY <2>1 DEF Run, Room
    <3>. QED  BY <1>2, <2>1, <3>1
  <2>2. CASE k - m \in 1..n /\ u[k] = t[k - m]
    <3>1. (k - m) + 4 <= n + free
      BY <2>2 DEF Run, Room
    <3>. QED  BY <1>2, <2>2, <3>1
  <2>. QED  BY <1>2, <2>1, <2>2
<1>. QED  BY <1>2, <1>3, <1>4, <1>5, <1>6 DEF Run

(* The lists the requests are made of.                                     *)
LEMMA EventsRun ==
    /\ \A free \in Nat : Run(EventsTodo, "clearEvents", "writeEvents", free)
    /\ RegenerateChained(EventsTodo) /\ Len(EventsTodo) = 2
    /\ Elements(EventsTodo) = {"clearEvents", "writeEvents"}
<1>. PICK t : t = <<"clearEvents", "writeEvents">>
  OBVIOUS
<1>1. t \in Seq(Statements) /\ Len(t) = 2 /\ t[1] = "clearEvents" /\ t[2] = "writeEvents"
  BY DEF Statements
<1>2. 1..2 = {1, 2}
  OBVIOUS
<1>3. /\ Chained(t) /\ RegenerateChained(t) /\ Opens(t) /\ \A free \in Nat : Room(t, free)
      /\ Elements(t) = {"clearEvents", "writeEvents"}
  BY <1>1, <1>2 DEF Chained, RegenerateChained, Opens, Room, Elements, Skipping, Opening, Follows,
                    RegenerateFollows
<1>. QED  BY <1>1, <1>3 DEF Run, EventsTodo

(* What refreshInvestmentPaymentMeta executes.                             *)
LEMMA RefreshRun ==
    /\ Run(RefreshTodo, "markOverdue", "writeMeta", 0) /\ Len(RefreshTodo) = 5
    /\ RegenerateChained(RefreshTodo)
    /\ Elements(RefreshTodo) = {"markOverdue", "chooseNext", "demote", "promote", "writeMeta"}
<1>. PICK t : t = <<"markOverdue", "chooseNext", "demote", "promote", "writeMeta">>
  OBVIOUS
<1>1. /\ t \in Seq(Statements) /\ Len(t) = 5 /\ t[1] = "markOverdue" /\ t[2] = "chooseNext"
      /\ t[3] = "demote" /\ t[4] = "promote" /\ t[5] = "writeMeta"
  BY DEF Statements
<1>2. 1..5 = {1, 2, 3, 4, 5}
  OBVIOUS
<1>3. Chained(t) /\ RegenerateChained(t) /\ Opens(t) /\ Room(t, 0)
  BY <1>1, <1>2 DEF Chained, RegenerateChained, Opens, Room, Skipping, Opening, Follows,
                    RegenerateFollows
<1>4. Elements(t) = {"markOverdue", "chooseNext", "demote", "promote", "writeMeta"}
  BY <1>1, <1>2 DEF Elements
<1>. QED  BY <1>1, <1>3, <1>4 DEF Run, RefreshTodo

(* What listPayments executes.                                             *)
LEMMA ListRun ==
    /\ Run(ListTodo, "loadInvestment", "markOverdue", 0) /\ Len(ListTodo) = 2
    /\ RegenerateChained(ListTodo) /\ Elements(ListTodo) = {"loadInvestment", "markOverdue"}
<1>. PICK t : t = <<"loadInvestment", "markOverdue">>
  OBVIOUS
<1>1. t \in Seq(Statements) /\ Len(t) = 2 /\ t[1] = "loadInvestment" /\ t[2] = "markOverdue"
  BY DEF Statements
<1>2. 1..2 = {1, 2}
  OBVIOUS
<1>3. /\ Chained(t) /\ RegenerateChained(t) /\ Opens(t) /\ Room(t, 0)
      /\ Elements(t) = {"loadInvestment", "markOverdue"}
  BY <1>1, <1>2 DEF Chained, RegenerateChained, Opens, Room, Elements, Skipping, Opening, Follows,
                    RegenerateFollows
<1>. QED  BY <1>1, <1>3 DEF Run, ListTodo

(* What syncTotals executes.                                               *)
LEMMA SyncRun ==
    /\ Run(SyncTodo, "sumTotals", "writeTotals", 0) /\ Len(SyncTodo) = 2
    /\ Elements(SyncTodo) = {"sumTotals", "writeTotals"}
<1>. PICK t : t = <<"sumTotals", "writeTotals">>
  OBVIOUS
<1>1. t \in Seq(Statements) /\ Len(t) = 2 /\ t[1] = "sumTotals" /\ t[2] = "writeTotals"
  BY DEF Statements
<1>2. 1..2 = {1, 2}
  OBVIOUS
<1>3. /\ Chained(t) /\ Opens(t) /\ Room(t, 0) /\ Elements(t) = {"sumTotals", "writeTotals"}
  BY <1>1, <1>2 DEF Chained, Opens, Room, Elements, Skipping, Opening, Follows, RegenerateFollows
<1>. QED  BY <1>1, <1>3 DEF Run, SyncTodo

(* What regenerateSchedule executes, and the statements among it.          *)
Regenerating ==
    {"loadInvestment", "readRows", "deleteUnpaid", "insertRows", "clearEvents", "writeEvents",
     "markOverdue", "chooseNext", "demote", "promote", "writeMeta"}

(* A regeneration reads, deletes, inserts, and refreshes in this order.    *)
LEMMA RegenerateRun ==
    /\ Run(RegenerateTodo, "loadInvestment", "markOverdue", 0) /\ RegenerateChained(RegenerateTodo)
    /\ Elements(RegenerateTodo) = Regenerating
<1>. PICK t : t = <<"loadInvestment", "readRows", "deleteUnpaid", "insertRows">>
  OBVIOUS
<1>1. /\ t \in Seq(Statements) /\ Len(t) = 4 /\ t[1] = "loadInvestment" /\ t[2] = "readRows"
      /\ t[3] = "deleteUnpaid" /\ t[4] = "insertRows"
  BY DEF Statements
<1>2. 1..4 = {1, 2, 3, 4}
  OBVIOUS
<1>3. Chained(t) /\ RegenerateChained(t) /\ Opens(t) /\ Room(t, 4)
  BY <1>1, <1>2 DEF Chained, RegenerateChained, Opens, Room, Skipping, Opening, Follows,
                    RegenerateFollows
<1>4. Elements(t) = {"loadInvestment", "readRows", "deleteUnpaid", "insertRows"}
  BY <1>1, <1>2 DEF Elements
<1>5. Run(t, "loadInvestment", "insertRows", 4)
  BY <1>1, <1>3 DEF Run
<1>. PICK e, f, l : e = EventsTodo /\ f = RefreshTodo /\ l = ListTodo
  OBVIOUS
<1>6. /\ Run(t \o e, "loadInvestment", "writeEvents", 2)
      /\ Elements(t \o e) = Elements(t) \cup Elements(e) /\ RegenerateChained(t \o e)
  <2>1. Run(e, "clearEvents", "writeEvents", 2) /\ Len(e) = 2 /\ 4 <= 2 + 2
        /\ "insertSchedule" \notin Elements(e) /\ RegenerateChained(e)
    BY EventsRun
  <2>2. Follows("insertRows", "clearEvents") /\ RegenerateFollows("insertRows", "clearEvents")
    BY DEF Follows, RegenerateFollows
  <2>3. RegenerateChained(t \o e)
    BY <1>3, <1>5, <2>1, <2>2, JoinedNeighbours DEF Run
  <2>. QED  BY <1>5, <2>1, <2>2, <2>3, RunJoins
<1>7. /\ Run(t \o e \o f, "loadInvestment", "writeMeta", 0)
      /\ Elements(t \o e \o f) = Elements(t \o e) \cup Elements(f) /\ RegenerateChained(t \o e \o f)
  <2>1. Run(f, "markOverdue", "writeMeta", 0) /\ Len(f) = 5 /\ 2 <= 5 + 0
        /\ "insertSchedule" \notin Elements(f) /\ RegenerateChained(f)
    BY RefreshRun
  <2>2. Follows("writeEvents", "markOverdue") /\ RegenerateFollows("writeEvents", "markOverdue")
    BY DEF Follows, RegenerateFollows
  <2>3. RegenerateChained(t \o e \o f)
    BY <1>6, <2>1, <2>2, JoinedNeighbours DEF Run
  <2>. QED  BY <1>6, <2>1, <2>2, <2>3, RunJoins
<1>8. /\ Run(t \o e \o f \o l, "loadInvestment", "markOverdue", 0)
      /\ Elements(t \o e \o f \o l) = Elements(t \o e \o f) \cup Elements(l)
      /\ RegenerateChained(t \o e \o f \o l)
  <2>1. Run(l, "loadInvestment", "markOverdue", 0) /\ Len(l) = 2 /\ 0 <= 2 + 0
        /\ "insertSchedule" \notin Elements(l) /\ RegenerateChained(l)
    BY ListRun
  <2>2. Follows("writeMeta", "loadInvestment") /\ RegenerateFollows("writeMeta", "loadInvestment")
    BY DEF Follows, RegenerateFollows
  <2>3. RegenerateChained(t \o e \o f \o l)
    BY <1>7, <2>1, <2>2, JoinedNeighbours DEF Run
  <2>. QED  BY <1>7, <2>1, <2>2, <2>3, RunJoins
<1>9. Elements(t \o e \o f \o l) = Regenerating
  BY <1>4, <1>6, <1>7, <1>8, EventsRun, RefreshRun, ListRun, Zenon DEF Regenerating
<1>10. RegenerateTodo = t \o e \o f \o l
  BY Zenon DEF RegenerateTodo
<1>. QED  BY <1>8, <1>9, <1>10

(* A statement by itself.                                                  *)
LEMMA SingleRun ==
    ASSUME NEW a \in Statements \ (Skipping \cup {"insertSchedule"}), NEW free \in Nat
    PROVE  Run(<<a>>, a, a, free) /\ Elements(<<a>>) = {a} /\ Len(<<a>>) = 1
<1>. PICK t : t = <<a>>
  OBVIOUS
<1>1. t \in Seq(Statements) /\ Len(t) = 1 /\ t[1] = a /\ 1..1 = {1}
  OBVIOUS
<1>2. Chained(t) /\ Opens(t) /\ Room(t, free) /\ Elements(t) = {a}
  BY <1>1 DEF Chained, Opens, Room, Elements
<1>. QED  BY <1>1, <1>2 DEF Run

(* What create executes.                                                   *)
CreateTodo ==
    <<"loadInvestor", "insertInvestment", "loadInvestment", "deleteAll", "insertSchedule">>
        \o EventsTodo \o RefreshTodo \o ListTodo \o SyncTodo

(* Create inserts the loan, deletes nothing and inserts its rows.          *)
LEMMA CreateRun ==
    /\ Run(CreateTodo, "loadInvestor", "writeTotals", 0)
    /\ Elements(CreateTodo) = Opening \cup Elements(EventsTodo) \cup Elements(RefreshTodo)
                                 \cup Elements(ListTodo) \cup Elements(SyncTodo)
<1>. PICK t : t = <<"loadInvestor", "insertInvestment", "loadInvestment", "deleteAll",
                    "insertSchedule">>
  OBVIOUS
<1>1. /\ t \in Seq(Statements) /\ Len(t) = 5 /\ t[1] = "loadInvestor" /\ t[2] = "insertInvestment"
      /\ t[3] = "loadInvestment" /\ t[4] = "deleteAll" /\ t[5] = "insertSchedule"
  BY DEF Statements
<1>2. 1..5 = {1, 2, 3, 4, 5}
  OBVIOUS
<1>3. Chained(t) /\ Room(t, 4)
  BY <1>1, <1>2 DEF Chained, Room, Skipping, Follows, RegenerateFollows
<1>4. Elements(t) = Opening
  BY <1>1, <1>2 DEF Elements, Opening
<1>5. Opens(t)
  <2>. SUFFICES ASSUME NEW k \in 1..Len(t), NEW j \in 1..k PROVE t[j] \in Opening
    BY DEF Opens
  <2>1. j \in 1..5
    BY <1>1
  <2>. QED  BY <1>1, <1>4, <2>1 DEF Elements
<1>6. Run(t, "loadInvestor", "insertSchedule", 4)
  BY <1>1, <1>3, <1>5 DEF Run
<1>. PICK e, f, l, y : e = EventsTodo /\ f = RefreshTodo /\ l = ListTodo /\ y = SyncTodo
  OBVIOUS
<1>7. /\ Run(t \o e, "loadInvestor", "writeEvents", 2)
      /\ Elements(t \o e) = Elements(t) \cup Elements(e)
  <2>1. Run(e, "clearEvents", "writeEvents", 2) /\ Len(e) = 2 /\ 4 <= 2 + 2
        /\ "insertSchedule" \notin Elements(e)
    BY EventsRun
  <2>2. Follows("insertSchedule", "clearEvents")
    BY DEF Follows
  <2>. QED  BY <1>6, <2>1, <2>2, RunJoins
<1>8. /\ Run(t \o e \o f, "loadInvestor", "writeMeta", 0)
      /\ Elements(t \o e \o f) = Elements(t \o e) \cup Elements(f)
  <2>1. Run(f, "markOverdue", "writeMeta", 0) /\ Len(f) = 5 /\ 2 <= 5 + 0
        /\ "insertSchedule" \notin Elements(f)
    BY RefreshRun
  <2>2. Follows("writeEvents", "markOverdue")
    BY DEF Follows, RegenerateFollows
  <2>. QED  BY <1>7, <2>1, <2>2, RunJoins
<1>9. /\ Run(t \o e \o f \o l, "loadInvestor", "markOverdue", 0)
      /\ Elements(t \o e \o f \o l) = Elements(t \o e \o f) \cup Elements(l)
  <2>1. Run(l, "loadInvestment", "markOverdue", 0) /\ Len(l) = 2 /\ 0 <= 2 + 0
        /\ "insertSchedule" \notin Elements(l)
    BY ListRun
  <2>2. Follows("writeMeta", "loadInvestment")
    BY DEF Follows, RegenerateFollows
  <2>. QED  BY <1>8, <2>1, <2>2, RunJoins
<1>10. /\ Run(t \o e \o f \o l \o y, "loadInvestor", "writeTotals", 0)
       /\ Elements(t \o e \o f \o l \o y) = Elements(t \o e \o f \o l) \cup Elements(y)
  <2>1. Run(y, "sumTotals", "writeTotals", 0) /\ Len(y) = 2 /\ 0 <= 2 + 0
        /\ "insertSchedule" \notin Elements(y)
    BY SyncRun
  <2>2. Follows("markOverdue", "sumTotals")
    BY DEF Follows
  <2>. QED  BY <1>9, <2>1, <2>2, RunJoins
<1>11. CreateTodo = t \o e \o f \o l \o y
  BY Zenon DEF CreateTodo
<1>. QED  BY <1>4, <1>7, <1>8, <1>9, <1>10, <1>11, Zenon

(* A statement that writes the document, after it was found.               *)
LEMMA FoundRun ==
    ASSUME NEW a \in {"writeTerms", "writeStatus", "softDelete"}
    PROVE  /\ Run(<<"loadInvestment", a>>, "loadInvestment", a, 0)
           /\ Elements(<<"loadInvestment", a>>) = {"loadInvestment", a}
<1>. PICK t : t = <<"loadInvestment", a>>
  OBVIOUS
<1>1. t \in Seq(Statements) /\ Len(t) = 2 /\ t[1] = "loadInvestment" /\ t[2] = a /\ 1..2 = {1, 2}
  BY DEF Statements
<1>2. Chained(t) /\ Opens(t) /\ Room(t, 0) /\ Elements(t) = {"loadInvestment", a}
  BY <1>1 DEF Chained, Opens, Room, Elements, Skipping, Opening, Follows, RegenerateFollows
<1>. QED  BY <1>1, <1>2 DEF Run

(* A list that ends with syncTotals.                                       *)
LEMMA SyncedRun ==
    ASSUME NEW t, NEW a, NEW b, Run(t, a, b, 0), Follows(b, "sumTotals")
    PROVE  /\ Run(t \o SyncTodo, a, "writeTotals", 0)
           /\ Elements(t \o SyncTodo) = Elements(t) \cup {"sumTotals", "writeTotals"}
<1>. PICK y : y = SyncTodo
  OBVIOUS
<1>1. /\ Run(y, "sumTotals", "writeTotals", 0) /\ Len(y) = 2 /\ 0 <= 2 + 0 /\ 0 \in Nat
      /\ "insertSchedule" \notin Elements(y) /\ Elements(y) = {"sumTotals", "writeTotals"}
  BY SyncRun
<1>. QED  BY <1>1, RunJoins

(* What update executes: the terms, a regeneration, the totals.            *)
UpdateTodo == <<"loadInvestment", "writeTerms">> \o RegenerateTodo \o SyncTodo

(* An update writes the terms it regenerates from.                         *)
LEMMA UpdateRun ==
    /\ Run(UpdateTodo, "loadInvestment", "writeTotals", 0)
    /\ Elements(UpdateTodo) = Regenerating \cup {"writeTerms", "sumTotals", "writeTotals"}
<1>. PICK t, g : t = <<"loadInvestment", "writeTerms">> /\ g = RegenerateTodo
  OBVIOUS
<1>1. Run(t, "loadInvestment", "writeTerms", 0) /\ Elements(t) = {"loadInvestment", "writeTerms"}
  BY FoundRun
<1>2. /\ Run(g, "loadInvestment", "markOverdue", 0) /\ 0 <= Len(g) + 0 /\ 0 \in Nat
      /\ "insertSchedule" \notin Elements(g) /\ Elements(g) = Regenerating
  <2>1. Len(g) \in Nat
    BY RegenerateRun DEF Run
  <2>. QED  BY <2>1, RegenerateRun DEF Regenerating
<1>3. Follows("writeTerms", "loadInvestment") /\ Follows("markOverdue", "sumTotals")
  BY DEF Follows
<1>4. /\ Run(t \o g, "loadInvestment", "markOverdue", 0)
      /\ Elements(t \o g) = Elements(t) \cup Elements(g)
  BY <1>1, <1>2, <1>3, RunJoins
<1>5. /\ Run(t \o g \o SyncTodo, "loadInvestment", "writeTotals", 0)
      /\ Elements(t \o g \o SyncTodo) = Elements(t \o g) \cup {"sumTotals", "writeTotals"}
  BY <1>3, <1>4, SyncedRun
<1>6. UpdateTodo = t \o g \o SyncTodo
  BY Zenon DEF UpdateTodo
<1>7. {"loadInvestment", "writeTerms"} \cup Regenerating \cup {"sumTotals", "writeTotals"}
        = Regenerating \cup {"writeTerms", "sumTotals", "writeTotals"}
  BY DEF Regenerating
<1>. QED  BY <1>1, <1>2, <1>4, <1>5, <1>6, <1>7, Zenon

(* What markPaid executes once it has read the row: paying it in full is   *)
(* followed by a refresh, paying part of it by a regeneration.             *)
PaidTodo(tail) ==
    <<"writePayment", "findInvestment">> \o <<"credit">> \o SyncTodo \o <<"announce">> \o tail
CancelledTodo == <<"writeCancelled">> \o RefreshTodo
Paying ==
    {"writePayment", "findInvestment", "credit", "sumTotals", "writeTotals", "announce"}

(* A payment records, credits, announces, and ends with tail.              *)
LEMMA PaidRun ==
    ASSUME NEW tail \in {RefreshTodo, RegenerateTodo}
    PROVE  /\ \E b \in Statements : Run(PaidTodo(tail), "writePayment", b, 0)
           /\ Elements(PaidTodo(tail)) \subseteq Paying \cup Regenerating
<1>0. PICK t, c, y, n : /\ t = <<"writePayment", "findInvestment">> /\ c = <<"credit">>
                        /\ y = SyncTodo /\ n = <<"announce">>
  OBVIOUS
<1>1. /\ t \in Seq(Statements) /\ Len(t) = 2 /\ t[1] = "writePayment" /\ t[2] = "findInvestment"
      /\ 1..2 = {1, 2}
  BY <1>0 DEF Statements
<1>2. Chained(t) /\ Opens(t) /\ Room(t, 4) /\ Elements(t) = {"writePayment", "findInvestment"}
  BY <1>1 DEF Chained, Opens, Room, Elements, Skipping, Opening, Follows, RegenerateFollows
<1>3. Run(t, "writePayment", "findInvestment", 4)
  BY <1>1, <1>2 DEF Run
<1>4. /\ Run(c, "credit", "credit", 3) /\ Elements(c) = {"credit"} /\ 4 <= Len(c) + 3
      /\ Run(n, "announce", "announce", 0) /\ Elements(n) = {"announce"} /\ 1 <= Len(n) + 0
  <2>1. /\ "credit" \in Statements \ (Skipping \cup {"insertSchedule"})
        /\ "announce" \in Statements \ (Skipping \cup {"insertSchedule"}) /\ 3 \in Nat /\ 0 \in Nat
    BY DEF Statements, Skipping
  <2>. QED  BY <1>0, <2>1, SingleRun
<1>5. /\ Run(t \o c, "writePayment", "credit", 3) /\ Elements(t \o c) = Elements(t) \cup Elements(c)
  <2>1. Follows("findInvestment", "credit") /\ "insertSchedule" \notin Elements(c)
    BY <1>4 DEF Follows
  <2>. QED  BY <1>3, <1>4, <2>1, RunJoins
<1>6. /\ Run(t \o c \o y, "writePayment", "writeTotals", 1)
      /\ Elements(t \o c \o y) = Elements(t \o c) \cup Elements(y)
  <2>1. /\ Run(y, "sumTotals", "writeTotals", 1) /\ Len(y) = 2 /\ 3 <= 2 + 1
        /\ "insertSchedule" \notin Elements(y)
    <3>1. Room(y, 1)
      BY <1>0, SyncRun DEF Elements, Skipping, Room
    <3>. QED  BY <1>0, <3>1, SyncRun DEF Run
  <2>2. Follows("credit", "sumTotals") /\ 1 \in Nat /\ 3 \in Nat /\ 3 <= Len(y) + 1
    BY <2>1 DEF Follows
  <2>0. PICK s : s = t \o c
    OBVIOUS
  <2>3. Run(s, "writePayment", "credit", 3)
    BY <1>5, <2>0
  <2>4. Run(s \o y, "writePayment", "writeTotals", 1) /\ Elements(s \o y) = Elements(s) \cup Elements(y)
    BY <2>1, <2>2, <2>3, RunJoins, ZenonT(30)
  <2>. QED  BY <2>0, <2>4
<1>7. /\ Run(t \o c \o y \o n, "writePayment", "announce", 0)
      /\ Elements(t \o c \o y \o n) = Elements(t \o c \o y) \cup Elements(n)
  <2>1. Follows("writeTotals", "announce") /\ "insertSchedule" \notin Elements(n)
    BY <1>4 DEF Follows
  <2>. QED  BY <1>4, <1>6, <2>1, RunJoins
<1>8. PICK a, b : /\ Run(tail, a, b, 0) /\ 0 <= Len(tail) + 0 /\ Follows("announce", a)
                  /\ "insertSchedule" \notin Elements(tail) /\ b \in Statements
                  /\ Elements(tail) \subseteq Regenerating
  <2>1. Follows("announce", "markOverdue") /\ Follows("announce", "loadInvestment")
    BY DEF Follows
  <2>2. "writeMeta" \in Statements /\ "markOverdue" \in Statements
    BY DEF Statements
  <2>3. Len(tail) \in Nat
    BY RefreshRun, RegenerateRun DEF Run
  <2>4. Elements(RefreshTodo) \subseteq Regenerating /\ "insertSchedule" \notin Regenerating
    BY RefreshRun DEF Regenerating
  <2>. QED  BY <2>1, <2>2, <2>3, <2>4, RefreshRun, RegenerateRun
<1>9. /\ Run(t \o c \o y \o n \o tail, "writePayment", b, 0)
      /\ Elements(t \o c \o y \o n \o tail) = Elements(t \o c \o y \o n) \cup Elements(tail)
  BY <1>7, <1>8, RunJoins
<1>10. PaidTodo(tail) = t \o c \o y \o n \o tail
  BY <1>0, Zenon DEF PaidTodo
<1>11. Elements(t \o c \o y \o n) \subseteq Paying
  BY <1>2, <1>4, <1>5, <1>6, <1>7, <1>0, SyncRun DEF Paying
<1>. QED  BY <1>8, <1>9, <1>10, <1>11, Zenon

(* A cancellation writes the row and refreshes.                            *)
LEMMA CancelledRun ==
    /\ Run(CancelledTodo, "writeCancelled", "writeMeta", 0)
    /\ Elements(CancelledTodo) = {"writeCancelled"} \cup Elements(RefreshTodo)
<1>1. "writeCancelled" \in Statements \ (Skipping \cup {"insertSchedule"}) /\ 0 \in Nat
  BY DEF Statements, Skipping
<1>2. Run(<<"writeCancelled">>, "writeCancelled", "writeCancelled", 0)
      /\ Elements(<<"writeCancelled">>) = {"writeCancelled"}
  BY <1>1, SingleRun
<1>3. /\ Run(RefreshTodo, "markOverdue", "writeMeta", 0) /\ 0 <= Len(RefreshTodo) + 0
      /\ "insertSchedule" \notin Elements(RefreshTodo) /\ Follows("writeCancelled", "markOverdue")
  BY RefreshRun DEF Follows
<1>. QED  BY <1>1, <1>2, <1>3, RunJoins DEF CancelledTodo

(* What earlyRepayment executes once it has read the loan.                 *)
EarlyTodo(tail) ==
    <<"deleteUnpaid", "readRows", "insertEarly", "credit", "announce">> \o tail \o SyncTodo
ClearedTodo == <<"deleteUnpaid">> \o RefreshTodo

(* An early repayment inserts its row among the paid ones.                 *)
LEMMA EarlyRun ==
    ASSUME NEW tail \in {RegenerateTodo, ClearedTodo}
    PROVE  /\ Run(EarlyTodo(tail), "deleteUnpaid", "writeTotals", 0)
           /\ Elements(EarlyTodo(tail)) \subseteq
                 {"insertEarly", "credit", "announce", "sumTotals", "writeTotals"} \cup Regenerating
<1>. PICK t : t = <<"deleteUnpaid", "readRows", "insertEarly", "credit", "announce">>
  OBVIOUS
<1>1. /\ t \in Seq(Statements) /\ Len(t) = 5 /\ t[1] = "deleteUnpaid" /\ t[2] = "readRows"
      /\ t[3] = "insertEarly" /\ t[4] = "credit" /\ t[5] = "announce"
  BY DEF Statements
<1>2. 1..5 = {1, 2, 3, 4, 5}
  OBVIOUS
<1>3. Chained(t) /\ Opens(t) /\ Room(t, 0)
  BY <1>1, <1>2 DEF Chained, Opens, Room, Skipping, Opening, Follows, RegenerateFollows
<1>4. Elements(t) = {"deleteUnpaid", "readRows", "insertEarly", "credit", "announce"}
  BY <1>1, <1>2 DEF Elements
<1>5. Run(t, "deleteUnpaid", "announce", 0)
  BY <1>1, <1>3 DEF Run
<1>6. Run(ClearedTodo, "deleteUnpaid", "writeMeta", 0) /\ Elements(ClearedTodo) \subseteq Regenerating
  <2>1. "deleteUnpaid" \in Statements \ (Skipping \cup {"insertSchedule"}) /\ 0 \in Nat
    BY DEF Statements, Skipping
  <2>2. Run(<<"deleteUnpaid">>, "deleteUnpaid", "deleteUnpaid", 0)
        /\ Elements(<<"deleteUnpaid">>) = {"deleteUnpaid"}
    BY <2>1, SingleRun
  <2>3. /\ Run(RefreshTodo, "markOverdue", "writeMeta", 0) /\ 0 <= Len(RefreshTodo) + 0
        /\ "insertSchedule" \notin Elements(RefreshTodo) /\ Follows("deleteUnpaid", "markOverdue")
    BY RefreshRun DEF Follows
  <2>4. /\ Run(ClearedTodo, "deleteUnpaid", "writeMeta", 0)
        /\ Elements(ClearedTodo) = {"deleteUnpaid"} \cup Elements(RefreshTodo)
    BY <2>1, <2>2, <2>3, RunJoins DEF ClearedTodo
  <2>. QED  BY <2>4, RefreshRun DEF Regenerating
<1>7. PICK a, b : /\ Run(tail, a, b, 0) /\ 0 <= Len(tail) + 0 /\ Follows("announce", a)
                  /\ Follows(b, "sumTotals") /\ "insertSchedule" \notin Elements(tail)
                  /\ Elements(tail) \subseteq Regenerating
  <2>1. /\ Follows("announce", "deleteUnpaid") /\ Follows("announce", "loadInvestment")
        /\ Follows("writeMeta", "sumTotals") /\ Follows("markOverdue", "sumTotals")
    BY DEF Follows
  <2>2. Len(tail) \in Nat
    BY <1>6, RegenerateRun DEF Run
  <2>3. "insertSchedule" \notin Regenerating
    BY DEF Regenerating
  <2>. QED  BY <1>6, <2>1, <2>2, <2>3, RegenerateRun
<1>8. /\ Run(t \o tail, "deleteUnpaid", b, 0) /\ Elements(t \o tail) = Elements(t) \cup Elements(tail)
  BY <1>5, <1>7, RunJoins
<1>9. /\ Run(t \o tail \o SyncTodo, "deleteUnpaid", "writeTotals", 0)
      /\ Elements(t \o tail \o SyncTodo) = Elements(t \o tail) \cup {"sumTotals", "writeTotals"}
  BY <1>7, <1>8, SyncedRun
<1>10. EarlyTodo(tail) = t \o tail \o SyncTodo
  BY Zenon DEF EarlyTodo
<1>11. Elements(t \o tail) \cup {"sumTotals", "writeTotals"} \subseteq
          {"insertEarly", "credit", "announce", "sumTotals", "writeTotals"} \cup Regenerating
  BY <1>4, <1>7, <1>8 DEF Regenerating
<1>. QED  BY <1>9, <1>10, <1>11, Zenon

-----------------------------------------------------------------------------
(* A request begins.                                                       *)

(* A request whose list is a run knows what it has to do.                  *)
LEMMA RunKnows ==
    ASSUME NEW q, NEW a, NEW b, Run(q.todo, a, b, 0), q.i \in Investments,
           q.op = "regenerate" => RegenerateChained(q.todo) /\ b = "markOverdue",
           Elements(q.todo) \cap RowReaders # {} => q.row \in Row,
           "insertEarly" \in Elements(q.todo) => q.row.status = "completed",
           Elements(q.todo) \cap StatusWriters # {} => q.status \in Statuses,
           a \in {"loadPayment", "loadOutstanding"} => Len(q.todo) = 1
    PROVE  TodoOK(q)
BY DEF Run, TodoOK

(* The request q, begun in the slot r.                                     *)
LEMMA BeginKeeps ==
    ASSUME RequestsIInv, NEW r \in Slots, NEW q \in RequestRecord, TodoOK(q), q.todo # << >>,
           q.held \subseteq DOMAIN payments[q.i], Begin(r, q)
    PROVE  RequestsIInv'
<1>1. DocumentsTyped' /\ UNCHANGED payments /\ begun' \in 0..MaxRequests
  <2>1. begun' \in 0..MaxRequests
    BY SlotsAssumption DEF Begin, RequestsIInv
  <2>. QED  BY <2>1 DEF Begin, vars, RequestsIInv, DocumentsTyped
<1>2. PICK quiet \in BOOLEAN : quiet = Quiet
  <2>1. Quiet \in BOOLEAN
    BY Zenon DEF Quiet
  <2>. QED  BY <2>1, Zenon
<1>3. PICK new : new = [q EXCEPT !.alone = quiet]
  OBVIOUS
<1>4. /\ new \in RequestRecord /\ new.todo = q.todo /\ new.op = q.op /\ new.i = q.i
      /\ new.row = q.row /\ new.held = q.held /\ new.status = q.status /\ new.alone = quiet
  BY <1>3 DEF RequestRecord
<1>5. TodoOK(new)
  BY <1>4, TodoSame
<1>6. \A p \in Slots :
         requests'[p] = IF p = r THEN new ELSE [requests[p] EXCEPT !.alone = FALSE]
  BY <1>2, <1>3 DEF Begin
<1>7. requests' = [p \in Slots |-> requests'[p]]
  BY DEF Begin
<1>8. ASSUME NEW p \in Slots
      PROVE  /\ requests'[p] \in RequestRecord /\ TodoOK(requests'[p])
             /\ requests'[p].held \subseteq DOMAIN payments'[requests'[p].i]
             /\ requests'[p].todo = << >> => requests'[p].held = {}
             /\ p # r => ~requests'[p].alone /\ requests'[p].todo = requests[p].todo
  <2>1. CASE p = r
    BY <1>1, <1>4, <1>5, <1>6, <2>1
  <2>2. CASE p # r
    <3>1. PICK old \in RequestRecord : old = requests[p]
      BY DEF RequestsIInv, RequestsKnow
    <3>2. /\ TodoOK(old) /\ old.held \subseteq DOMAIN payments[old.i]
          /\ old.todo = << >> => old.held = {}
      BY <3>1 DEF RequestsIInv, RequestsKnow
    <3>3. PICK now : now = [old EXCEPT !.alone = FALSE]
      OBVIOUS
    <3>4. /\ now \in RequestRecord /\ now.todo = old.todo /\ now.op = old.op /\ now.i = old.i
          /\ now.row = old.row /\ now.held = old.held /\ now.status = old.status /\ ~now.alone
      BY <3>3 DEF RequestRecord
    <3>5. TodoOK(now)
      BY <3>2, <3>4, TodoSame
    <3>6. requests'[p] = now
      BY <1>6, <2>2, <3>1, <3>3
    <3>. QED  BY <1>1, <2>2, <3>1, <3>2, <3>4, <3>5, <3>6
  <2>. QED  BY <2>1, <2>2
<1>9. ASSUME NEW p \in Slots, requests'[p].alone, NEW x \in Slots \ {p} PROVE requests'[x].todo = << >>
  <2>1. p = r
    BY <1>8, <1>9
  <2>2. requests'[r] = new
    BY <1>6
  <2>3. quiet
    BY <1>4, <1>9, <2>1, <2>2
  <2>4. requests[x].todo = << >>
    BY <1>2, <2>3 DEF Quiet, InFlight
  <2>. QED  BY <1>8, <1>9, <2>1, <2>4
<1>10. requests' \in [Slots -> RequestRecord]
  BY <1>7, <1>8
<1>. QED  BY <1>1, <1>8, <1>9, <1>10 DEF RequestsIInv, RequestsKnow, InFlight

(* The parameters of the requests; what a new request knows.               *)
LEMMA BegunKnows ==
    ASSUME NEW i \in Investments, NEW q \in RequestRecord, q.i = i
    PROVE  /\ q.op = "create" /\ q.todo = CreateTodo /\ q.status \in Statuses => TodoOK(q)
           /\ q.op = "update" /\ q.todo = UpdateTodo => TodoOK(q)
           /\ /\ q.op = "updateStatus" /\ q.status \in Statuses
              /\ q.todo = <<"loadInvestment", "writeStatus">> \o SyncTodo
              => TodoOK(q)
           /\ q.op = "remove" /\ q.todo = <<"loadInvestment", "softDelete">> \o SyncTodo => TodoOK(q)
           /\ q.op = "regenerate" /\ q.todo = RegenerateTodo => TodoOK(q)
           /\ q.op \in {"markPaid", "cancel"} /\ q.todo = <<"loadPayment">> => TodoOK(q)
           /\ q.op = "early" /\ q.todo = <<"loadOutstanding">> => TodoOK(q)
           /\ q.op = "list" /\ q.todo = ListTodo => TodoOK(q)
<1>1. ASSUME q.op = "create", q.todo = CreateTodo, q.status \in Statuses PROVE TodoOK(q)
  <2>1. Elements(CreateTodo) \cap RowReaders = {}
    BY CreateRun, EventsRun, RefreshRun, ListRun, SyncRun DEF Opening, RowReaders
  <2>. QED  BY <1>1, <2>1, CreateRun, RunKnows DEF RowReaders
<1>2. ASSUME q.op = "update", q.todo = UpdateTodo PROVE TodoOK(q)
  <2>1. Elements(UpdateTodo) \cap (RowReaders \cup StatusWriters) = {}
    BY UpdateRun DEF Regenerating, RowReaders, StatusWriters
  <2>. QED  BY <1>2, <2>1, UpdateRun, RunKnows DEF RowReaders
<1>3. ASSUME q.op \in {"updateStatus", "remove"}, NEW a \in {"writeStatus", "softDelete"},
             q.todo = <<"loadInvestment", a>> \o SyncTodo,
             a = "writeStatus" => q.status \in Statuses
      PROVE  TodoOK(q)
  <2>1. PICK t : t = <<"loadInvestment", a>>
    OBVIOUS
  <2>2. Run(t, "loadInvestment", a, 0) /\ Elements(t) = {"loadInvestment", a}
    BY <2>1, FoundRun
  <2>3. /\ Run(t \o SyncTodo, "loadInvestment", "writeTotals", 0)
        /\ Elements(t \o SyncTodo) = Elements(t) \cup {"sumTotals", "writeTotals"}
    BY <2>2, SyncedRun DEF Follows
  <2>4. q.todo = t \o SyncTodo
    BY <1>3, <2>1
  <2>5. Elements(q.todo) \cap RowReaders = {} /\ "insertEarly" \notin Elements(q.todo)
    BY <2>2, <2>3, <2>4 DEF RowReaders
  <2>6. Elements(q.todo) \cap StatusWriters # {} => q.status \in Statuses
    BY <1>3, <2>2, <2>3, <2>4 DEF StatusWriters
  <2>. QED  BY <1>3, <2>3, <2>4, <2>5, <2>6, RunKnows
<1>4. ASSUME q.op = "regenerate", q.todo = RegenerateTodo PROVE TodoOK(q)
  <2>1. Elements(RegenerateTodo) \cap (RowReaders \cup StatusWriters) = {}
    BY RegenerateRun DEF Regenerating, RowReaders, StatusWriters
  <2>. QED  BY <1>4, <2>1, RegenerateRun, RunKnows DEF RowReaders
<1>5. ASSUME q.op \in {"markPaid", "cancel", "early"}, NEW a \in {"loadPayment", "loadOutstanding"},
             q.todo = <<a>>
      PROVE  TodoOK(q)
  <2>1. a \in Statements \ (Skipping \cup {"insertSchedule"}) /\ 0 \in Nat
    BY DEF Statements, Skipping
  <2>2. Run(q.todo, a, a, 0) /\ Elements(q.todo) = {a} /\ Len(q.todo) = 1
    BY <1>5, <2>1, SingleRun
  <2>3. {a} \cap (RowReaders \cup StatusWriters) = {} /\ a # "insertEarly"
    BY DEF RowReaders, StatusWriters
  <2>. QED  BY <1>5, <2>2, <2>3, RunKnows
<1>6. ASSUME q.op = "list", q.todo = ListTodo PROVE TodoOK(q)
  <2>1. Elements(ListTodo) \cap (RowReaders \cup StatusWriters) = {}
    BY ListRun DEF RowReaders, StatusWriters
  <2>. QED  BY <1>6, <2>1, ListRun, RunKnows DEF RowReaders
<1>. QED  BY <1>1, <1>2, <1>3, <1>4, <1>5, <1>6

(* Every request that begins.                                              *)
LEMMA BeginsKeep ==
    ASSUME RequestsIInv, NEW r \in Slots, NEW i \in Investments, Begins(r, i)
    PROVE  RequestsIInv'
<1>1. PICK idle \in RequestRecord : idle = Idle /\ idle.held = {}
  BY IdleKnows DEF Idle
<1>2. PICK absent \in InvestmentDoc : absent = Absent
  <2>1. Idle.inv = Absent
    BY DEF Idle
  <2>2. Absent \in InvestmentDoc
    BY <2>1, IdleKnows DEF RequestRecord
  <2>. QED  BY <2>2
<1>3. StatusInputs \subseteq Statuses /\ Amounts \subseteq Nat /\ InterestPortions \subseteq Nat
      /\ MaxSeq \in Nat
  BY BoundsAssumption
<1>4. ASSUME NEW v \in Investors, NEW t \in Terms, NEW status \in StatusInputs,
             BeginCreate(r, i, v, t, status)
      PROVE  RequestsIInv'
  <2>1. PICK inv \in InvestmentDoc : inv = [absent EXCEPT !.investor = v]
    BY DEF InvestmentDoc
  <2>2. CreateTodo \in Seq(Statements) /\ CreateTodo # << >>
    BY CreateRun DEF Run
  <2>3. PICK todo \in Seq(Statements) : todo = CreateTodo
    BY <2>2
  <2>4. PICK q : q = [idle EXCEPT !.op = "create", !.i = i, !.terms = t, !.status = status,
                                  !.inv = inv, !.todo = todo]
    OBVIOUS
  <2>5. /\ q \in RequestRecord /\ q.op = "create" /\ q.i = i /\ q.status = status /\ q.todo = todo
        /\ q.held = {}
    BY <1>1, <1>3, <2>4, ZenonT(60) DEF RequestRecord, Ops
  <2>6. Begin(r, q)
    BY <1>1, <1>2, <1>4, <2>1, <2>3, <2>4 DEF BeginCreate, CreateTodo
  <2>. QED  BY <1>3, <2>2, <2>3, <2>5, <2>6, BegunKnows, BeginKeeps
<1>5. ASSUME NEW t \in Terms, NEW repriced \in BOOLEAN, NEW status \in StatusInputs \cup {"none"},
             BeginUpdate(r, i, t, repriced, status)
      PROVE  RequestsIInv'
  <2>2. UpdateTodo \in Seq(Statements) /\ UpdateTodo # << >>
    BY UpdateRun DEF Run
  <2>3. PICK todo \in Seq(Statements) : todo = UpdateTodo
    BY <2>2
  <2>4. PICK q : q = [idle EXCEPT !.op = "update", !.i = i, !.terms = t, !.repriced = repriced,
                                  !.status = status, !.todo = todo]
    OBVIOUS
  <2>5. q \in RequestRecord /\ q.op = "update" /\ q.i = i /\ q.todo = todo /\ q.held = {}
    BY <1>1, <1>3, <2>4, ZenonT(60) DEF RequestRecord, Ops
  <2>6. Begin(r, q)
    BY <1>1, <1>5, <2>3, <2>4 DEF BeginUpdate, UpdateTodo
  <2>. QED  BY <2>2, <2>3, <2>5, <2>6, BegunKnows, BeginKeeps
<1>6. ASSUME NEW status \in StatusInputs, BeginUpdateStatus(r, i, status) PROVE RequestsIInv'
  <2>2. /\ <<"loadInvestment", "writeStatus">> \o SyncTodo \in Seq(Statements)
        /\ <<"loadInvestment", "writeStatus">> \o SyncTodo # << >>
    BY FoundRun, SyncedRun DEF Run, Follows
  <2>3. PICK todo \in Seq(Statements) : todo = <<"loadInvestment", "writeStatus">> \o SyncTodo
    BY <2>2
  <2>4. PICK q : q = [idle EXCEPT !.op = "updateStatus", !.i = i, !.status = status, !.todo = todo]
    OBVIOUS
  <2>5. /\ q \in RequestRecord /\ q.op = "updateStatus" /\ q.i = i /\ q.status = status
        /\ q.todo = todo /\ q.held = {}
    BY <1>1, <1>3, <2>4, ZenonT(60) DEF RequestRecord, Ops
  <2>6. Begin(r, q)
    BY <1>1, <1>6, <2>3, <2>4 DEF BeginUpdateStatus
  <2>. QED  BY <1>3, <2>2, <2>3, <2>5, <2>6, BegunKnows, BeginKeeps
<1>7. ASSUME BeginRemove(r, i) PROVE RequestsIInv'
  <2>2. /\ <<"loadInvestment", "softDelete">> \o SyncTodo \in Seq(Statements)
        /\ <<"loadInvestment", "softDelete">> \o SyncTodo # << >>
    BY FoundRun, SyncedRun DEF Run, Follows
  <2>3. PICK todo \in Seq(Statements) : todo = <<"loadInvestment", "softDelete">> \o SyncTodo
    BY <2>2
  <2>4. PICK q : q = [idle EXCEPT !.op = "remove", !.i = i, !.todo = todo]
    OBVIOUS
  <2>5. q \in RequestRecord /\ q.op = "remove" /\ q.i = i /\ q.todo = todo /\ q.held = {}
    BY <1>1, <2>4 DEF RequestRecord, Ops
  <2>6. Begin(r, q)
    BY <1>1, <1>7, <2>3, <2>4 DEF BeginRemove
  <2>. QED  BY <2>2, <2>3, <2>5, <2>6, BegunKnows, BeginKeeps
<1>8. ASSUME BeginRegenerate(r, i) PROVE RequestsIInv'
  <2>2. RegenerateTodo \in Seq(Statements) /\ RegenerateTodo # << >>
    BY RegenerateRun DEF Run
  <2>3. PICK todo \in Seq(Statements) : todo = RegenerateTodo
    BY <2>2
  <2>4. PICK q : q = [idle EXCEPT !.op = "regenerate", !.i = i, !.todo = todo]
    OBVIOUS
  <2>5. q \in RequestRecord /\ q.op = "regenerate" /\ q.i = i /\ q.todo = todo /\ q.held = {}
    BY <1>1, <2>4 DEF RequestRecord, Ops
  <2>6. Begin(r, q)
    BY <1>1, <1>8, <2>3, <2>4 DEF BeginRegenerate
  <2>. QED  BY <2>2, <2>3, <2>5, <2>6, BegunKnows, BeginKeeps
<1>9. ASSUME NEW s \in 1..MaxSeq, NEW amount \in Amounts \cup {0}, BeginMarkPaid(r, i, s, amount)
      PROVE  RequestsIInv'
  <2>2. <<"loadPayment">> \in Seq(Statements) /\ <<"loadPayment">> # << >>
    BY DEF Statements
  <2>3. PICK todo \in Seq(Statements) : todo = <<"loadPayment">>
    BY <2>2
  <2>7. s \in Nat /\ \A n \in {s} : n \in 1..MaxSeq
    BY <1>3
  <2>1. PICK known \in SUBSET (1..MaxSeq) : known = {s}
    BY <2>7, Zenon
  <2>4. PICK q : q = [idle EXCEPT !.op = "markPaid", !.i = i, !.s = s, !.amount = amount,
                                  !.held = known, !.todo = todo]
    OBVIOUS
  <2>8. amount \in Nat
    BY <1>3
  <2>5. q \in RequestRecord /\ q.op = "markPaid" /\ q.i = i /\ q.todo = todo /\ q.held = known
    BY <1>1, <1>3, <2>1, <2>4, <2>7, <2>8, ZenonT(60) DEF RequestRecord, Ops
  <2>6. Begin(r, q) /\ s \in DOMAIN payments[i]
    BY <1>1, <1>9, <2>1, <2>3, <2>4 DEF BeginMarkPaid
  <2>. QED  BY <2>1, <2>2, <2>3, <2>5, <2>6, BegunKnows, BeginKeeps
<1>10. ASSUME NEW s \in 1..MaxSeq, BeginCancel(r, i, s) PROVE RequestsIInv'
  <2>2. <<"loadPayment">> \in Seq(Statements) /\ <<"loadPayment">> # << >>
    BY DEF Statements
  <2>3. PICK todo \in Seq(Statements) : todo = <<"loadPayment">>
    BY <2>2
  <2>7. s \in Nat /\ \A n \in {s} : n \in 1..MaxSeq
    BY <1>3
  <2>1. PICK known \in SUBSET (1..MaxSeq) : known = {s}
    BY <2>7, Zenon
  <2>4. PICK q : q = [idle EXCEPT !.op = "cancel", !.i = i, !.s = s, !.held = known, !.todo = todo]
    OBVIOUS
  <2>5. q \in RequestRecord /\ q.op = "cancel" /\ q.i = i /\ q.todo = todo /\ q.held = known
    BY <1>1, <1>3, <2>1, <2>4, <2>7, ZenonT(60) DEF RequestRecord, Ops
  <2>6. Begin(r, q) /\ s \in DOMAIN payments[i]
    BY <1>1, <1>10, <2>1, <2>3, <2>4 DEF BeginCancel
  <2>. QED  BY <2>1, <2>2, <2>3, <2>5, <2>6, BegunKnows, BeginKeeps
<1>11. ASSUME NEW amount \in Amounts, NEW portion \in InterestPortions,
              BeginEarlyRepayment(r, i, amount, portion)
       PROVE  RequestsIInv'
  <2>2. <<"loadOutstanding">> \in Seq(Statements) /\ <<"loadOutstanding">> # << >>
    BY DEF Statements
  <2>3. PICK todo \in Seq(Statements) : todo = <<"loadOutstanding">>
    BY <2>2
  <2>4. PICK q : q = [idle EXCEPT !.op = "early", !.i = i, !.amount = amount, !.portion = portion,
                                  !.todo = todo]
    OBVIOUS
  <2>5. q \in RequestRecord /\ q.op = "early" /\ q.i = i /\ q.todo = todo /\ q.held = {}
    BY <1>1, <1>3, <2>4, ZenonT(60) DEF RequestRecord, Ops
  <2>6. Begin(r, q)
    BY <1>1, <1>11, <2>3, <2>4 DEF BeginEarlyRepayment
  <2>. QED  BY <2>2, <2>3, <2>5, <2>6, BegunKnows, BeginKeeps
<1>12. ASSUME BeginList(r, i) PROVE RequestsIInv'
  <2>2. ListTodo \in Seq(Statements) /\ ListTodo # << >>
    BY ListRun DEF Run
  <2>3. PICK todo \in Seq(Statements) : todo = ListTodo
    BY <2>2
  <2>4. PICK q : q = [idle EXCEPT !.op = "list", !.i = i, !.todo = todo]
    OBVIOUS
  <2>5. q \in RequestRecord /\ q.op = "list" /\ q.i = i /\ q.todo = todo /\ q.held = {}
    BY <1>1, <2>4 DEF RequestRecord, Ops
  <2>6. Begin(r, q)
    BY <1>1, <1>12, <2>3, <2>4 DEF BeginList
  <2>. QED  BY <2>2, <2>3, <2>5, <2>6, BegunKnows, BeginKeeps
<1>. QED  BY <1>4, <1>5, <1>6, <1>7, <1>8, <1>9, <1>10, <1>11, <1>12
          DEF Begins, Creates, Edits, Services

-----------------------------------------------------------------------------
(* The statements.                                                         *)

(* The statements that only read.                                          *)
LEMMA ReadersKeep ==
    ASSUME RequestsIInv, NEW r \in Slots,
           \/ LoadInvestment(r) \/ LoadInvestor(r) \/ ReadRows(r) \/ ChooseNext(r) \/ SumTotals(r)
    PROVE  RequestsIInv'
<1>1. InFlight(r)
  BY DEF LoadInvestment, LoadInvestor, ReadRows, ChooseNext, SumTotals, Doing
<1>2. PICK q \in RequestRecord : q = requests[r]
  BY <1>1, FlightHas
<1>3. /\ q.i \in Investments /\ payments[q.i] \in AllRows /\ investments[q.i] \in InvestmentDoc
      /\ q.held \subseteq DOMAIN payments[q.i] /\ DOMAIN payments[q.i] \subseteq 1..MaxSeq
  BY <1>1, <1>2, FlightHas DEF RequestsIInv, DocumentsTyped, IsRows
<1>4. CASE LoadInvestment(r)
  <2>1. PICK doc \in InvestmentDoc : doc = investments[q.i]
    BY <1>3
  <2>2. PICK p : p = [q EXCEPT !.inv = doc]
    OBVIOUS
  <2>3. SameRequest(p, q) /\ p.held = q.held
    BY <2>2 DEF SameRequest, RequestRecord
  <2>4. Rejects(r) \/ Reads(r, p)
    BY <1>2, <1>4, <2>1, <2>2 DEF LoadInvestment
  <2>. QED  BY <1>1, <1>2, <1>3, <2>3, <2>4, ReadsKeep DEF SameRequest
<1>5. CASE LoadInvestor(r)
  <2>1. SameRequest(q, q)
    BY DEF SameRequest
  <2>2. Rejects(r) \/ Reads(r, q)
    BY <1>2, <1>5 DEF LoadInvestor
  <2>. QED  BY <1>1, <1>2, <1>3, <2>1, <2>2, ReadsKeep
<1>6. CASE ReadRows(r)
  <2>1. PICK rows \in AllRows : rows = payments[q.i]
    BY <1>3
  <2>2. PICK p : p = [q EXCEPT !.rows = rows]
    OBVIOUS
  <2>3. SameRequest(p, q) /\ p.held = q.held
    BY <2>2 DEF SameRequest, RequestRecord
  <2>4. Reads(r, p)
    BY <1>2, <1>6, <2>1, <2>2 DEF ReadRows
  <2>. QED  BY <1>1, <1>2, <1>3, <2>3, <2>4, ReadsKeep DEF SameRequest
<1>7. CASE ChooseNext(r)
  <2>1. PICK rows \in AllRows : rows = payments[q.i]
    BY <1>3
  <2>5. PICK known \in SUBSET (1..MaxSeq) : known = DOMAIN payments[q.i]
    BY <1>3
  <2>2. PICK p : p = [q EXCEPT !.rows = rows, !.held = known]
    OBVIOUS
  <2>3. SameRequest(p, q) /\ p.held = known
    BY <2>2 DEF SameRequest, RequestRecord
  <2>4. Reads(r, p)
    BY <1>2, <1>7, <2>1, <2>2, <2>5 DEF ChooseNext
  <2>. QED  BY <1>1, <1>2, <1>3, <2>3, <2>4, <2>5, ReadsKeep DEF SameRequest
<1>8. CASE SumTotals(r)
  <2>1. PICK sums \in Nat \X Nat : sums = <<TotalInvested(investments, q.inv.investor),
                                            TotalOutstanding(investments, q.inv.investor)>>
    <3>1. investments \in [Investments -> InvestmentDoc]
      BY DEF RequestsIInv, DocumentsTyped
    <3>. QED  BY <3>1, TotalsAreNatural
  <2>2. PICK p : p = [q EXCEPT !.sums = sums]
    OBVIOUS
  <2>3. SameRequest(p, q) /\ p.held = q.held
    BY <2>2 DEF SameRequest, RequestRecord
  <2>4. Reads(r, p)
    BY <1>2, <1>8, <2>1, <2>2 DEF SumTotals
  <2>. QED  BY <1>1, <1>2, <1>3, <2>3, <2>4, ReadsKeep DEF SameRequest
<1>. QED  BY <1>4, <1>5, <1>6, <1>7, <1>8

(* The rows a request deletes are known to no request any more.            *)
LEMMA DeletesKeep ==
    ASSUME RequestsIInv, NEW r \in Slots, DeleteUnpaid(r) \/ DeleteAll(r)
    PROVE  RequestsIInv'
<1>1. InFlight(r)
  BY DEF DeleteUnpaid, DeleteAll, Doing
<1>0. PICK gone : DeletesRows(r, gone)
  BY DEF DeleteUnpaid, DeleteAll
<1>2. PICK i \in Investments : i = requests[r].i /\ DeletesRows(r, gone)
  BY <1>1, <1>0, FlightHas
<1>3. PICK left : left = [s \in DOMAIN payments[i] \ gone |-> payments[i][s]]
  OBVIOUS
<1>4. IsRows(left) /\ DOMAIN left = DOMAIN payments[i] \ gone
  BY <1>1, <1>2, <1>3, FlightHas DEF IsRows
<1>5. /\ DocumentsTyped' /\ payments'[i] = left
      /\ \A j \in Investments \ {i} : payments'[j] = payments[j]
  <2>1. WritesRows(i, left)
    BY <1>2, <1>3 DEF DeletesRows
  <2>. QED  BY <1>4, <2>1, RowsWrite DEF RequestsIInv
<1>. DEFINE Known(p) == IF requests[p].i = i THEN requests[p].held \ gone ELSE requests[p].held
            Kept(p)  == [requests[p] EXCEPT !.held = Known(p)]
<1>6. \A p \in Slots : requests'[p] = IF p = r THEN Advanced(Kept(p)) ELSE Kept(p)
  BY <1>2 DEF DeletesRows
<1>7. requests' = [p \in Slots |-> requests'[p]] /\ begun' = begun
  BY <1>2 DEF DeletesRows
<1>8. ASSUME NEW p \in Slots
      PROVE  /\ Kept(p) \in RequestRecord /\ TodoOK(Kept(p)) /\ Kept(p).todo = requests[p].todo
             /\ Kept(p).i = requests[p].i /\ Kept(p).alone = requests[p].alone
             /\ Kept(p).held \subseteq DOMAIN payments'[Kept(p).i]
             /\ Kept(p).todo = << >> => Kept(p).held = {}
  <2>1. PICK old \in RequestRecord : old = requests[p]
    BY DEF RequestsIInv, RequestsKnow
  <2>2. /\ TodoOK(old) /\ old.held \subseteq DOMAIN payments[old.i]
        /\ old.todo = << >> => old.held = {}
    BY <2>1 DEF RequestsIInv, RequestsKnow
  <2>9. old.held \in SUBSET (1..MaxSeq)
    BY DEF RequestRecord
  <2>10. Known(p) \subseteq old.held
    BY <2>1
  <2>3. PICK known \in SUBSET (1..MaxSeq) : known = Known(p) /\ known \subseteq old.held
    <3>. HIDE DEF Known
    <3>. QED  BY <2>9, <2>10
  <2>4. PICK kept : kept = [old EXCEPT !.held = known]
    OBVIOUS
  <2>5. /\ kept \in RequestRecord /\ kept.todo = old.todo /\ kept.op = old.op /\ kept.i = old.i
        /\ kept.row = old.row /\ kept.held = known /\ kept.status = old.status
        /\ kept.alone = old.alone
    BY <2>4 DEF RequestRecord
  <2>6. TodoOK(kept)
    BY <2>2, <2>5, TodoSame
  <2>7. known \subseteq DOMAIN payments'[old.i]
    <3>1. CASE old.held = {}
      BY <2>3, <3>1
    <3>2. CASE old.i = i
      BY <1>4, <1>5, <2>1, <2>2, <2>3, <3>2
    <3>3. CASE old.i \in Investments \ {i}
      BY <1>5, <2>2, <2>3, <3>3
    <3>4. old.held = {} \/ old.i \in Investments
      BY <2>1, <2>2, FlightHas DEF InFlight
    <3>. QED  BY <3>1, <3>2, <3>3, <3>4
  <2>8. Kept(p) = kept
    BY <2>1, <2>3, <2>4
  <2>. HIDE DEF Kept, Known
  <2>. QED  BY <2>1, <2>2, <2>3, <2>5, <2>6, <2>7, <2>8
<1>. HIDE DEF Kept, Known
<1>9. /\ Advanced(Kept(r)) \in RequestRecord /\ TodoOK(Advanced(Kept(r)))
      /\ Advanced(Kept(r)).held \subseteq DOMAIN payments'[Advanced(Kept(r)).i]
      /\ Advanced(Kept(r)).todo = << >> => Advanced(Kept(r)).held = {}
      /\ Advanced(Kept(r)).alone => requests[r].alone
  <2>1. Len(Kept(r).todo) > 0
    BY <1>1, <1>8, FlightHas
  <2>. QED  BY <1>8, <2>1, AdvancedKnows
<1>10. ASSUME NEW p \in Slots
       PROVE  /\ requests'[p] \in RequestRecord /\ TodoOK(requests'[p])
              /\ requests'[p].held \subseteq DOMAIN payments'[requests'[p].i]
              /\ requests'[p].todo = << >> => requests'[p].held = {}
              /\ requests'[p].alone => requests[p].alone
              /\ p # r => requests'[p].todo = requests[p].todo
  BY <1>6, <1>8, <1>9
<1>11. ASSUME NEW p \in Slots, requests'[p].alone, NEW x \in Slots \ {p}
       PROVE  requests'[x].todo = << >>
  <2>1. requests[p].alone
    BY <1>10, <1>11
  <2>2. requests[x].todo = << >> /\ p = r
    BY <1>1, <1>11, <2>1 DEF RequestsIInv, RequestsKnow, InFlight
  <2>. QED  BY <1>10, <1>11, <2>2
<1>12. requests' \in [Slots -> RequestRecord] /\ begun' \in 0..MaxRequests
  BY <1>7, <1>10 DEF RequestsIInv
<1>. QED  BY <1>5, <1>10, <1>11, <1>12 DEF RequestsIInv, RequestsKnow, InFlight

(* insertMany leaves the request with the same statements or without the   *)
(* two that write the timeline, or ends it.                                *)
LEMMA InsertsLeave ==
    ASSUME RequestsIInv, NEW r \in Slots, InFlight(r), NEW q \in RequestRecord, q = requests[r],
           q.todo[1] \in Skipping, NEW new, IsRows(new), InsertsRows(r, new)
    PROVE  \/ Ends(r)
           \/ \E p \in RequestRecord :
                 /\ TodoOK(p) /\ Len(p.todo) > 0 /\ p.i = q.i /\ p.op = q.op
                 /\ p.held = q.held /\ p.alone = q.alone
                 /\ Later(p.todo, q.todo)
                 /\ p.todo = q.todo \/ p.todo = SubSeq(q.todo, 3, Len(q.todo))
                 /\ Goes(r, p)
<1>1. TodoOK(q) /\ q.todo \in Seq(Statements) /\ Len(q.todo) > 0
  BY FlightHas
<1>2. PICK fresh \in SUBSET (1..MaxSeq) : fresh = DOMAIN new
  BY DEF IsRows
<1>3. PICK rest : rest = SubSeq(q.todo, 3, Len(q.todo))
  OBVIOUS
<1>4. rest \in Seq(Statements) /\ Len(rest) > 0 /\ Later(rest, q.todo)
  <2>1. 1 + 4 <= Len(q.todo) + 0
    <3>1. 1 \in 1..Len(q.todo)
      BY <1>1
    <3>. QED  BY <1>1, <3>1 DEF TodoOK, Room
  <2>2. 3 \in 1..Len(q.todo)
    BY <1>1, <2>1
  <2>3. Later(rest, q.todo)
    BY <1>1, <1>3, <2>2, LaterOf
  <2>4. Len(rest) = Len(q.todo) - 2
    BY <1>1, <1>3, <2>1
  <2>5. Len(rest) > 0
    BY <1>1, <2>1, <2>4
  <2>. QED  BY <2>3, <2>5 DEF Later
<1>5. Later(q.todo, q.todo)
  BY <1>1, LaterOf
<1>6. PICK todo \in {rest, q.todo} : todo = IF new = << >> THEN rest ELSE q.todo
  OBVIOUS
<1>7. todo \in Seq(Statements) /\ Later(todo, q.todo) /\ Len(todo) > 0
  BY <1>1, <1>4, <1>5
<1>8. PICK p : p = [q EXCEPT !.fresh = fresh, !.todo = todo]
  OBVIOUS
<1>9. /\ p \in RequestRecord /\ p.todo = todo /\ p.op = q.op /\ p.i = q.i /\ p.row = q.row
      /\ p.held = q.held /\ p.status = q.status /\ p.alone = q.alone
  BY <1>7, <1>8 DEF RequestRecord
<1>10. TodoOK(p)
  BY <1>1, <1>7, <1>9, TodoLater
<1>11. Ends(r) \/ Goes(r, p)
  BY <1>2, <1>3, <1>6, <1>8 DEF InsertsRows
<1>. QED  BY <1>3, <1>6, <1>7, <1>9, <1>10, <1>11

(* insertMany of rows that are typed, and the end of the request or of the *)
(* statements to skip.                                                     *)
LEMMA InsertsKeep ==
    ASSUME RequestsIInv, NEW r \in Slots, InFlight(r), requests[r].todo[1] \in Skipping,
           NEW new, IsRows(new), InsertsRows(r, new)
    PROVE  RequestsIInv'
<1>1. PICK q \in RequestRecord : q = requests[r]
  BY FlightHas
<1>2. /\ TodoOK(q) /\ q.todo \in Seq(Statements) /\ Len(q.todo) > 0 /\ q.i \in Investments
      /\ IsRows(payments[q.i]) /\ q.held \subseteq DOMAIN payments[q.i]
  BY <1>1, FlightHas
<1>3. PICK fits : /\ fits \subseteq DOMAIN new
                  /\ WritesRows(q.i, [s \in DOMAIN payments[q.i] \cup fits |->
                        IF s \in fits THEN new[s] ELSE payments[q.i][s]])
  BY <1>1 DEF InsertsRows
<1>4. PICK rows : rows = [s \in DOMAIN payments[q.i] \cup fits |->
                              IF s \in fits THEN new[s] ELSE payments[q.i][s]]
  OBVIOUS
<1>5. IsRows(rows) /\ DOMAIN payments[q.i] \subseteq DOMAIN rows
  BY <1>2, <1>3, <1>4 DEF IsRows
<1>6. /\ DocumentsTyped' /\ payments'[q.i] = rows
      /\ \A j \in Investments \ {q.i} : payments'[j] = payments[j]
  BY <1>2, <1>3, <1>4, <1>5, RowsWrite DEF RequestsIInv
<1>7. \A p \in Slots : requests[p].held \subseteq DOMAIN payments'[requests[p].i]
  <2>. SUFFICES ASSUME NEW p \in Slots
                PROVE  requests[p].held \subseteq DOMAIN payments'[requests[p].i]
    OBVIOUS
  <2>1. requests[p].held = {} \/ requests[p].i \in Investments
    BY FlightHas DEF InFlight, RequestsIInv, RequestsKnow
  <2>2. requests[p].held \subseteq DOMAIN payments[requests[p].i]
    BY DEF RequestsIInv, RequestsKnow
  <2>. QED  BY <1>5, <1>6, <2>1, <2>2
<1>8. \/ Ends(r)
      \/ \E p \in RequestRecord :
            /\ TodoOK(p) /\ Len(p.todo) > 0 /\ p.i = q.i /\ p.held = q.held /\ p.alone = q.alone
            /\ Goes(r, p)
  BY <1>1, InsertsLeave
<1>9. \/ Ends(r)
      \/ \E p \in RequestRecord :
            /\ TodoOK(p) /\ Len(p.todo) > 0 /\ p.alone = requests[r].alone
            /\ p.held \subseteq DOMAIN payments'[p.i]
            /\ Goes(r, p)
  BY <1>1, <1>2, <1>5, <1>6, <1>8
<1>. QED  BY <1>6, <1>7, <1>9, RequestMoves

(* The rows a regeneration inserts.                                        *)
LEMMA TailRows ==
    ASSUME NEW q \in RequestRecord, RegenerateFits(q.inv, q.rows), today \in Nat
    PROVE  IsRows(RegeneratedTail(q))
<1>1. IsRows(q.rows) /\ q.inv \in InvestmentDoc
  BY RowsAre DEF RequestRecord
<1>2. NewSeqs(q.inv, q.rows) \subseteq 1..MaxSeq
  BY <1>1, RegenerateReads
<1>3. \A s \in NewSeqs(q.inv, q.rows) : RegeneratedRow(q.inv, q.rows, s) \in Row
  BY <1>1, RegeneratedRowFacts
<1>. QED  BY <1>2, <1>3 DEF RegeneratedTail, IsRows

(* Rows are inserted.                                                      *)
LEMMA InsertersKeep ==
    ASSUME RequestsIInv, NEW r \in Slots, InsertRows(r) \/ InsertSchedule(r)
    PROVE  RequestsIInv'
<1>1. InFlight(r) /\ requests[r].todo[1] \in Skipping /\ requests[r] \in RequestRecord
  <2>1. InFlight(r)
    BY DEF InsertRows, InsertSchedule, Doing
  <2>. QED  BY <2>1, FlightHas DEF InsertRows, InsertSchedule, Doing, Skipping
<1>2. today \in Nat
  BY DEF RequestsIInv, DocumentsTyped
<1>3. CASE InsertRows(r)
  BY <1>1, <1>2, <1>3, TailRows, InsertsKeep DEF InsertRows
<1>4. CASE InsertSchedule(r)
  <2>1. requests[r].inv.terms \in Terms
    BY <1>1 DEF RequestRecord, InvestmentDoc
  <2>. QED  BY <1>1, <1>2, <1>4, <2>1, GeneratedRowsFacts, InsertsKeep DEF InsertSchedule
<1>. QED  BY <1>3, <1>4

(* The timeline of a loan.                                                 *)
LEMMA TimelineKeeps ==
    ASSUME RequestsIInv, NEW r \in Slots, ClearEvents(r) \/ WriteEvents(r)
    PROVE  RequestsIInv'
<1>1. InFlight(r)
  BY DEF ClearEvents, WriteEvents, Doing
<1>2. requests[r] \in RequestRecord /\ requests[r].i \in Investments
  BY <1>1, FlightHas
<1>3. events[requests[r].i] \cup requests[r].fresh \in SUBSET (1..MaxSeq)
  BY <1>2 DEF RequestsIInv, DocumentsTyped, RequestRecord
<1>. QED  BY <1>1, <1>3, EventsKeep DEF ClearEvents, WriteEvents

(* The rows as a statement of refreshInvestmentPaymentMeta writes them:    *)
(* all but the next payment are no longer upcoming, and that one is.       *)
Demoted(q, rows) ==
    [s \in DOMAIN rows |->
        IF /\ Normalises(q) /\ rows[s].status = "upcoming"
           /\ ~(s \in q.held /\ s = NextOpen(q.rows))
        THEN WithStatus(rows[s], "future") ELSE rows[s]]

Promoted(q, rows) ==
    IF Normalises(q) /\ q.rows[NextOpen(q.rows)].status # "upcoming" /\ NextOpen(q.rows) \in q.held
    THEN [rows EXCEPT ![NextOpen(q.rows)].status = "upcoming"] ELSE rows

(* As a payment and a cancellation write them.                             *)
Recorded(q, rows) ==
    IF q.s \notin q.held THEN rows
    ELSE [rows EXCEPT ![q.s].amountPaid = q.amount,
                      ![q.s].status = IF Completes(q.row, q.amount) THEN "completed"
                                      ELSE "partially_paid"]

Cancelled(q, rows) ==
    IF q.s \notin q.held THEN rows ELSE [rows EXCEPT ![q.s].status = "cancelled"]

(* Only the status of rows changes, and only of rows that are upcoming.    *)
LEMMA DemotedFacts ==
    ASSUME NEW q, NEW rows, IsRows(rows)
    PROVE  /\ IsRows(Demoted(q, rows)) /\ DOMAIN Demoted(q, rows) = DOMAIN rows
           /\ \A s \in DOMAIN rows :
                 \/ Demoted(q, rows)[s] = rows[s]
                 \/ /\ rows[s].status = "upcoming" /\ Demoted(q, rows)[s].status = "future"
                    /\ Demoted(q, rows)[s].remaining = rows[s].remaining
           /\ Normalises(q) => \A s \in DOMAIN rows :
                 Demoted(q, rows)[s].status = "upcoming" => s \in q.held /\ s = NextOpen(q.rows)
<1>. PICK new : new = Demoted(q, rows)
  OBVIOUS
<1>1. DOMAIN new = DOMAIN rows /\ \A s \in DOMAIN rows : rows[s] \in Row
  BY DEF Demoted, IsRows
<1>2. ASSUME NEW s \in DOMAIN rows
      PROVE  /\ new[s] \in Row
             /\ \/ new[s] = rows[s]
                \/ /\ rows[s].status = "upcoming" /\ new[s].status = "future"
                   /\ new[s].remaining = rows[s].remaining
             /\ Normalises(q) /\ new[s].status = "upcoming" => s \in q.held /\ s = NextOpen(q.rows)
  <2>1. PICK row \in Row : row = rows[s]
    BY <1>1
  <2>2. /\ WithStatus(row, "future") \in Row /\ WithStatus(row, "future").status = "future"
        /\ WithStatus(row, "future").remaining = row.remaining
    BY DEF WithStatus, Row, RowStatuses, Awaited
  <2>3. CASE /\ Normalises(q) /\ row.status = "upcoming"
             /\ ~(s \in q.held /\ s = NextOpen(q.rows))
    <3>1. new[s] = WithStatus(row, "future")
      BY <2>1, <2>3 DEF Demoted
    <3>. QED  BY <2>1, <2>2, <2>3, <3>1
  <2>4. CASE ~(/\ Normalises(q) /\ row.status = "upcoming"
               /\ ~(s \in q.held /\ s = NextOpen(q.rows)))
    <3>1. new[s] = row
      BY <2>1, <2>4 DEF Demoted
    <3>. QED  BY <2>1, <2>4, <3>1
  <2>. QED  BY <2>3, <2>4
<1>3. new = [s \in DOMAIN rows |-> new[s]]
  BY <1>1 DEF Demoted
<1>4. IsRows(new)
  BY <1>1, <1>2, <1>3 DEF IsRows
<1>. QED  BY <1>1, <1>2, <1>4

(* One row of rows is replaced.                                            *)
LEMMA RowReplaced ==
    ASSUME NEW rows, IsRows(rows), NEW s \in DOMAIN rows, NEW row \in Row,
           NEW new, new = [rows EXCEPT ![s] = row]
    PROVE  /\ IsRows(new) /\ DOMAIN new = DOMAIN rows
           /\ new[s] = row
           /\ \A u \in DOMAIN rows : u # s => new[u] = rows[u]
BY DEF IsRows

(* The next payment becomes upcoming.                                      *)
LEMMA PromotedFacts ==
    ASSUME NEW q, NEW rows, IsRows(rows), q.held \subseteq DOMAIN rows
    PROVE  /\ IsRows(Promoted(q, rows)) /\ DOMAIN Promoted(q, rows) = DOMAIN rows
           /\ \/ Promoted(q, rows) = rows
              \/ LET n == NextOpen(q.rows)
                 IN  /\ Normalises(q) /\ n \in q.held
                     /\ Promoted(q, rows)[n].status = "upcoming"
                     /\ Promoted(q, rows)[n].remaining = rows[n].remaining
                     /\ \A s \in DOMAIN rows : s # n => Promoted(q, rows)[s] = rows[s]
<1>. PICK n : n = NextOpen(q.rows)
  OBVIOUS
<1>1. CASE Normalises(q) /\ q.rows[n].status # "upcoming" /\ n \in q.held
  <2>1. n \in DOMAIN rows
    BY <1>1
  <2>2. PICK row \in Row : row = rows[n]
    BY <2>1 DEF IsRows
  <2>3. PICK now : now = [row EXCEPT !.status = "upcoming"]
    OBVIOUS
  <2>4. now \in Row /\ now.status = "upcoming" /\ now.remaining = row.remaining
    BY <2>3 DEF Row, RowStatuses, Awaited
  <2>5. Promoted(q, rows) = [rows EXCEPT ![n] = now]
    BY <1>1, <2>1, <2>2, <2>3 DEF Promoted
  <2>6. /\ IsRows(Promoted(q, rows)) /\ DOMAIN Promoted(q, rows) = DOMAIN rows
        /\ Promoted(q, rows)[n] = now
        /\ \A s \in DOMAIN rows : s # n => Promoted(q, rows)[s] = rows[s]
    BY <2>1, <2>4, <2>5, RowReplaced
  <2>. QED  BY <1>1, <2>2, <2>4, <2>6
<1>2. CASE ~(Normalises(q) /\ q.rows[n].status # "upcoming" /\ n \in q.held)
  <2>1. Promoted(q, rows) = rows
    BY <1>2 DEF Promoted
  <2>. QED  BY <2>1
<1>. QED  BY <1>1, <1>2

(* A payment is recorded in its row.                                       *)
LEMMA RecordedFacts ==
    ASSUME NEW q \in RequestRecord, NEW rows, IsRows(rows), q.held \subseteq DOMAIN rows
    PROVE  /\ IsRows(Recorded(q, rows)) /\ DOMAIN Recorded(q, rows) = DOMAIN rows
           /\ q.s \notin q.held => Recorded(q, rows) = rows
           /\ q.s \in q.held =>
                 /\ Recorded(q, rows)[q.s].status \in Paid
                 /\ \A s \in DOMAIN rows : s # q.s => Recorded(q, rows)[s] = rows[s]
<1>1. CASE q.s \in q.held
  <2>. PICK n, amount \in Nat : n = q.s /\ amount = q.amount
    BY DEF RequestRecord
  <2>1. n \in DOMAIN rows
    BY <1>1
  <2>2. PICK row \in Row : row = rows[n]
    BY <2>1 DEF IsRows
  <2>3. PICK status \in Paid :
            status = IF Completes(q.row, amount) THEN "completed" ELSE "partially_paid"
    BY DEF Paid
  <2>4. PICK now : now = [row EXCEPT !.amountPaid = amount, !.status = status]
    OBVIOUS
  <2>5. now \in Row /\ now.status \in Paid
    BY <2>4 DEF Row, RowStatuses, Paid
  <2>6. Recorded(q, rows) = [rows EXCEPT ![n] = now]
    <3>1. Recorded(q, rows) = [rows EXCEPT ![n].amountPaid = amount, ![n].status = status]
      BY <1>1, <2>3, Zenon DEF Recorded
    <3>. QED  BY <2>1, <2>2, <2>4, <3>1
  <2>7. /\ IsRows(Recorded(q, rows)) /\ DOMAIN Recorded(q, rows) = DOMAIN rows
        /\ Recorded(q, rows)[n] = now
        /\ \A s \in DOMAIN rows : s # n => Recorded(q, rows)[s] = rows[s]
    BY <2>1, <2>5, <2>6, RowReplaced
  <2>. QED  BY <1>1, <2>5, <2>7
<1>2. CASE q.s \notin q.held
  BY <1>2 DEF Recorded
<1>. QED  BY <1>1, <1>2

(* A row is cancelled.                                                     *)
LEMMA CancelledFacts ==
    ASSUME NEW q, NEW rows, IsRows(rows), q.held \subseteq DOMAIN rows
    PROVE  /\ IsRows(Cancelled(q, rows)) /\ DOMAIN Cancelled(q, rows) = DOMAIN rows
           /\ q.s \notin q.held => Cancelled(q, rows) = rows
           /\ q.s \in q.held =>
                 /\ Cancelled(q, rows)[q.s].status = "cancelled"
                 /\ \A s \in DOMAIN rows : s # q.s => Cancelled(q, rows)[s] = rows[s]
<1>1. CASE q.s \in q.held
  <2>. PICK n : n = q.s
    OBVIOUS
  <2>1. n \in DOMAIN rows
    BY <1>1
  <2>2. PICK row \in Row : row = rows[n]
    BY <2>1 DEF IsRows
  <2>4. PICK now : now = [row EXCEPT !.status = "cancelled"]
    OBVIOUS
  <2>5. now \in Row /\ now.status = "cancelled"
    BY <2>4 DEF Row, RowStatuses
  <2>6. Cancelled(q, rows) = [rows EXCEPT ![n] = now]
    BY <1>1, <2>1, <2>2, <2>4 DEF Cancelled
  <2>7. /\ IsRows(Cancelled(q, rows)) /\ DOMAIN Cancelled(q, rows) = DOMAIN rows
        /\ Cancelled(q, rows)[n] = now
        /\ \A s \in DOMAIN rows : s # n => Cancelled(q, rows)[s] = rows[s]
    BY <2>1, <2>5, <2>6, RowReplaced
  <2>. QED  BY <1>1, <2>5, <2>7
<1>2. CASE q.s \notin q.held
  BY <1>2 DEF Cancelled
<1>. QED  BY <1>1, <1>2

(* The statements that write rows and insert or delete none.               *)
LEMMA RowWritersKeep ==
    ASSUME RequestsIInv, NEW r \in Slots,
           \/ MarkOverdue(r) \/ Demote(r) \/ Promote(r) \/ WritePayment(r) \/ WriteCancelled(r)
    PROVE  RequestsIInv'
<1>1. InFlight(r)
  BY DEF MarkOverdue, Demote, Promote, WritePayment, WriteCancelled, Doing
<1>2. PICK q \in RequestRecord : q = requests[r]
  BY <1>1, FlightHas
<1>3. PICK rows : rows = payments[q.i] /\ IsRows(rows) /\ q.held \subseteq DOMAIN rows
  BY <1>1, <1>2, FlightHas
<1>4. today \in Nat
  BY DEF RequestsIInv, DocumentsTyped
<1>5. \E new \in {MarkedOverdue(rows), Demoted(q, rows), Promoted(q, rows), Recorded(q, rows),
                  Cancelled(q, rows)} : WritesRows(q.i, new) /\ Goes(r, q)
  <2>1. CASE MarkOverdue(r)
    BY <1>2, <1>3, <2>1 DEF MarkOverdue
  <2>2. CASE Demote(r)
    <3>1. WritesRows(q.i, Demoted(q, rows)) /\ Goes(r, q)
      BY <1>2, <1>3, <2>2, Zenon DEF Demote, Demoted
    <3>. QED  BY <3>1
  <2>3. CASE Promote(r)
    <3>1. WritesRows(q.i, Promoted(q, rows)) /\ Goes(r, q)
      BY <1>2, <1>3, <2>3, Zenon DEF Promote, Promoted
    <3>. QED  BY <3>1
  <2>4. CASE WritePayment(r)
    <3>1. WritesRows(q.i, Recorded(q, rows)) /\ Goes(r, q)
      BY <1>2, <1>3, <2>4, Zenon DEF WritePayment, Recorded
    <3>. QED  BY <3>1
  <2>5. CASE WriteCancelled(r)
    <3>1. WritesRows(q.i, Cancelled(q, rows)) /\ Goes(r, q)
      BY <1>2, <1>3, <2>5, Zenon DEF WriteCancelled, Cancelled
    <3>. QED  BY <3>1
  <2>. QED  BY <2>1, <2>2, <2>3, <2>4, <2>5
<1>6. \A new \in {MarkedOverdue(rows), Demoted(q, rows), Promoted(q, rows), Recorded(q, rows),
                  Cancelled(q, rows)} : IsRows(new) /\ DOMAIN new = DOMAIN rows
  BY <1>3, <1>4, MarkedFacts, DemotedFacts, PromotedFacts, RecordedFacts, CancelledFacts
<1>. QED  BY <1>1, <1>2, <1>3, <1>5, <1>6, RowsKeep

(* What a loan owes, and what it costs a month, as the documents have it.  *)
LEMMA TermsFacts ==
    ASSUME NEW t \in Terms
    PROVE  t.principal \in Money /\ Instalment(t, t.principal, t.term) \in Nat
<1>1. t.principal \in 1..MaxPrincipal /\ t.term \in 1..MaxSeq
  BY TermsAssumption
<1>2. t.principal \in Money
  BY <1>1, BoundsAssumption DEF Money
<1>. QED  BY <1>1, <1>2, InstalmentAssumption

(* The terms t with what is not repriced taken from the terms old.         *)
Mixed(t, old) ==
    [t EXCEPT !.principal = old.principal, !.rate = old.rate, !.term = old.term]

(* They are terms.                                                         *)
LEMMA MixedTerms == \A t, old \in Terms : Mixed(t, old) \in Terms
BY MixedTermsAssumption DEF Mixed

(* The statements of create, update and remove that write the document.    *)
LEMMA DocumentWritersKeep ==
    ASSUME RequestsIInv, NEW r \in Slots,
           InsertInvestment(r) \/ WriteTerms(r) \/ WriteStatus(r) \/ SoftDelete(r)
    PROVE  RequestsIInv'
<1>1. InFlight(r)
  BY DEF InsertInvestment, WriteTerms, WriteStatus, SoftDelete, Updates, Doing
<1>2. PICK q \in RequestRecord : q = requests[r]
  BY <1>1, FlightHas
<1>3. PICK i \in Investments, old \in InvestmentDoc : i = q.i /\ old = investments[i]
  BY <1>1, <1>2, FlightHas DEF RequestsIInv, DocumentsTyped
<1>4. q.terms \in Terms /\ TodoOK(q) /\ Len(q.todo) > 0 /\ Head(q.todo) = q.todo[1]
      /\ q.inv \in InvestmentDoc
  BY <1>1, <1>2, FlightHas DEF RequestRecord
<1>5. ASSUME Doing(r, "writeStatus") \/ Doing(r, "insertInvestment") PROVE q.status \in Statuses
  <2>1. q.todo[1] \in StatusWriters /\ q.todo[1] \in Elements(q.todo)
    <3>1. q.todo \in Seq(Statements)
      BY DEF RequestRecord
    <3>2. 1 \in 1..Len(q.todo)
      BY <1>4, <3>1
    <3>. QED  BY <1>2, <1>4, <1>5, <3>2 DEF Doing, StatusWriters, Elements
  <2>. QED  BY <1>4, <2>1 DEF TodoOK
<1>6. CASE InsertInvestment(r)
  <2>1. PICK status \in Statuses : status = q.status
    BY <1>5, <1>6 DEF InsertInvestment
  <2>2. PICK t \in Terms : t = q.terms
    BY <1>4
  <2>3. PICK v \in Investors : v = q.inv.investor
    BY <1>4 DEF InvestmentDoc
  <2>4. PICK principal \in Money, monthly \in Nat :
            principal = t.principal /\ monthly = Instalment(t, t.principal, t.term)
    BY <2>2, TermsFacts
  <2>5. PICK doc : doc = [state |-> "live", investor |-> v, terms |-> t, outstanding |-> principal,
                          repaid |-> 0, earned |-> 0, status |-> status, monthly |-> monthly,
                          nextDue |-> NoDue]
    OBVIOUS
  <2>6. doc \in InvestmentDoc
    BY <2>5 DEF InvestmentDoc, NoDue
  <2>7. investments' = [investments EXCEPT ![i] = doc]
        /\ UNCHANGED <<today, investors, payments, events, closings>> /\ Goes(r, q)
    BY <1>2, <1>3, <1>6, <2>1, <2>2, <2>3, <2>4, <2>5 DEF InsertInvestment
  <2>8. DocumentsTyped' /\ UNCHANGED payments
    BY <2>6, <2>7 DEF RequestsIInv, DocumentsTyped
  <2>. QED  BY <1>1, <1>2, <2>7, <2>8, WritesKeep
<1>7. CASE WriteTerms(r)
  <2>1. PICK t \in Terms : t = IF q.repriced THEN q.terms ELSE Mixed(q.terms, old.terms)
    <3>1. old.terms \in Terms
      BY DEF InvestmentDoc
    <3>. QED  BY <1>4, <3>1, MixedTerms
  <2>2. PICK status \in Statuses : status = StatusGiven(q, old.status)
    BY DEF StatusGiven, RequestRecord, InvestmentDoc
  <2>3. PICK monthly \in Nat :
            monthly = IF q.repriced THEN Instalment(t, t.principal, t.term) ELSE old.monthly
    BY TermsFacts DEF InvestmentDoc
  <2>4. PICK doc : doc = [old EXCEPT !.terms = t, !.status = status, !.monthly = monthly]
    OBVIOUS
  <2>5. doc \in InvestmentDoc
    <3>1. PICK one \in InvestmentDoc : one = [old EXCEPT !.terms = t]
      BY DEF InvestmentDoc
    <3>2. PICK two \in InvestmentDoc : two = [one EXCEPT !.status = status]
      BY DEF InvestmentDoc
    <3>3. PICK three \in InvestmentDoc : three = [two EXCEPT !.monthly = monthly]
      BY DEF InvestmentDoc
    <3>. QED  BY <2>4, <3>1, <3>2, <3>3
  <2>6. WritesInvestment(i, doc) /\ (Goes(r, q) \/ Ends(r))
    <3>1. investments[i] = old /\ requests[r] = q /\ q.i = i
      BY <1>2, <1>3
    <3>2. WritesInvestment(i, doc) /\ Updates(r, "writeTerms")
      BY <1>7, <2>1, <2>2, <2>3, <2>4, <3>1, Zenon DEF WriteTerms, Mixed
    <3>. QED  BY <3>1, <3>2, Zenon DEF Updates
  <2>. QED  BY <1>1, <1>2, <1>3, <2>5, <2>6, InvestmentKeeps
<1>8. CASE WriteStatus(r)
  <2>1. PICK status \in Statuses : status = q.status
    BY <1>5, <1>8 DEF WriteStatus, Updates
  <2>2. PICK doc : doc = [old EXCEPT !.status = status]
    OBVIOUS
  <2>3. doc \in InvestmentDoc
    BY <2>2 DEF InvestmentDoc
  <2>4. WritesInvestment(i, doc) /\ (Goes(r, q) \/ Ends(r))
    BY <1>2, <1>3, <1>8, <2>1, <2>2 DEF WriteStatus, Updates
  <2>. QED  BY <1>1, <1>2, <1>3, <2>3, <2>4, InvestmentKeeps
<1>9. CASE SoftDelete(r)
  <2>1. PICK doc : doc = [old EXCEPT !.state = "deleted"]
    OBVIOUS
  <2>2. doc \in InvestmentDoc
    BY <2>1 DEF InvestmentDoc
  <2>3. WritesInvestment(i, doc) /\ Goes(r, q)
    BY <1>2, <1>3, <1>9, <2>1 DEF SoftDelete
  <2>. QED  BY <1>1, <1>2, <1>3, <2>2, <2>3, InvestmentKeeps
<1>. QED  BY <1>6, <1>7, <1>8, <1>9

(* What an early repayment adds to the document it has read.               *)
LEMMA CreditedEarlyType ==
    ASSUME NEW inv \in InvestmentDoc, NEW row \in Row
    PROVE  CreditedEarly(inv, row) \in InvestmentDoc
<1>1. PICK repaid \in Nat, earned \in Nat, outstanding \in Money, status \in Statuses :
          /\ repaid = inv.repaid + row.principal /\ earned = inv.earned + row.interest
          /\ outstanding = row.remaining /\ status = ClosedAt(row.remaining, inv.status)
  BY DEF InvestmentDoc, Row, ClosedAt, Statuses
<1>2. CreditedEarly(inv, row) = [inv EXCEPT !.outstanding = outstanding, !.repaid = repaid,
                                            !.earned = earned, !.status = status]
  BY <1>1 DEF CreditedEarly
<1>. PICK new : new = [inv EXCEPT !.outstanding = outstanding, !.repaid = repaid,
                                  !.earned = earned, !.status = status]
  OBVIOUS
<1>3. new \in InvestmentDoc
  BY DEF InvestmentDoc
<1>. QED  BY <1>2, <1>3

(* The next payment in the document, and what a payment credits.           *)
LEMMA LedgerWritersKeep ==
    ASSUME RequestsIInv, NEW r \in Slots, WriteMeta(r) \/ Credit(r)
    PROVE  RequestsIInv'
<1>1. InFlight(r)
  BY DEF WriteMeta, Credit, Doing
<1>2. PICK q \in RequestRecord : q = requests[r]
  BY <1>1, FlightHas
<1>3. PICK i \in Investments, old \in InvestmentDoc : i = q.i /\ old = investments[i]
  BY <1>1, <1>2, FlightHas DEF RequestsIInv, DocumentsTyped
<1>4. CASE WriteMeta(r)
  <2>1. PICK nextDue \in Nat, monthly \in Nat :
            IF Unpaid(q.rows) = {} THEN nextDue = NoDue /\ monthly = 0
            ELSE /\ nextDue = q.rows[NextOpen(q.rows)].due
                 /\ monthly = q.rows[NextOpen(q.rows)].total
    <3>1. IsRows(q.rows)
      BY RowsAre DEF RequestRecord
    <3>2. CASE Unpaid(q.rows) = {}
      BY <3>2 DEF NoDue
    <3>3. CASE Unpaid(q.rows) # {}
      <4>1. q.rows[NextOpen(q.rows)] \in Row
        BY <3>1, <3>3, NextOpenUnpaid DEF IsRows
      <4>. QED  BY <3>3, <4>1 DEF Row
    <3>. QED  BY <3>2, <3>3
  <2>2. PICK doc : doc = [old EXCEPT !.nextDue = nextDue, !.monthly = monthly]
    OBVIOUS
  <2>3. doc \in InvestmentDoc
    BY <2>2 DEF InvestmentDoc
  <2>4. WritesInvestment(i, doc) /\ Goes(r, q)
    BY <1>2, <1>3, <1>4, <2>1, <2>2 DEF WriteMeta
  <2>. QED  BY <1>1, <1>2, <1>3, <2>3, <2>4, InvestmentKeeps
<1>5. CASE Credit(r)
  <2>1. q.row \in Row
    <3>1. q.todo \in Seq(Statements) /\ TodoOK(q) /\ Len(q.todo) > 0 /\ q.todo[1] = "credit"
      BY <1>1, <1>2, <1>5, FlightHas DEF Credit, Doing
    <3>2. "credit" \in Elements(q.todo) /\ "credit" \in RowReaders
      <4>1. 1 \in 1..Len(q.todo)
        BY <3>1
      <4>. QED  BY <3>1, <4>1 DEF Elements, RowReaders
    <3>. QED  BY <3>1, <3>2 DEF TodoOK
  <2>2. PICK credited \in InvestmentDoc :
            credited = IF q.op = "early" THEN CreditedEarly(q.inv, q.row)
                       ELSE Credited(q.inv, q.row, q.amount)
    BY <2>1, CreditedEarlyType, CreditedFacts DEF RequestRecord
  <2>3. PICK doc : doc = [old EXCEPT !.repaid = credited.repaid, !.earned = credited.earned,
                                     !.outstanding = credited.outstanding,
                                     !.status = credited.status]
    OBVIOUS
  <2>4. doc \in InvestmentDoc
    BY <2>3 DEF InvestmentDoc
  <2>5. WritesInvestment(i, doc) /\ Goes(r, q)
    BY <1>2, <1>3, <1>5, <2>2, <2>3 DEF Credit
  <2>. QED  BY <1>1, <1>2, <1>3, <2>4, <2>5, InvestmentKeeps
<1>. QED  BY <1>4, <1>5

(* The totals of an investor and the announcement of a closing.            *)
LEMMA OthersKeep ==
    ASSUME RequestsIInv, NEW r \in Slots, WriteTotals(r) \/ Announce(r)
    PROVE  RequestsIInv'
<1>1. InFlight(r) /\ Goes(r, requests[r])
  BY DEF WriteTotals, Announce, Doing
<1>2. DocumentsTyped' /\ UNCHANGED payments
  BY DEF WriteTotals, Announce, RequestsIInv, DocumentsTyped
<1>. QED  BY <1>1, <1>2, WritesKeep

(* The list of one statement that a request starts with.                   *)
LEMMA LoadingRun ==
    ASSUME NEW q \in RequestRecord, TodoOK(q), Len(q.todo) > 0,
           q.todo[1] \in {"loadPayment", "loadOutstanding"}
    PROVE  /\ Run(q.todo, q.todo[1], q.todo[1], 0) /\ Elements(q.todo) = {q.todo[1]}
           /\ q.op # "regenerate" /\ Len(q.todo) = 1
<1>1. Len(q.todo) = 1 /\ q.todo \in Seq(Statements) /\ 1..1 = {1}
  BY DEF TodoOK, RequestRecord
<1>2. Chained(q.todo) /\ Opens(q.todo) /\ Room(q.todo, 0)
  BY DEF TodoOK
<1>3. q.op # "regenerate"
  BY <1>1 DEF TodoOK
<1>. QED  BY <1>1, <1>2, <1>3 DEF Run, Elements

(* What comes after it.                                                    *)
LEMMA LoadedTail ==
    ASSUME NEW s \in Seq(Statements), Len(s) = 1, NEW t \in Seq(Statements), Len(t) > 0
    PROVE  /\ s \o t \in Seq(Statements) /\ Len(s \o t) = 1 + Len(t)
           /\ Tail(s \o t) = t /\ Len(s \o t) # 1
<1>. PICK u : u = s \o t
  OBVIOUS
<1>1. u \in Seq(Statements) /\ Len(u) = 1 + Len(t) /\ \A k \in 1..Len(t) : u[1 + k] = t[k]
  <2>1. /\ s \o t \in Seq(Statements) /\ Len(s \o t) = Len(s) + Len(t)
        /\ \A k \in 1..Len(t) : (s \o t)[Len(s) + k] = t[k]
    BY Joined, Zenon
  <2>. QED  BY <2>1
<1>2. Len(u) # 1 /\ u # << >> /\ Len(u) - 1 = Len(t)
  BY <1>1
<1>3. Tail(u) \in Seq(Statements) /\ Len(Tail(u)) = Len(t)
      /\ \A k \in 1..Len(t) : Tail(u)[k] = u[k + 1]
  BY <1>1, <1>2, HeadTailProperties
<1>4. \A k \in 1..Len(t) : Tail(u)[k] = t[k]
  <2>1. \A k \in 1..Len(t) : 1 + k = k + 1
    OBVIOUS
  <2>. QED  BY <1>1, <1>3, <2>1
<1>5. Tail(u) = t
  BY <1>3, <1>4, SeqEqual
<1>. QED  BY <1>1, <1>2, <1>5

(* A request that read goes on as p.                                       *)
LEMMA LoadedKeeps ==
    ASSUME RequestsIInv, NEW r \in Slots, InFlight(r), NEW p \in RequestRecord, TodoOK(p),
           p.todo # << >>, p.alone = requests[r].alone,
           p.held \subseteq DOMAIN payments[p.i],
           requests' = [requests EXCEPT ![r] = p], UNCHANGED begun, UNCHANGED vars
    PROVE  RequestsIInv'
<1>1. DocumentsTyped' /\ UNCHANGED payments
  BY DEF vars, RequestsIInv, DocumentsTyped
<1>2. \A x \in Slots \ {r} : requests[x].held \subseteq DOMAIN payments'[requests[x].i]
  BY <1>1 DEF RequestsIInv, RequestsKnow
<1>. QED  BY <1>1, <1>2, RequestBecomes

(* A request that read goes on as p.                                       *)
Loaded(r, p) ==
    /\ p \in RequestRecord /\ TodoOK(p) /\ p.todo # << >>
    /\ p.i = requests[r].i /\ p.held = requests[r].held /\ p.alone = requests[r].alone
    /\ requests' = [requests EXCEPT ![r] = p] /\ UNCHANGED begun /\ UNCHANGED vars

(* So that everything it relies on is there.                               *)
LEMMA LoadedGoes ==
    ASSUME RequestsIInv, NEW r \in Slots, InFlight(r), NEW p, Loaded(r, p)
    PROVE  RequestsIInv'
<1>1. p.held \subseteq DOMAIN payments[p.i]
  BY FlightHas DEF Loaded
<1>. QED  BY <1>1, LoadedKeeps DEF Loaded

(* What markPaid and cancelPayment have found, and go on with.             *)
PaymentFound(q, p) ==
    /\ q.s \in q.held /\ payments[q.i][q.s].status # "completed"
    /\ \/ p.todo = CancelledTodo
       \/ \E tail \in {RefreshTodo, RegenerateTodo} : p.todo = PaidTodo(tail)

(* markPaid and cancelPayment go on with what they found.                  *)
LEMMA LoadPaymentLeaves ==
    ASSUME RequestsIInv, NEW r \in Slots, LoadPayment(r), ~Rejects(r)
    PROVE  \E p : Loaded(r, p) /\ PaymentFound(requests[r], p)
<1>1. InFlight(r)
  BY DEF LoadPayment, Doing
<1>2. PICK q \in RequestRecord : q = requests[r]
  BY <1>1, FlightHas
<1>3. /\ TodoOK(q) /\ q.todo \in Seq(Statements) /\ Len(q.todo) > 0 /\ q.i \in Investments
      /\ IsRows(payments[q.i]) /\ q.held \subseteq DOMAIN payments[q.i]
      /\ q.todo[1] = "loadPayment"
  BY <1>1, <1>2, FlightHas DEF LoadPayment, Doing
<1>4. q.s \in q.held
  BY <1>2 DEF LoadPayment
<1>5. PICK row \in Row : row = payments[q.i][q.s]
  BY <1>3, <1>4 DEF IsRows
<1>6. PICK paid \in Nat : paid = Asked(q, row)
  BY DEF Asked, Row, RequestRecord
<1>7. PICK tail \in {RefreshTodo, RegenerateTodo} :
          tail = IF Completes(row, paid) THEN RefreshTodo ELSE RegenerateTodo
  OBVIOUS
<1>8. PICK next : next = IF q.op = "cancel" THEN CancelledTodo ELSE PaidTodo(tail)
  OBVIOUS
<1>9. PICK a, b : /\ Run(next, a, b, 0) /\ Follows("loadPayment", a)
                  /\ Elements(next) \subseteq Paying \cup Regenerating \cup {"writeCancelled"}
  <2>1. CASE q.op = "cancel"
    <3>1. Follows("loadPayment", "writeCancelled")
      BY DEF Follows
    <3>2. Elements(CancelledTodo) \subseteq Paying \cup Regenerating \cup {"writeCancelled"}
      BY CancelledRun, RefreshRun DEF Regenerating
    <3>. QED  BY <1>8, <2>1, <3>1, <3>2, CancelledRun
  <2>2. CASE q.op # "cancel"
    <3>1. Follows("loadPayment", "writePayment")
      BY DEF Follows
    <3>2. PICK b \in Statements : Run(PaidTodo(tail), "writePayment", b, 0)
      BY PaidRun
    <3>3. Elements(PaidTodo(tail)) \subseteq Paying \cup Regenerating
      BY PaidRun
    <3>. QED  BY <1>8, <2>2, <3>1, <3>2, <3>3
  <2>. QED  BY <2>1, <2>2
<1>10. /\ Run(q.todo, "loadPayment", "loadPayment", 0) /\ Elements(q.todo) = {"loadPayment"}
      /\ q.op # "regenerate"
  BY <1>3, LoadingRun
<1>11. /\ next \in Seq(Statements) /\ Len(next) > 0
      /\ q.todo \o next \in Seq(Statements) /\ Len(q.todo \o next) = 1 + Len(next)
      /\ Tail(q.todo \o next) = next /\ Len(q.todo \o next) # 1
  <2>1. next \in Seq(Statements) /\ Len(next) > 0
    BY <1>9 DEF Run
  <2>2. Len(q.todo) = 1
    BY <1>3, LoadingRun
  <2>. QED  BY <1>3, <2>1, <2>2, LoadedTail
<1>12. PICK p : p = [q EXCEPT !.row = row, !.amount = paid, !.todo = next]
  OBVIOUS
<1>13. /\ p \in RequestRecord /\ p.todo = next /\ p.op = q.op /\ p.i = q.i /\ p.row = row
       /\ p.held = q.held /\ p.status = q.status /\ p.alone = q.alone
  BY <1>11, <1>12 DEF RequestRecord
<1>14. TodoOK(p)
  <2>1. a \notin {"loadPayment", "loadOutstanding"}
    BY <1>9 DEF Follows, RegenerateFollows
  <2>2. Elements(next) \cap StatusWriters = {} /\ "insertEarly" \notin Elements(next)
    BY <1>9 DEF StatusWriters, Paying, Regenerating
  <2>. QED  BY <1>3, <1>9, <1>10, <1>13, <2>1, <2>2, RunKnows
<1>15. requests' = [requests EXCEPT ![r] = p] /\ UNCHANGED begun /\ UNCHANGED vars
  <2>1. next = IF q.op = "cancel" THEN <<"writeCancelled">> \o RefreshTodo
               ELSE <<"writePayment", "findInvestment">> \o <<"credit">> \o SyncTodo
                       \o <<"announce">>
                       \o IF Completes(row, paid) THEN RefreshTodo ELSE RegenerateTodo
    BY <1>7, <1>8, Zenon DEF CancelledTodo, PaidTodo
  <2>2. Reads(r, [q EXCEPT !.row = row, !.amount = paid, !.todo = @ \o next])
    BY <1>2, <1>5, <1>6, <2>1, Zenon DEF LoadPayment
  <2>3. Advanced([q EXCEPT !.row = row, !.amount = paid, !.todo = @ \o next]) = p
    BY <1>11, <1>12 DEF Advanced, RequestRecord
  <2>. QED  BY <2>2, <2>3 DEF Reads, Goes
<1>16. p.todo # << >> /\ p.alone = requests[r].alone /\ p.held \subseteq DOMAIN payments[p.i]
  <2>1. p.todo # << >>
    BY <1>11, <1>13
  <2>2. p.alone = requests[r].alone
    BY <1>2, <1>13
  <2>3. p.held \subseteq DOMAIN payments[p.i]
    BY <1>3, <1>13
  <2>. QED  BY <2>1, <2>2, <2>3
<1>17. PaymentFound(q, p)
  <2>1. q.s \in q.held /\ payments[q.i][q.s].status # "completed"
    BY <1>2 DEF LoadPayment
  <2>. QED  BY <1>8, <1>13, <2>1 DEF PaymentFound
<1>. QED  BY <1>2, <1>13, <1>14, <1>15, <1>16, <1>17 DEF Loaded

(* The same as a statement.                                                *)
LEMMA LoadPaymentKeeps ==
    ASSUME RequestsIInv, NEW r \in Slots, LoadPayment(r)
    PROVE  RequestsIInv'
<1>1. InFlight(r)
  BY DEF LoadPayment, Doing
<1>2. CASE Rejects(r)
  BY <1>1, <1>2, ReadsKeep
<1>3. CASE ~Rejects(r)
  <2>1. PICK p : Loaded(r, p)
    BY <1>3, LoadPaymentLeaves
  <2>. QED  BY <1>1, <2>1, LoadedGoes
<1>. QED  BY <1>2, <1>3

(* Lists are joined in any order.                                          *)
LEMMA JoinsAssociate ==
    ASSUME NEW a \in Seq(Statements), NEW b \in Seq(Statements), NEW c \in Seq(Statements)
    PROVE  (a \o b) \o c = a \o (b \o c)
BY ConcatAssociative

(* The list of one statement, followed by those of an early repayment.     *)
LEMMA EarlyJoined ==
    ASSUME NEW s \in Seq(Statements), NEW tail \in {RegenerateTodo, ClearedTodo}
    PROVE  s \o <<"deleteUnpaid", "readRows", "insertEarly", "credit", "announce">> \o tail
              \o SyncTodo = s \o EarlyTodo(tail)
<1>. PICK t : t = <<"deleteUnpaid", "readRows", "insertEarly", "credit", "announce">>
  OBVIOUS
<1>1. t \in Seq(Statements) /\ SyncTodo \in Seq(Statements)
  BY SyncRun DEF Statements, Run
<1>2. tail \in Seq(Statements)
  <2>1. RegenerateTodo \in Seq(Statements) /\ RefreshTodo \in Seq(Statements)
    BY RegenerateRun, RefreshRun DEF Run
  <2>2. <<"deleteUnpaid">> \in Seq(Statements)
    BY DEF Statements
  <2>3. ClearedTodo \in Seq(Statements)
    <3>1. \A a, b \in Seq(Statements) : a \o b \in Seq(Statements)
      OBVIOUS
    <3>. QED  BY <2>1, <2>2, <3>1, Zenon DEF ClearedTodo
  <2>. QED  BY <2>1, <2>3
<1>3. s \o t \in Seq(Statements) /\ t \o tail \in Seq(Statements)
  BY <1>1, <1>2
<1>4. (s \o t) \o tail = s \o (t \o tail)
  BY <1>1, <1>2, JoinsAssociate
<1>5. (s \o (t \o tail)) \o SyncTodo = s \o ((t \o tail) \o SyncTodo)
  <2>1. PICK early : early = t \o tail
    OBVIOUS
  <2>2. early \in Seq(Statements)
    BY <1>3, <2>1
  <2>3. (s \o early) \o SyncTodo = s \o (early \o SyncTodo)
    BY <1>1, <2>2, JoinsAssociate, SMTT(40)
  <2>. QED  BY <2>1, <2>3, Zenon
<1>6. EarlyTodo(tail) = (t \o tail) \o SyncTodo
  BY Zenon DEF EarlyTodo
<1>. QED  BY <1>4, <1>5, <1>6, Zenon

(* earlyRepayment goes on with the row it computed.                        *)
LEMMA LoadOutstandingLeaves ==
    ASSUME RequestsIInv, NEW r \in Slots, LoadOutstanding(r), ~Rejects(r)
    PROVE  \E p : Loaded(r, p) /\ \E tail \in {RegenerateTodo, ClearedTodo} : p.todo = EarlyTodo(tail)
<1>1. InFlight(r)
  BY DEF LoadOutstanding, Doing
<1>2. PICK q \in RequestRecord : q = requests[r]
  BY <1>1, FlightHas
<1>3. /\ TodoOK(q) /\ q.todo \in Seq(Statements) /\ Len(q.todo) > 0 /\ q.i \in Investments
      /\ q.held \subseteq DOMAIN payments[q.i] /\ q.todo[1] = "loadOutstanding"
      /\ today \in Nat
  BY <1>1, <1>2, FlightHas DEF LoadOutstanding, Doing, RequestsIInv, DocumentsTyped
<1>4. PICK inv \in InvestmentDoc : inv = investments[q.i]
  BY <1>3 DEF RequestsIInv, DocumentsTyped
<1>5. PICK applied : applied = Smaller(q.amount, inv.outstanding)
  OBVIOUS
<1>6. PICK row \in Row : row = EarlyRow(inv, applied, Smaller(q.portion, applied))
                         /\ row.status = "completed"
  <2>1. q.amount \in Nat /\ q.portion \in Nat
    BY DEF RequestRecord
  <2>. QED  BY <1>3, <1>5, <2>1, EarlyRowFacts
<1>7. PICK tail \in {RegenerateTodo, ClearedTodo} :
          tail = IF row.remaining > 0 THEN RegenerateTodo ELSE ClearedTodo
  OBVIOUS
<1>8. PICK next : next = EarlyTodo(tail)
  OBVIOUS
<1>9. /\ Run(next, "deleteUnpaid", "writeTotals", 0) /\ Follows("loadOutstanding", "deleteUnpaid")
      /\ Elements(next) \subseteq
            {"insertEarly", "credit", "announce", "sumTotals", "writeTotals"} \cup Regenerating
  BY <1>8, EarlyRun DEF Follows
<1>10. q.op # "regenerate" /\ Len(q.todo) = 1
  BY <1>3, LoadingRun
<1>11. /\ next \in Seq(Statements) /\ Len(next) > 0
      /\ q.todo \o next \in Seq(Statements) /\ Len(q.todo \o next) = 1 + Len(next)
      /\ Tail(q.todo \o next) = next /\ Len(q.todo \o next) # 1
  <2>1. next \in Seq(Statements) /\ Len(next) > 0
    BY <1>9 DEF Run
  <2>. QED  BY <1>3, <1>10, <2>1, LoadedTail
<1>12. PICK p : p = [q EXCEPT !.inv = inv, !.row = row, !.todo = next]
  OBVIOUS
<1>13. /\ p \in RequestRecord /\ p.todo = next /\ p.op = q.op /\ p.i = q.i /\ p.row = row
       /\ p.held = q.held /\ p.status = q.status /\ p.alone = q.alone
  BY <1>11, <1>12 DEF RequestRecord
<1>14. TodoOK(p)
  <2>1. Elements(next) \cap StatusWriters = {}
    BY <1>9 DEF StatusWriters, Regenerating
  <2>. QED  BY <1>3, <1>6, <1>9, <1>10, <1>13, <2>1, RunKnows
<1>15. requests' = [requests EXCEPT ![r] = p] /\ UNCHANGED begun /\ UNCHANGED vars
  <2>0. PICK early : early = <<"deleteUnpaid", "readRows", "insertEarly", "credit", "announce">>
    OBVIOUS
  <2>1. q.todo \o early \o tail \o SyncTodo = q.todo \o next
    BY <1>3, <1>8, <2>0, EarlyJoined
  <2>4. Reads(r, [q EXCEPT !.inv = inv, !.row = row, !.todo = @ \o early \o tail \o SyncTodo])
    BY <1>2, <1>4, <1>5, <1>6, <1>7, <2>0, Zenon DEF LoadOutstanding, ClearedTodo
  <2>2. Reads(r, [q EXCEPT !.inv = inv, !.row = row, !.todo = @ \o next])
    BY <2>1, <2>4
  <2>3. Advanced([q EXCEPT !.inv = inv, !.row = row, !.todo = @ \o next]) = p
    BY <1>11, <1>12 DEF Advanced, RequestRecord
  <2>. QED  BY <2>2, <2>3 DEF Reads, Goes
<1>16. p.todo # << >> /\ p.alone = requests[r].alone /\ p.held \subseteq DOMAIN payments[p.i]
  <2>1. p.todo # << >>
    BY <1>11, <1>13
  <2>2. p.alone = requests[r].alone
    BY <1>2, <1>13
  <2>3. p.held \subseteq DOMAIN payments[p.i]
    BY <1>3, <1>13
  <2>. QED  BY <2>1, <2>2, <2>3
<1>. QED  BY <1>2, <1>8, <1>13, <1>14, <1>15, <1>16 DEF Loaded

(* The same as a statement.                                                *)
LEMMA LoadOutstandingKeeps ==
    ASSUME RequestsIInv, NEW r \in Slots, LoadOutstanding(r)
    PROVE  RequestsIInv'
<1>1. InFlight(r)
  BY DEF LoadOutstanding, Doing
<1>2. CASE Rejects(r)
  BY <1>1, <1>2, ReadsKeep
<1>3. CASE ~Rejects(r)
  <2>1. PICK p : Loaded(r, p)
    BY <1>3, LoadOutstandingLeaves
  <2>. QED  BY <1>1, <2>1, LoadedGoes
<1>. QED  BY <1>2, <1>3

(* markPaid skips what it would do to an investment that is not live.      *)
LEMMA FindInvestmentKeeps ==
    ASSUME RequestsIInv, NEW r \in Slots, FindInvestment(r)
    PROVE  RequestsIInv'
<1>1. InFlight(r)
  BY DEF FindInvestment, Doing
<1>2. PICK q \in RequestRecord : q = requests[r]
  BY <1>1, FlightHas
<1>3. /\ TodoOK(q) /\ q.todo \in Seq(Statements) /\ Len(q.todo) > 0 /\ q.i \in Investments
      /\ q.held \subseteq DOMAIN payments[q.i] /\ q.todo[1] = "findInvestment"
  BY <1>1, <1>2, FlightHas DEF FindInvestment, Doing
<1>4. CASE investments[q.i].state = "live"
  <2>1. PICK doc \in InvestmentDoc : doc = investments[q.i]
    BY <1>3 DEF RequestsIInv, DocumentsTyped
  <2>2. PICK p : p = [q EXCEPT !.inv = doc]
    OBVIOUS
  <2>3. SameRequest(p, q) /\ p.held = q.held
    BY <2>2 DEF SameRequest, RequestRecord
  <2>4. Reads(r, p)
    BY <1>2, <1>4, <2>1, <2>2 DEF FindInvestment
  <2>. QED  BY <1>1, <1>2, <1>3, <2>3, <2>4, ReadsKeep DEF SameRequest
<1>5. CASE investments[q.i].state # "live"
  <2>1. PICK rest : rest = SubSeq(q.todo, 5, Len(q.todo))
    OBVIOUS
  <2>2. rest \in Seq(Statements) /\ Len(rest) > 0 /\ Later(rest, q.todo)
    <3>1. 1 + 4 <= Len(q.todo) + 0
      <4>1. 1 \in 1..Len(q.todo) /\ q.todo[1] \in Skipping
        BY <1>3 DEF Skipping
      <4>. QED  BY <1>3, <4>1 DEF TodoOK, Room
    <3>2. 5 \in 1..Len(q.todo)
      BY <1>3, <3>1
    <3>3. Len(rest) = Len(q.todo) - 4
      BY <1>3, <2>1, <3>1
    <3>4. Later(rest, q.todo)
      BY <1>3, <2>1, <3>2, LaterOf
    <3>5. rest \in Seq(Statements)
      BY <3>4 DEF Later
    <3>6. Len(rest) > 0
      BY <1>3, <3>1, <3>3
    <3>. QED  BY <3>4, <3>5, <3>6
  <2>3. PICK p : p = [q EXCEPT !.todo = rest]
    OBVIOUS
  <2>4. /\ p \in RequestRecord /\ p.todo = rest /\ p.op = q.op /\ p.i = q.i /\ p.row = q.row
        /\ p.held = q.held /\ p.status = q.status /\ p.alone = q.alone
    BY <2>2, <2>3 DEF RequestRecord
  <2>5. TodoOK(p)
    BY <1>3, <2>2, <2>4, TodoLater
  <2>6. Goes(r, p) /\ UNCHANGED vars
    <3>1. Reads(r, [q EXCEPT !.todo = SubSeq(@, 5, Len(@))])
      BY <1>2, <1>5, Zenon DEF FindInvestment
    <3>2. [q EXCEPT !.todo = SubSeq(@, 5, Len(@))] = p
      BY <2>1, <2>3
    <3>. QED  BY <3>1, <3>2 DEF Reads
  <2>7. DocumentsTyped' /\ UNCHANGED payments
    BY <2>6 DEF vars, RequestsIInv, DocumentsTyped
  <2>8. \A x \in Slots \ {r} : requests[x].held \subseteq DOMAIN payments'[requests[x].i]
    BY <2>7 DEF RequestsIInv, RequestsKnow
  <2>. QED  BY <1>1, <1>2, <1>3, <2>2, <2>4, <2>5, <2>6, <2>7, <2>8, RequestMoves
<1>. QED  BY <1>4, <1>5

(* The row of an early repayment is inserted, or it is in the way.         *)
LEMMA InsertEarlyKeeps ==
    ASSUME RequestsIInv, NEW r \in Slots, InsertEarly(r)
    PROVE  RequestsIInv'
<1>1. InFlight(r)
  BY DEF InsertEarly, Doing
<1>2. PICK q \in RequestRecord : q = requests[r]
  BY <1>1, FlightHas
<1>3. /\ TodoOK(q) /\ q.todo \in Seq(Statements) /\ Len(q.todo) > 0 /\ q.i \in Investments
      /\ q.todo[1] = "insertEarly"
  BY <1>1, <1>2, FlightHas DEF InsertEarly, Doing
<1>4. PICK rows : rows = payments[q.i] /\ IsRows(rows)
  BY <1>1, <1>2, FlightHas
<1>5. PICK row \in Row : row = q.row
  <2>1. "insertEarly" \in Elements(q.todo) /\ "insertEarly" \in RowReaders
    <3>1. 1 \in 1..Len(q.todo)
      BY <1>3
    <3>. QED  BY <1>3, <3>1 DEF Elements, RowReaders
  <2>. QED  BY <1>3, <2>1 DEF TodoOK
<1>6. PICK at \in 1..MaxSeq : at = Highest(Visible(q.rows)) + 1
  <2>1. IsRows(q.rows)
    BY RowsAre DEF RequestRecord
  <2>2. Visible(q.rows) \in SUBSET (1..MaxSeq)
    BY <2>1 DEF Visible, IsRows
  <2>3. Highest(Visible(q.rows)) \in 0..MaxSeq /\ Highest(Visible(q.rows)) + 1 <= MaxSeq
    BY <1>2, <2>2, HighestIn DEF InsertEarly
  <2>. QED  BY <2>3, BoundsAssumption
<1>7. CASE at \in DOMAIN rows
  BY <1>1, <1>2, <1>4, <1>6, <1>7, ReadsKeep DEF InsertEarly
<1>8. CASE at \notin DOMAIN rows
  <2>1. PICK new : new = [s \in DOMAIN rows \cup {at} |-> IF s = at THEN row ELSE rows[s]]
    OBVIOUS
  <2>2. IsRows(new) /\ DOMAIN rows \subseteq DOMAIN new
    BY <1>4, <2>1 DEF IsRows
  <2>3. WritesRows(q.i, new) /\ Goes(r, q)
    BY <1>2, <1>4, <1>5, <1>6, <1>8, <2>1 DEF InsertEarly
  <2>. QED  BY <1>1, <1>2, <1>4, <2>2, <2>3, RowsKeep
<1>. QED  BY <1>7, <1>8

(* A request that fails.                                                   *)
LEMMA FailKeeps ==
    ASSUME RequestsIInv, NEW r \in Slots, Fail(r)
    PROVE  RequestsIInv'
BY ReadsKeep DEF Fail

(* Whatever writes documents between the statements of requests and        *)
(* deletes no rows.                                                        *)
LEMMA BesidesKeep ==
    ASSUME RequestsIInv, Single \/ Clock
    PROVE  RequestsIInv'
<1>1. UNCHANGED <<requests, begun>>
  BY DEF Single, Clock
<1>2. DocumentsTyped' /\ \A i \in Investments : DOMAIN payments'[i] = DOMAIN payments[i]
  <2>1. CASE SweepOverdue
    <3>1. today \in Nat /\ \A i \in Investments : IsRows(payments[i])
      BY RowsAre DEF RequestsIInv, DocumentsTyped
    <3>2. \A i \in Investments : /\ MarkedOverdue(payments[i]) \in AllRows
                                 /\ DOMAIN MarkedOverdue(payments[i]) = DOMAIN payments[i]
      BY <3>1, MarkedFacts, RowsAre
    <3>. QED  BY <2>1, <3>2 DEF SweepOverdue, RequestsIInv, DocumentsTyped
  <2>2. CASE \E v \in Investors : RemoveInvestor(v)
    BY <2>2 DEF RemoveInvestor, RequestsIInv, DocumentsTyped
  <2>3. CASE MonthPasses
    BY <2>3 DEF MonthPasses, RequestsIInv, DocumentsTyped
  <2>. QED  BY <2>1, <2>2, <2>3 DEF Single, Clock
<1>3. \A r \in Slots : requests[r].held \subseteq DOMAIN payments'[requests[r].i]
  <2>. SUFFICES ASSUME NEW r \in Slots
                PROVE  requests[r].held \subseteq DOMAIN payments'[requests[r].i]
    OBVIOUS
  <2>1. requests[r].held = {} \/ requests[r].i \in Investments
    BY FlightHas DEF InFlight, RequestsIInv, RequestsKnow
  <2>2. requests[r].held \subseteq DOMAIN payments[requests[r].i]
    BY DEF RequestsIInv, RequestsKnow
  <2>. QED  BY <1>2, <2>1, <2>2
<1>4. \A r \in Slots : requests'[r] = requests[r]
  BY <1>1
<1>. QED  BY <1>1, <1>2, <1>3, <1>4 DEF RequestsIInv, RequestsKnow, InFlight, TodoOK

(* At first every slot is idle.                                            *)
LEMMA RequestsBegin == RequestsInit => RequestsIInv
<1>. SUFFICES ASSUME RequestsInit PROVE RequestsIInv
  OBVIOUS
<1>1. IsRows(<< >>) /\ << >> \in AllRows
  <2>1. IsRows(<< >>)
    BY DEF IsRows
  <2>. QED  BY <2>1, RowsAre
<1>2. Absent \in InvestmentDoc
  BY BoundsAssumption, TermsAssumption DEF Absent, InvestmentDoc, Money, Statuses, NoDue
<1>3. DocumentsTyped
  BY <1>1, <1>2 DEF RequestsInit, Init, DocumentsTyped
<1>4. \A r \in Slots : requests[r] = Idle
  BY DEF RequestsInit
<1>5. Idle.held = {} /\ Idle.alone = FALSE /\ Idle.todo = << >>
  BY DEF Idle
<1>6. requests \in [Slots -> RequestRecord]
  BY IdleKnows DEF RequestsInit
<1>7. RequestsKnow
  BY <1>4, <1>5, <1>6, IdleKnows DEF RequestsKnow
<1>. QED  BY <1>3, <1>7, SlotsAssumption DEF RequestsInit, RequestsIInv

(* Every step keeps what the requests know.                                *)
LEMMA RequestsStep ==
    ASSUME RequestsIInv, [FailingNext]_requestVars
    PROVE  RequestsIInv'
<1>1. CASE UNCHANGED requestVars
  BY <1>1 DEF requestVars, vars, RequestsIInv, DocumentsTyped, RequestsKnow, InFlight, TodoOK
<1>2. ASSUME NEW r \in Slots, Statement(r) PROVE RequestsIInv'
  BY <1>2, ReadersKeep, DeletesKeep, InsertersKeep, TimelineKeeps, RowWritersKeep,
     DocumentWritersKeep, LedgerWritersKeep, OthersKeep, LoadPaymentKeeps, FindInvestmentKeeps,
     LoadOutstandingKeeps, InsertEarlyKeeps DEF Statement
<1>3. ASSUME NEW r \in Slots, NEW i \in Investments, Begins(r, i) PROVE RequestsIInv'
  BY <1>3, BeginsKeep
<1>. QED  BY <1>1, <1>2, <1>3, FailKeeps, BesidesKeep DEF FailingNext, RequestsNext

(* What RequestsTypeOK says of the documents and the requests.             *)
LEMMA RequestsTyped == RequestsIInv => RequestsTypeOK
<1>. SUFFICES ASSUME RequestsIInv PROVE RequestsTypeOK
  OBVIOUS
<1>1. \A i \in Investments : IsRows(payments[i]) /\ events[i] \subseteq 1..MaxSeq
  BY RowsAre DEF RequestsIInv, DocumentsTyped
<1>2. \A r \in Slots : /\ requests[r].held \subseteq DOMAIN payments[requests[r].i]
                       /\ requests[r].inv \in InvestmentDoc
                       /\ requests[r].fresh \subseteq 1..MaxSeq
  BY DEF RequestsIInv, RequestsKnow, RequestRecord
<1>. QED  BY <1>1, <1>2 DEF RequestsTypeOK, RequestsIInv, DocumentsTyped

(* Whatever requests run beside each other and whichever of their          *)
(* statements fail, between any two statements the documents and what the  *)
(* requests carry have their types (the statements of investment.service.ts*)
(* as InvestmentRequests lists them).                                      *)
THEOREM RequestsAreTyped == FailingSpec => []RequestsTypeOK
<1>1. RequestsInit => RequestsIInv
  BY RequestsBegin
<1>2. RequestsIInv /\ [FailingNext]_requestVars => RequestsIInv'
  BY RequestsStep
<1>3. RequestsIInv => RequestsTypeOK
  BY RequestsTyped
<1>. QED  BY <1>1, <1>2, <1>3, PTL DEF FailingSpec

(* One request at a time, or two beside each other, are requests.          *)
LEMMA FaultyFailsStep == [FaultyNext]_faultyVars => [FailingNext]_requestVars
<1>. SUFFICES ASSUME [FaultyNext]_faultyVars PROVE [FailingNext]_requestVars
  OBVIOUS
<1>1. CASE UNCHANGED faultyVars
  BY <1>1 DEF faultyVars
<1>2. CASE FailingPart
  BY <1>2 DEF FailingPart
<1>3. CASE PairPart
  <2>1. ASSUME NEW r \in Slots, NEW i \in Investments, PairBegins(r, i) PROVE Begins(r, i)
    BY <2>1 DEF PairBegins, Begins, Services
  <2>. QED  BY <1>3, <2>1 DEF PairPart, PairNext, FailingNext, RequestsNext
<1>. QED  BY <1>1, <1>2, <1>3 DEF FaultyNext

(* The same of their behaviours.                                           *)
LEMMA FaultyFails == FaultySpec => FailingSpec
<1>1. FaultyInit => RequestsInit
  BY DEF FaultyInit
<1>. QED  BY <1>1, FaultyFailsStep, PTL DEF FaultySpec, FailingSpec

(* The same of the requests one at a time or two beside each other.        *)
THEOREM FaultyRequestsAreTyped == FaultySpec => []RequestsTypeOK
BY FaultyFails, RequestsAreTyped, PTL

-----------------------------------------------------------------------------
(***************************************************************************)
(* RegenerationRepairs, for schedules that findByInvestment returns whole. *)
(*                                                                         *)
(* Nothing is assumed of the rows a regeneration finds.  Having deleted    *)
(* the unpaid ones, it inserts after the paid ones it has read; since it   *)
(* runs on its own these are the paid rows there are, so that nothing is   *)
(* in the way, and what it leaves is the schedule of Rebuilt: there is a   *)
(* row, the last one clears, one at most is upcoming (RowsLeft).  The      *)
(* statements that follow, and a sweep between any two of them, keep that. *)
(***************************************************************************)

RowsLeft(rows) == DOMAIN rows # {} /\ Clears(rows) /\ OneUpcoming(rows)

(* When the request is to choose the next payment, that is the only row    *)
(* which may be upcoming.                                                  *)
OnlyChosen(q, rows) ==
    Normalises(q) => \A s \in DOMAIN rows : rows[s].status = "upcoming" => s = NextOpen(q.rows)

(* What a regeneration knows of the rows.                                  *)
Repairing(q, rows) ==
    /\ q.todo[1] = "deleteUnpaid" => PaidOnly(rows) = PaidOnly(q.rows)
    /\ q.todo[1] = "insertRows" => rows = PaidOnly(q.rows)
    /\ "insertRows" \notin Elements(q.todo) => RowsLeft(rows)
    /\ q.todo[1] = "promote" => OnlyChosen(q, rows)

Repairs ==
    \A r \in Slots :
        requests[r].alone /\ requests[r].op = "regenerate" /\ InFlight(r) =>
            Repairing(requests[r], payments[requests[r].i])

-----------------------------------------------------------------------------
(* A regeneration that executed a statement executes one that follows it.  *)
LEMMA GoesOn ==
    ASSUME NEW q \in RequestRecord, TodoOK(q), Len(q.todo) > 0, Advanced(q).todo # << >>
    PROVE  /\ Advanced(q).rows = q.rows /\ Advanced(q).held = q.held /\ Advanced(q).i = q.i
           /\ Advanced(q).op = q.op /\ Advanced(q).s = q.s /\ Advanced(q).alone = q.alone
           /\ Advanced(q).row = q.row /\ Advanced(q).inv = q.inv
           /\ Follows(q.todo[1], Advanced(q).todo[1])
           /\ q.op = "regenerate" => RegenerateFollows(q.todo[1], Advanced(q).todo[1])
           /\ Advanced(q).todo[1] \in Elements(Advanced(q).todo)
           /\ Elements(Advanced(q).todo) \subseteq Elements(q.todo)
           /\ Elements(q.todo) \subseteq {q.todo[1]} \cup Elements(Advanced(q).todo)
<1>1. PICK t \in Seq(Statements) : t = q.todo
  BY DEF RequestRecord
<1>2. Advanced(q) = [q EXCEPT !.todo = Tail(@)] /\ Len(t) > 1
  BY <1>1, AdvancedKnows
<1>3. PICK u : u = Tail(t)
  OBVIOUS
<1>4. u \in Seq(Statements) /\ Len(u) = Len(t) - 1 /\ \A k \in 1..Len(u) : u[k] = t[k + 1]
  BY <1>1, <1>2, <1>3, HeadTailProperties
<1>5. /\ Advanced(q).rows = q.rows /\ Advanced(q).held = q.held /\ Advanced(q).i = q.i
      /\ Advanced(q).op = q.op /\ Advanced(q).s = q.s /\ Advanced(q).alone = q.alone
      /\ Advanced(q).row = q.row /\ Advanced(q).inv = q.inv /\ Advanced(q).todo = u
  BY <1>1, <1>2, <1>3 DEF RequestRecord
<1>6. /\ 1 \in 1..Len(u) /\ 2 \in 1..Len(t) /\ u[1] = t[2] /\ 2 > 1 /\ 2 - 1 = 1
  BY <1>2, <1>4
<1>7. /\ Follows(t[1], u[1])
      /\ q.op = "regenerate" => RegenerateFollows(t[1], u[1])
  BY <1>1, <1>6 DEF TodoOK, Chained, RegenerateChained
<1>8. u[1] \in Elements(u)
  BY <1>6 DEF Elements
<1>9. Elements(u) \subseteq Elements(t)
  <2>1. \A k \in 1..Len(u) : k + 1 \in 1..Len(t)
    BY <1>4
  <2>. QED  BY <1>4, <2>1 DEF Elements
<1>10. Elements(t) \subseteq {t[1]} \cup Elements(u)
  <2>. SUFFICES ASSUME NEW k \in 1..Len(t), k # 1 PROVE t[k] \in Elements(u)
    BY DEF Elements
  <2>1. k - 1 \in 1..Len(u) /\ (k - 1) + 1 = k
    BY <1>4
  <2>. QED  BY <1>4, <2>1 DEF Elements
<1>. QED  BY <1>1, <1>5, <1>7, <1>8, <1>9, <1>10

(* What a regeneration is about to execute.                                *)
LEMMA RegenerateHead ==
    ASSUME NEW q \in RequestRecord, TodoOK(q), Len(q.todo) > 0, q.op = "regenerate"
    PROVE  q.todo[1] \in {"loadInvestment", "readRows", "deleteUnpaid", "insertRows",
                          "clearEvents", "writeEvents", "markOverdue", "chooseNext", "demote",
                          "promote", "writeMeta"}
<1>1. PICK t \in Seq(Statements) : t = q.todo
  BY DEF RequestRecord
<1>2. RegenerateChained(t) /\ t[Len(t)] = "markOverdue" /\ Len(t) \in Nat
  BY <1>1 DEF TodoOK
<1>3. CASE Len(t) = 1
  BY <1>1, <1>2, <1>3
<1>4. CASE Len(t) # 1
  <2>1. 2 \in 1..Len(t) /\ 2 > 1 /\ 2 - 1 = 1
    <3>1. \A n \in Nat : n > 0 /\ n # 1 => 2 \in 1..n
      OBVIOUS
    <3>2. Len(t) > 0
      BY <1>1
    <3>3. 2 \in 1..Len(t)
      BY <1>2, <1>4, <3>1, <3>2, Zenon
    <3>4. 2 > 1 /\ 2 - 1 = 1
      OBVIOUS
    <3>. QED  BY <3>3, <3>4, Zenon
  <2>2. RegenerateFollows(t[1], t[2])
    BY <1>2, <2>1 DEF RegenerateChained
  <2>. QED  BY <1>1, <2>2 DEF RegenerateFollows
<1>. QED  BY <1>3, <1>4

(* It has executed a statement that inserts nothing.                       *)
LEMMA RepairingGoes ==
    ASSUME NEW q \in RequestRecord, TodoOK(q), Len(q.todo) > 0, q.op = "regenerate",
           NEW p \in RequestRecord, p.todo = q.todo, p.op = q.op, p.i = q.i, TodoOK(p),
           Advanced(p).todo # << >>, q.todo[1] # "insertRows", NEW rows,
           "insertRows" \notin Elements(q.todo) => RowsLeft(rows),
           q.todo[1] = "readRows" => PaidOnly(rows) = PaidOnly(p.rows),
           q.todo[1] = "deleteUnpaid" => rows = PaidOnly(p.rows),
           q.todo[1] = "demote" => OnlyChosen(p, rows)
    PROVE  Repairing(Advanced(p), rows)
<1>1. /\ Advanced(p).rows = p.rows /\ RegenerateFollows(q.todo[1], Advanced(p).todo[1])
      /\ Elements(q.todo) \subseteq {q.todo[1]} \cup Elements(Advanced(p).todo)
  BY GoesOn
<1>2. OnlyChosen(p, rows) => OnlyChosen(Advanced(p), rows)
  BY <1>1 DEF OnlyChosen, Normalises
<1>3. Advanced(p).todo[1] = "deleteUnpaid" => q.todo[1] = "readRows"
  BY <1>1 DEF RegenerateFollows
<1>4. Advanced(p).todo[1] = "insertRows" => q.todo[1] = "deleteUnpaid"
  BY <1>1 DEF RegenerateFollows
<1>5. Advanced(p).todo[1] = "promote" => q.todo[1] = "demote"
  BY <1>1 DEF RegenerateFollows
<1>. QED  BY <1>1, <1>2, <1>3, <1>4, <1>5 DEF Repairing

(* Sweeps and markings leave the rows that count.                          *)
LEMMA MarkedLeaves ==
    ASSUME NEW rows, IsRows(rows), today \in Nat
    PROVE  /\ PaidOnly(MarkedOverdue(rows)) = PaidOnly(rows)
           /\ RowsLeft(rows) => RowsLeft(MarkedOverdue(rows))
           /\ \A q : OnlyChosen(q, rows) => OnlyChosen(q, MarkedOverdue(rows))
           /\ (\A s \in DOMAIN rows : rows[s].status \in Paid) => MarkedOverdue(rows) = rows
<1>. PICK new : new = MarkedOverdue(rows)
  OBVIOUS
<1>1. /\ DOMAIN new = DOMAIN rows /\ IsRows(new)
      /\ \A s \in DOMAIN rows :
            /\ new[s].remaining = rows[s].remaining
            /\ \/ new[s].status = rows[s].status
               \/ new[s].status = "overdue" /\ rows[s].status \in Awaited
  BY MarkedFacts
<1>2. \A s \in DOMAIN rows : rows[s].status \in Paid => new[s] = rows[s]
  BY DEF MarkedOverdue, Paid, Awaited
<1>3. \A s \in DOMAIN rows : new[s].status \in Paid <=> rows[s].status \in Paid
  BY <1>1 DEF Paid, Awaited
<1>4. PaidOnly(new) = PaidOnly(rows)
  <2>1. {s \in DOMAIN new : new[s].status \in Paid} = {s \in DOMAIN rows : rows[s].status \in Paid}
    BY <1>1, <1>3
  <2>. QED  BY <1>2, <2>1 DEF PaidOnly, Restrict
<1>5. ASSUME RowsLeft(rows) PROVE RowsLeft(new)
  <2>1. Highest(DOMAIN rows) \in DOMAIN rows
    BY <1>5, HighestIn DEF RowsLeft, IsRows
  <2>2. OneUpcoming(new)
    <3>1. \A s \in DOMAIN rows : new[s].status = "upcoming" => rows[s].status = "upcoming"
      BY <1>1
    <3>. QED  BY <1>1, <1>5, <3>1 DEF RowsLeft, OneUpcoming
  <2>. QED  BY <1>1, <1>5, <2>1, <2>2 DEF RowsLeft, Clears
<1>6. ASSUME NEW q, OnlyChosen(q, rows) PROVE OnlyChosen(q, new)
  BY <1>1, <1>6 DEF OnlyChosen
<1>7. ASSUME \A s \in DOMAIN rows : rows[s].status \in Paid PROVE new = rows
  <2>1. new = [s \in DOMAIN rows |-> new[s]] /\ rows = [s \in DOMAIN rows |-> rows[s]]
    BY DEF MarkedOverdue, IsRows
  <2>. QED  BY <1>2, <1>7, <2>1
<1>. QED  BY <1>4, <1>5, <1>6, <1>7

(* The same of what a regeneration knows.                                  *)
LEMMA RepairingMarked ==
    ASSUME NEW q, NEW rows, IsRows(rows), today \in Nat, Repairing(q, rows)
    PROVE  Repairing(q, MarkedOverdue(rows))
<1>1. ASSUME rows = PaidOnly(q.rows) PROVE \A s \in DOMAIN rows : rows[s].status \in Paid
  <2>1. DOMAIN rows = {s \in DOMAIN q.rows : q.rows[s].status \in Paid}
        /\ \A s \in DOMAIN rows : rows[s] = q.rows[s]
    BY <1>1 DEF PaidOnly, Restrict
  <2>. QED  BY <2>1
<1>. QED  BY <1>1, MarkedLeaves DEF Repairing

-----------------------------------------------------------------------------
(* What a regeneration inserts.                                            *)

(* Of the rows it has read there are some left, or it makes some.          *)
LEMMA RebuiltLeft ==
    ASSUME MaxSeq <= PageLimit, NEW rows, IsRows(rows), NEW inv \in InvestmentDoc,
           RegenerateFits(inv, rows), today \in Nat
    PROVE  RowsLeft(Rebuilt(inv, rows))
<1>1. /\ PaidSeen(rows) = DOMAIN PaidOnly(rows)
      /\ Inserted(inv, rows) = NewSeqs(inv, rows)
  BY RegenerateSees
<1>2. /\ \A s \in DOMAIN PaidOnly(rows) : PaidOnly(rows)[s].status \in Paid
      /\ LastPaidSeq(rows) \in 0..MaxSeq /\ NewSeqs(inv, rows) \subseteq 1..MaxSeq
  BY PaidOnlyFacts, RegenerateReads
<1>. PICK new : new = Rebuilt(inv, rows)
  OBVIOUS
<1>3. /\ DOMAIN new = DOMAIN PaidOnly(rows) \cup NewSeqs(inv, rows)
      /\ \A s \in DOMAIN new :
            new[s] = IF s \in DOMAIN PaidOnly(rows) THEN PaidOnly(rows)[s]
                     ELSE RegeneratedRow(inv, rows, s)
  BY <1>1 DEF Rebuilt
<1>4. Clears(new)
  BY <1>3, RebuiltFine
<1>5. OneUpcoming(new)
  <2>. SUFFICES ASSUME NEW s \in DOMAIN new, NEW u \in DOMAIN new,
                       new[s].status = "upcoming", new[u].status = "upcoming"
                PROVE  s = u
    BY DEF OneUpcoming
  <2>1. \A x \in DOMAIN new : new[x].status = "upcoming" =>
            /\ x \in NewSeqs(inv, rows) /\ new[x] = RegeneratedRow(inv, rows, x)
    BY <1>2, <1>3 DEF Paid
  <2>2. \A x \in NewSeqs(inv, rows) : RegeneratedRow(inv, rows, x).status = "upcoming" =>
            /\ ~(inv.terms.start + x < today)
            /\ \A y \in NewSeqs(inv, rows) : y < x => inv.terms.start + y < today
    BY RegeneratedRowFacts
  <2>3. s \in 1..MaxSeq /\ u \in 1..MaxSeq
    BY <1>2, <2>1
  <2>4. ~(s < u) /\ ~(u < s)
    BY <2>1, <2>2
  <2>. QED  BY <2>3, <2>4, BoundsAssumption
<1>6. DOMAIN new # {}
  <2>1. CASE ~Settled(inv, rows)
    <3>1. RemainingTerm(inv, rows) >= 1 /\ RemainingTerm(inv, rows) \in Int
      BY <2>1, TermPositive, RegenerateReads
    <3>2. LastPaidSeq(rows) + 1 \in LastPaidSeq(rows) + 1 .. LastPaidSeq(rows) + RemainingTerm(inv, rows)
      BY <1>2, <3>1
    <3>. QED  BY <1>3, <2>1, <3>2 DEF NewSeqs
  <2>2. CASE Settled(inv, rows)
    <3>1. inv.terms.principal \in 1..MaxPrincipal
      BY TermsAssumption DEF InvestmentDoc
    <3>2. inv.terms.principal # 0
      BY <3>1, BoundsAssumption
    <3>3. PaidSeen(rows) # {}
      BY <2>2, <3>2 DEF Settled, RemainingPrincipal
    <3>. QED  BY <1>1, <1>3, <3>3
  <2>. QED  BY <2>1, <2>2
<1>. QED  BY <1>3, <1>4, <1>5, <1>6 DEF RowsLeft

(* On its own it finds nothing in the way.                                 *)
LEMMA InsertsRebuilt ==
    ASSUME MaxSeq <= PageLimit, RequestsIInv, NEW r \in Slots, InsertRows(r),
           payments[requests[r].i] = PaidOnly(requests[r].rows)
    PROVE  /\ payments'[requests[r].i] = Rebuilt(requests[r].inv, requests[r].rows)
           /\ RowsLeft(payments'[requests[r].i])
<1>1. PICK q \in RequestRecord : q = requests[r] /\ q.i \in Investments
  BY FlightHas DEF InsertRows, Doing
<1>2. IsRows(q.rows) /\ q.inv \in InvestmentDoc /\ RegenerateFits(q.inv, q.rows) /\ today \in Nat
  BY <1>1, RowsAre DEF RequestRecord, InsertRows, RequestsIInv, DocumentsTyped
<1>. PICK new, old : new = RegeneratedTail(q) /\ old = PaidOnly(q.rows)
  OBVIOUS
<1>3. /\ DOMAIN new = NewSeqs(q.inv, q.rows)
      /\ \A s \in DOMAIN new : new[s] = RegeneratedRow(q.inv, q.rows, s)
  BY DEF RegeneratedTail
<1>4. /\ DOMAIN new \cap DOMAIN old = {}
      /\ Inserted(q.inv, q.rows) = DOMAIN new
  BY <1>2, <1>3, RegenerateSees DEF InsertFails, Clash
<1>5. payments' = [payments EXCEPT ![q.i] =
                      [s \in DOMAIN old \cup DOMAIN new |->
                          IF s \in DOMAIN new THEN new[s] ELSE old[s]]]
  <2>1. PICK fits : fits = {s \in DOMAIN new : \A u \in DOMAIN new \cap DOMAIN old : s < u}
    OBVIOUS
  <2>2. WritesRows(q.i, [s \in DOMAIN old \cup fits |-> IF s \in fits THEN new[s] ELSE old[s]])
    BY <1>1, <2>1, Zenon DEF InsertRows, InsertsRows
  <2>3. fits = DOMAIN new
    BY <1>4, <2>1
  <2>. QED  BY <2>2, <2>3 DEF WritesRows
<1>6. payments'[q.i] = [s \in DOMAIN old \cup DOMAIN new |->
                            IF s \in DOMAIN new THEN new[s] ELSE old[s]]
  BY <1>1, <1>5 DEF RequestsIInv, DocumentsTyped
<1>7. payments'[q.i] = Rebuilt(q.inv, q.rows)
  <2>1. Rebuilt(q.inv, q.rows) = [s \in DOMAIN old \cup DOMAIN new |->
            IF s \in DOMAIN old THEN old[s] ELSE RegeneratedRow(q.inv, q.rows, s)]
    BY <1>3, <1>4 DEF Rebuilt
  <2>. QED  BY <1>3, <1>4, <1>6, <2>1
<1>. QED  BY <1>1, <1>2, <1>7, RebuiltLeft

(* A regeneration that has inserted goes on with the timeline, or with the *)
(* refresh.                                                                *)
LEMMA AfterInsert ==
    ASSUME NEW q \in RequestRecord, TodoOK(q), Len(q.todo) > 0, q.op = "regenerate",
           q.todo[1] = "insertRows",
           NEW p \in RequestRecord, TodoOK(p), Len(p.todo) > 0, p.op = "regenerate",
           p.todo = q.todo \/ p.todo = SubSeq(q.todo, 3, Len(q.todo)),
           Advanced(p).todo # << >>
    PROVE  /\ Advanced(p).todo[1] \notin {"deleteUnpaid", "insertRows", "promote"}
<1>1. RegenerateFollows(p.todo[1], Advanced(p).todo[1])
  BY GoesOn
<1>2. CASE p.todo = q.todo
  BY <1>1, <1>2 DEF RegenerateFollows
<1>3. CASE p.todo = SubSeq(q.todo, 3, Len(q.todo))
  <2>1. PICK t \in Seq(Statements) : t = q.todo
    BY DEF RequestRecord
  <2>2. Len(t) \in Nat /\ 1 + 4 <= Len(t) + 0
    <3>1. 1 \in 1..Len(q.todo) /\ q.todo[1] \in Skipping
      BY <2>1 DEF Skipping
    <3>. QED  BY <2>1, <3>1 DEF TodoOK, Room
  <2>3. /\ 2 \in 1..Len(t) /\ 3 \in 1..Len(t) /\ 2 > 1 /\ 3 > 1 /\ 2 - 1 = 1 /\ 3 - 1 = 2
    BY <2>2
  <2>4. RegenerateFollows(t[1], t[2]) /\ RegenerateFollows(t[2], t[3])
    BY <2>1, <2>3 DEF TodoOK, RegenerateChained
  <2>5. t[3] = "writeEvents"
    BY <2>1, <2>4 DEF RegenerateFollows
  <2>6. SubSeq(t, 3, Len(t))[1] = t[3]
    <3>1. 1 \in 1..(Len(t) - 3 + 1) /\ 3 \in 1..(Len(t) + 1) /\ Len(t) \in 3..Len(t)
      BY <2>2
    <3>. QED  BY <2>1, <3>1
  <2>. QED  BY <1>1, <1>3, <2>1, <2>5, <2>6 DEF RegenerateFollows
<1>. QED  BY <1>2, <1>3

(* What choosing the next payment leaves of the rows that count.           *)
LEMMA DemotedLeaves ==
    ASSUME NEW q, NEW rows, IsRows(rows), RowsLeft(rows)
    PROVE  RowsLeft(Demoted(q, rows))
<1>. PICK new : new = Demoted(q, rows)
  OBVIOUS
<1>1. /\ IsRows(new) /\ DOMAIN new = DOMAIN rows
      /\ \A s \in DOMAIN rows :
            /\ new[s].remaining = rows[s].remaining
            /\ new[s].status = "upcoming" => rows[s].status = "upcoming"
  BY DemotedFacts
<1>2. Highest(DOMAIN rows) \in DOMAIN rows
  BY HighestIn DEF RowsLeft, IsRows
<1>3. OneUpcoming(new)
  BY <1>1 DEF RowsLeft, OneUpcoming
<1>. QED  BY <1>1, <1>2, <1>3 DEF RowsLeft, Clears

(* Where only the chosen row is upcoming, what making it so leaves of the  *)
(* rows that count.                                                        *)
LEMMA PromotedLeaves ==
    ASSUME NEW q, NEW rows, IsRows(rows), q.held \subseteq DOMAIN rows, RowsLeft(rows),
           OnlyChosen(q, rows)
    PROVE  RowsLeft(Promoted(q, rows))
<1>. PICK new, n : new = Promoted(q, rows) /\ n = NextOpen(q.rows)
  OBVIOUS
<1>1. /\ DOMAIN new = DOMAIN rows
      /\ \/ new = rows
         \/ /\ Normalises(q) /\ n \in DOMAIN rows
            /\ new[n].remaining = rows[n].remaining
            /\ \A s \in DOMAIN rows : s # n => new[s] = rows[s]
  BY PromotedFacts
<1>2. CASE new = rows
  BY <1>2
<1>3. CASE new # rows
  <2>1. Highest(DOMAIN rows) \in DOMAIN rows
    BY HighestIn DEF RowsLeft, IsRows
  <2>2. \A s \in DOMAIN rows : rows[s].status = "upcoming" => s = n
    BY <1>1, <1>3 DEF OnlyChosen
  <2>3. OneUpcoming(new)
    BY <1>1, <1>3, <2>2 DEF OneUpcoming
  <2>. QED  BY <1>1, <1>3, <2>1, <2>3 DEF RowsLeft, Clears
<1>. QED  BY <1>2, <1>3

-----------------------------------------------------------------------------
(* What a statement does to the requests and to the rows, said once for    *)
(* all of them.                                                            *)

(* The statements after which a request goes on with other statements than *)
(* the next.                                                               *)
Jumping == {"loadPayment", "loadOutstanding", "findInvestment", "insertRows", "insertSchedule"}

(* n is what a statement left of the request q, that has more to do.       *)
LeftOf(n, q) ==
    /\ n.op = q.op /\ n.i = q.i /\ n.s = q.s /\ n.alone = q.alone
    /\ q.todo[1] \notin {"readRows", "chooseNext"} => n.rows = q.rows
    /\ q.todo[1] \notin {"chooseNext", "deleteUnpaid", "deleteAll"} => n.held = q.held
    /\ q.todo[1] \notin Jumping => n.todo = Tail(q.todo)

Fields == {"todo", "op", "i", "s", "alone", "rows", "held"}

(* A request that goes on has the fields it had.                           *)
LEMMA AdvancedFields ==
    ASSUME NEW p, Fields \subseteq DOMAIN p, Advanced(p).todo # << >>
    PROVE  /\ Advanced(p).op = p.op /\ Advanced(p).i = p.i /\ Advanced(p).s = p.s
           /\ Advanced(p).alone = p.alone /\ Advanced(p).rows = p.rows
           /\ Advanced(p).held = p.held /\ Advanced(p).todo = Tail(p.todo)
<1>1. Idle.todo = << >>
  BY DEF Idle
<1>2. Advanced(p) = [p EXCEPT !.todo = Tail(@)]
  BY <1>1 DEF Advanced
<1>. QED  BY <1>2 DEF Fields

(* What a statement leaves of its request and of the others.               *)
Done(r) ==
    LET q == requests[r]
        n == requests'[r]
    IN  /\ InFlight(r)
        /\ \A x \in Slots \ {r} :
              /\ requests'[x].todo = requests[x].todo /\ requests'[x].alone = requests[x].alone
              /\ requests'[x].op = requests[x].op
        /\ n.todo # << >> =>
              /\ LeftOf(n, q)
              /\ q.todo[1] \in {"readRows", "chooseNext"} => n.rows = payments[q.i]
              /\ q.todo[1] = "chooseNext" => n.held = DOMAIN payments[q.i]

(* p is the request q after it has read something.                         *)
Knows(p, q) ==
    /\ Fields \subseteq DOMAIN p
    /\ p.op = q.op /\ p.i = q.i /\ p.s = q.s /\ p.alone = q.alone
    /\ q.todo[1] \notin {"readRows", "chooseNext"} => p.rows = q.rows
    /\ q.todo[1] \notin {"chooseNext", "deleteUnpaid", "deleteAll"} => p.held = q.held
    /\ q.todo[1] \notin Jumping => p.todo = q.todo
    /\ q.todo[1] \in {"readRows", "chooseNext"} => p.rows = payments[q.i]
    /\ q.todo[1] = "chooseNext" => p.held = DOMAIN payments[q.i]

(* It goes on with what it has read, or ends.                              *)
LEMMA GoesDone ==
    ASSUME requests \in [Slots -> RequestRecord], NEW r \in Slots, InFlight(r),
           NEW p, Knows(p, requests[r]), Goes(r, p)
    PROVE  Done(r)
<1>1. requests'[r] = Advanced(p) /\ \A x \in Slots \ {r} : requests'[x] = requests[x]
  BY DEF Goes
<1>2. ASSUME Advanced(p).todo # << >>
      PROVE  /\ Advanced(p).op = p.op /\ Advanced(p).i = p.i /\ Advanced(p).s = p.s
             /\ Advanced(p).alone = p.alone /\ Advanced(p).rows = p.rows
             /\ Advanced(p).held = p.held /\ Advanced(p).todo = Tail(p.todo)
  BY <1>2, AdvancedFields DEF Knows
<1>. QED  BY <1>1, <1>2 DEF Done, LeftOf, Knows

(* A request that ends has nothing more to do.                             *)
LEMMA EndsDone ==
    ASSUME requests \in [Slots -> RequestRecord], NEW r \in Slots, InFlight(r), Ends(r)
    PROVE  Done(r)
<1>1. Idle.todo = << >>
  BY DEF Idle
<1>. QED  BY <1>1 DEF Done, Ends

(* The statements that change nothing of the request.                      *)
LEMMA PlainDone ==
    ASSUME RequestsIInv, NEW r \in Slots,
           \/ LoadInvestor(r) \/ ClearEvents(r) \/ WriteEvents(r) \/ MarkOverdue(r) \/ Demote(r)
           \/ Promote(r) \/ WriteMeta(r) \/ WriteTotals(r) \/ InsertInvestment(r)
           \/ WriteTerms(r) \/ WriteStatus(r) \/ SoftDelete(r) \/ WritePayment(r) \/ Credit(r)
           \/ Announce(r) \/ WriteCancelled(r) \/ InsertEarly(r)
    PROVE  Done(r)
<1>1. /\ requests \in [Slots -> RequestRecord]
      /\ InFlight(r) => Head(requests[r].todo) = requests[r].todo[1]
  BY FlightHas DEF RequestsIInv, RequestsKnow
<1>. DEFINE Plainly == InFlight(r) /\ (Ends(r) \/ Goes(r, requests[r]))
                          /\ Head(requests[r].todo) \notin Jumping \cup
                                {"readRows", "chooseNext", "deleteUnpaid", "deleteAll"}
<1>2. ASSUME LoadInvestor(r) PROVE Plainly
  BY <1>2 DEF LoadInvestor, Reads, Rejects, Doing, Jumping
<1>3. ASSUME ClearEvents(r) \/ WriteEvents(r) PROVE Plainly
  BY <1>3 DEF ClearEvents, WriteEvents, Doing, Jumping
<1>4. ASSUME MarkOverdue(r) \/ Demote(r) \/ Promote(r) PROVE Plainly
  BY <1>4 DEF MarkOverdue, Demote, Promote, Doing, Jumping
<1>5. ASSUME WriteMeta(r) \/ WriteTotals(r) PROVE Plainly
  BY <1>5 DEF WriteMeta, WriteTotals, Doing, Jumping
<1>6. ASSUME InsertInvestment(r) \/ SoftDelete(r) PROVE Plainly
  BY <1>6 DEF InsertInvestment, SoftDelete, Doing, Jumping
<1>7. ASSUME WriteTerms(r) \/ WriteStatus(r) PROVE Plainly
  BY <1>7 DEF WriteTerms, WriteStatus, Updates, Doing, Jumping
<1>8. ASSUME WritePayment(r) \/ WriteCancelled(r) PROVE Plainly
  <2>1. \/ Doing(r, "writePayment") /\ Goes(r, requests[r])
        \/ Doing(r, "writeCancelled") /\ Goes(r, requests[r])
    BY <1>8, Zenon DEF WritePayment, WriteCancelled
  <2>. QED  BY <2>1 DEF Doing, Jumping
<1>9. ASSUME Credit(r) \/ Announce(r) PROVE Plainly
  BY <1>9 DEF Credit, Announce, Doing, Jumping
<1>10. ASSUME InsertEarly(r) PROVE Plainly
  BY <1>10 DEF InsertEarly, Rejects, Doing, Jumping
<1>. HIDE DEF Plainly
<1>11. Plainly
  BY <1>2, <1>3, <1>4, <1>5, <1>6, <1>7, <1>8, <1>9, <1>10
<1>12. Plainly => Knows(requests[r], requests[r])
  BY <1>1 DEF Knows, Plainly, RequestRecord, Fields
<1>. QED  BY <1>1, <1>11, <1>12, GoesDone, EndsDone DEF Plainly

(* Those that read.                                                        *)
LEMMA ReadDone ==
    ASSUME RequestsIInv, NEW r \in Slots,
           LoadInvestment(r) \/ ReadRows(r) \/ ChooseNext(r) \/ SumTotals(r)
    PROVE  Done(r)
<1>1. InFlight(r) /\ requests \in [Slots -> RequestRecord]
  BY DEF LoadInvestment, ReadRows, ChooseNext, SumTotals, Doing, RequestsIInv, RequestsKnow
<1>2. PICK q \in RequestRecord : q = requests[r] /\ Head(q.todo) = q.todo[1]
  BY <1>1, FlightHas
<1>3. Fields \subseteq DOMAIN q
  BY DEF Fields, RequestRecord
<1>4. CASE LoadInvestment(r)
  <2>1. q.todo[1] = "loadInvestment"
    BY <1>2, <1>4 DEF LoadInvestment, Doing
  <2>2. PICK doc : doc = investments[q.i]
    OBVIOUS
  <2>3. PICK p : p = [q EXCEPT !.inv = doc]
    OBVIOUS
  <2>4. Knows(p, q)
    BY <1>3, <2>1, <2>3 DEF Knows, RequestRecord, Fields, Jumping
  <2>5. Goes(r, p) \/ Ends(r)
    BY <1>2, <1>4, <2>2, <2>3 DEF LoadInvestment, Reads, Rejects
  <2>. QED  BY <1>1, <1>2, <2>4, <2>5, GoesDone, EndsDone
<1>5. CASE ReadRows(r)
  <2>1. q.todo[1] = "readRows"
    BY <1>2, <1>5 DEF ReadRows, Doing
  <2>2. PICK rows : rows = payments[q.i]
    OBVIOUS
  <2>3. PICK p : p = [q EXCEPT !.rows = rows]
    OBVIOUS
  <2>4. Knows(p, q)
    BY <1>3, <2>1, <2>2, <2>3 DEF Knows, RequestRecord, Fields, Jumping
  <2>5. Goes(r, p)
    BY <1>2, <1>5, <2>2, <2>3 DEF ReadRows, Reads
  <2>. QED  BY <1>1, <1>2, <2>4, <2>5, GoesDone
<1>6. CASE ChooseNext(r)
  <2>1. q.todo[1] = "chooseNext"
    BY <1>2, <1>6 DEF ChooseNext, Doing
  <2>2. PICK rows, held : rows = payments[q.i] /\ held = DOMAIN rows
    OBVIOUS
  <2>3. PICK p : p = [q EXCEPT !.rows = rows, !.held = held]
    OBVIOUS
  <2>4. Knows(p, q)
    BY <1>3, <2>1, <2>2, <2>3 DEF Knows, RequestRecord, Fields, Jumping
  <2>5. Goes(r, p)
    BY <1>2, <1>6, <2>2, <2>3 DEF ChooseNext, Reads
  <2>. QED  BY <1>1, <1>2, <2>4, <2>5, GoesDone
<1>7. CASE SumTotals(r)
  <2>1. q.todo[1] = "sumTotals"
    BY <1>2, <1>7 DEF SumTotals, Doing
  <2>2. PICK sums : sums = <<TotalInvested(investments, q.inv.investor),
                             TotalOutstanding(investments, q.inv.investor)>>
    OBVIOUS
  <2>3. PICK p : p = [q EXCEPT !.sums = sums]
    OBVIOUS
  <2>4. Knows(p, q)
    BY <1>3, <2>1, <2>3 DEF Knows, RequestRecord, Fields, Jumping
  <2>5. Goes(r, p)
    BY <1>2, <1>7, <2>2, <2>3, Zenon DEF SumTotals, Reads
  <2>. QED  BY <1>1, <1>2, <2>4, <2>5, GoesDone
<1>. QED  BY <1>4, <1>5, <1>6, <1>7

(* Those after which the request goes on with other statements.            *)
LEMMA JumpsDone ==
    ASSUME RequestsIInv, NEW r \in Slots,
           \/ InsertRows(r) \/ InsertSchedule(r) \/ FindInvestment(r) \/ LoadPayment(r)
           \/ LoadOutstanding(r)
    PROVE  Done(r)
<1>1. InFlight(r) /\ requests \in [Slots -> RequestRecord]
  <2>1. InFlight(r)
    BY Zenon DEF InsertRows, InsertSchedule, FindInvestment, LoadPayment, LoadOutstanding, Doing
  <2>. QED  BY <2>1 DEF RequestsIInv, RequestsKnow
<1>2. PICK q \in RequestRecord : q = requests[r] /\ Head(q.todo) = q.todo[1]
  BY <1>1, FlightHas
<1>3. Fields \subseteq DOMAIN q
  BY DEF Fields, RequestRecord
<1>4. q.todo[1] \in Jumping
  <2>1. \E a \in Jumping : Doing(r, a)
    BY Zenon DEF InsertRows, InsertSchedule, FindInvestment, LoadPayment, LoadOutstanding, Jumping
  <2>. QED  BY <1>2, <2>1 DEF Doing
<1>5. ASSUME NEW p, Fields \subseteq DOMAIN p, p.op = q.op, p.i = q.i, p.s = q.s,
             p.alone = q.alone, p.rows = q.rows, p.held = q.held, Goes(r, p)
      PROVE  Done(r)
  <2>1. Knows(p, q)
    BY <1>4, <1>5 DEF Knows, Jumping
  <2>. QED  BY <1>1, <1>2, <1>5, <2>1, GoesDone
<1>6. CASE InsertRows(r) \/ InsertSchedule(r)
  <2>1. PICK new : InsertsRows(r, new)
    BY <1>6 DEF InsertRows, InsertSchedule
  <2>2. PICK fresh, t : /\ fresh = DOMAIN new
                        /\ t = IF new = << >> THEN SubSeq(q.todo, 3, Len(q.todo)) ELSE q.todo
    OBVIOUS
  <2>3. PICK p : p = [q EXCEPT !.fresh = fresh, !.todo = t]
    OBVIOUS
  <2>4. Ends(r) \/ Goes(r, p)
    BY <1>2, <2>1, <2>2, <2>3 DEF InsertsRows
  <2>5. /\ p.op = q.op /\ p.i = q.i /\ p.s = q.s /\ p.alone = q.alone /\ p.rows = q.rows
        /\ p.held = q.held /\ Fields \subseteq DOMAIN p
    BY <1>3, <2>3 DEF Fields
  <2>. QED  BY <1>1, <1>5, <2>4, <2>5, EndsDone
<1>7. CASE FindInvestment(r)
  <2>1. PICK doc, t : doc = investments[q.i] /\ t = SubSeq(q.todo, 5, Len(q.todo))
    OBVIOUS
  <2>2. CASE investments[q.i].state = "live"
    <3>1. PICK p : p = [q EXCEPT !.inv = doc]
      OBVIOUS
    <3>2. Goes(r, p)
      BY <1>2, <1>7, <2>1, <2>2, <3>1 DEF FindInvestment, Reads
    <3>3. /\ p.op = q.op /\ p.i = q.i /\ p.s = q.s /\ p.alone = q.alone /\ p.rows = q.rows
          /\ p.held = q.held /\ Fields \subseteq DOMAIN p
      BY <1>3, <3>1 DEF Fields
    <3>. QED  BY <1>5, <3>2, <3>3
  <2>3. CASE investments[q.i].state # "live"
    <3>1. PICK p : p = [q EXCEPT !.todo = t]
      OBVIOUS
    <3>2. Goes(r, p)
      BY <1>2, <1>7, <2>1, <2>3, <3>1 DEF FindInvestment, Reads
    <3>3. /\ p.op = q.op /\ p.i = q.i /\ p.s = q.s /\ p.alone = q.alone /\ p.rows = q.rows
          /\ p.held = q.held /\ Fields \subseteq DOMAIN p
      BY <1>3, <3>1 DEF Fields
    <3>. QED  BY <1>5, <3>2, <3>3
  <2>. QED  BY <2>2, <2>3
<1>8. CASE LoadPayment(r)
  <2>1. PICK a, b, t : \/ Ends(r)
                       \/ Goes(r, [q EXCEPT !.row = a, !.amount = b, !.todo = t])
    BY <1>2, <1>8, Zenon DEF LoadPayment, Reads, Rejects
  <2>2. PICK p : p = [q EXCEPT !.row = a, !.amount = b, !.todo = t]
    OBVIOUS
  <2>3. /\ p.op = q.op /\ p.i = q.i /\ p.s = q.s /\ p.alone = q.alone /\ p.rows = q.rows
        /\ p.held = q.held /\ Fields \subseteq DOMAIN p
    BY <1>3, <2>2 DEF Fields
  <2>4. Ends(r) \/ Goes(r, p)
    BY <2>1, <2>2
  <2>. QED  BY <1>1, <1>5, <2>3, <2>4, EndsDone
<1>9. CASE LoadOutstanding(r)
  <2>1. PICK a, b, t : \/ Ends(r)
                       \/ Goes(r, [q EXCEPT !.inv = a, !.row = b, !.todo = t])
    BY <1>2, <1>9, Zenon DEF LoadOutstanding, Reads, Rejects
  <2>2. PICK p : p = [q EXCEPT !.inv = a, !.row = b, !.todo = t]
    OBVIOUS
  <2>3. /\ p.op = q.op /\ p.i = q.i /\ p.s = q.s /\ p.alone = q.alone /\ p.rows = q.rows
        /\ p.held = q.held /\ Fields \subseteq DOMAIN p
    BY <1>3, <2>2 DEF Fields
  <2>4. Ends(r) \/ Goes(r, p)
    BY <2>1, <2>2
  <2>. QED  BY <1>1, <1>5, <2>3, <2>4, EndsDone
<1>. QED  BY <1>6, <1>7, <1>8, <1>9

(* Those that delete.                                                      *)
LEMMA DeletesDone ==
    ASSUME RequestsIInv, NEW r \in Slots, DeleteUnpaid(r) \/ DeleteAll(r)
    PROVE  Done(r)
<1>1. InFlight(r) /\ requests \in [Slots -> RequestRecord]
  BY DEF DeleteUnpaid, DeleteAll, Doing, RequestsIInv, RequestsKnow
<1>2. PICK q \in RequestRecord : q = requests[r] /\ Head(q.todo) = q.todo[1]
  BY <1>1, FlightHas
<1>3. Fields \subseteq DOMAIN q
  BY DEF Fields, RequestRecord
<1>4. PICK gone : DeletesRows(r, gone)
  BY DEF DeleteUnpaid, DeleteAll
<1>5. q.todo[1] \in {"deleteUnpaid", "deleteAll"}
  BY <1>2 DEF DeleteUnpaid, DeleteAll, Doing
<1>6. ASSUME NEW x \in Slots
      PROVE  \E known : requests'[x] = IF x = r THEN Advanced([requests[x] EXCEPT !.held = known])
                                        ELSE [requests[x] EXCEPT !.held = known]
  BY <1>4 DEF DeletesRows
<1>7. ASSUME NEW x \in Slots \ {r}
      PROVE  /\ requests'[x].todo = requests[x].todo /\ requests'[x].alone = requests[x].alone
             /\ requests'[x].op = requests[x].op
  <2>1. PICK known : requests'[x] = [requests[x] EXCEPT !.held = known]
    BY <1>6
  <2>2. Fields \subseteq DOMAIN requests[x]
    BY <1>1 DEF Fields, RequestRecord
  <2>. QED  BY <2>1, <2>2 DEF Fields
<1>8. PICK known : requests'[r] = Advanced([q EXCEPT !.held = known])
  BY <1>2, <1>6
<1>9. PICK p : p = [q EXCEPT !.held = known]
  OBVIOUS
<1>10. /\ p.op = q.op /\ p.i = q.i /\ p.s = q.s /\ p.alone = q.alone /\ p.rows = q.rows
       /\ p.todo = q.todo /\ Fields \subseteq DOMAIN p
  BY <1>3, <1>9 DEF Fields
<1>11. ASSUME Advanced(p).todo # << >>
       PROVE  /\ Advanced(p).op = p.op /\ Advanced(p).i = p.i /\ Advanced(p).s = p.s
              /\ Advanced(p).alone = p.alone /\ Advanced(p).rows = p.rows
              /\ Advanced(p).todo = Tail(p.todo)
  BY <1>10, <1>11, AdvancedFields
<1>. QED  BY <1>1, <1>2, <1>5, <1>7, <1>8, <1>9, <1>10, <1>11 DEF Done, LeftOf

(* Every statement.                                                        *)
LEMMA StatementDone ==
    ASSUME RequestsIInv, NEW r \in Slots, Statement(r)
    PROVE  Done(r)
BY PlainDone, ReadDone, JumpsDone, DeletesDone, Zenon DEF Statement

(* A statement is executed by the request at whose head it stands.         *)
LEMMA ExecutesHead ==
    ASSUME NEW r \in Slots, Statement(r), InFlight(r),
           requests[r].op = "regenerate", requests[r] \in RequestRecord, TodoOK(requests[r])
    PROVE  \/ LoadInvestment(r) \/ ReadRows(r) \/ DeleteUnpaid(r) \/ InsertRows(r)
           \/ ClearEvents(r) \/ WriteEvents(r)
           \/ MarkOverdue(r) \/ ChooseNext(r) \/ Demote(r) \/ Promote(r) \/ WriteMeta(r)
<1>1. requests[r].todo \in Seq(Statements) /\ requests[r].todo # << >>
  BY DEF RequestRecord, InFlight
<1>2. Head(requests[r].todo) = requests[r].todo[1] /\ Len(requests[r].todo) > 0
  BY <1>1
<1>3. Head(requests[r].todo) \in
          {"loadInvestment", "readRows", "deleteUnpaid", "insertRows", "clearEvents",
           "writeEvents", "markOverdue", "chooseNext", "demote", "promote", "writeMeta"}
  BY <1>2, RegenerateHead
<1>4. \A a \in {"loadInvestor", "deleteAll", "sumTotals", "writeTotals", "insertInvestment",
                "insertSchedule", "writeTerms", "writeStatus", "softDelete", "loadPayment",
                "writePayment", "findInvestment", "credit", "announce", "writeCancelled",
                "loadOutstanding", "insertEarly"} : ~Doing(r, a)
  BY <1>3 DEF Doing
<1>5. ~LoadInvestor(r) /\ ~DeleteAll(r) /\ ~SumTotals(r) /\ ~WriteTotals(r) /\ ~InsertInvestment(r)
  BY <1>4 DEF LoadInvestor, DeleteAll, SumTotals, WriteTotals, InsertInvestment
<1>6. ~InsertSchedule(r) /\ ~WriteTerms(r) /\ ~WriteStatus(r) /\ ~SoftDelete(r)
  BY <1>4 DEF InsertSchedule, WriteTerms, WriteStatus, SoftDelete, Updates
<1>7. ~LoadPayment(r)
  BY <1>4, Zenon DEF LoadPayment
<1>9. ~WritePayment(r) /\ ~FindInvestment(r)
  BY <1>4 DEF WritePayment, FindInvestment
<1>10. ~Credit(r) /\ ~Announce(r)
  BY <1>4, Zenon DEF Credit, Announce
<1>8. ~WriteCancelled(r) /\ ~LoadOutstanding(r) /\ ~InsertEarly(r)
  BY <1>4 DEF WriteCancelled, LoadOutstanding, InsertEarly
<1>. QED  BY <1>5, <1>6, <1>7, <1>8, <1>9, <1>10, Zenon DEF Statement

(* Each of its statements keeps what a regeneration knows of the rows.     *)
LEMMA RegenerationGoes ==
    ASSUME MaxSeq <= PageLimit, RequestsIInv, NEW r \in Slots, InFlight(r),
           requests[r].op = "regenerate", Repairing(requests[r], payments[requests[r].i]),
           Statement(r), InFlight(r)'
    PROVE  Repairing(requests'[r], payments'[requests'[r].i])
<1>1. PICK q \in RequestRecord : q = requests[r]
  BY FlightHas
<1>2. /\ TodoOK(q) /\ q.todo \in Seq(Statements) /\ Len(q.todo) > 0 /\ Head(q.todo) = q.todo[1]
      /\ q.held \subseteq DOMAIN payments[q.i] /\ q.op = "regenerate"
  BY <1>1, FlightHas
<1>3. PICK i \in Investments : i = q.i
  BY <1>1, FlightHas
<1>4. PICK rows : rows = payments[i] /\ IsRows(rows)
  BY <1>1, <1>3, FlightHas
<1>5. Repairing(q, rows) /\ today \in Nat
  BY <1>1, <1>3, <1>4 DEF RequestsIInv, DocumentsTyped
<1>6. /\ payments \in [Investments -> AllRows] /\ requests \in [Slots -> RequestRecord]
  BY DEF RequestsIInv, DocumentsTyped, RequestsKnow
<1>7. "insertRows" \in Elements(q.todo) \/ RowsLeft(rows)
  BY <1>5 DEF Repairing
<1>8. ASSUME NEW p \in RequestRecord, SameRequest(p, q), Goes(r, p), q.todo[1] # "insertRows",
             NEW new, payments'[i] = new,
             "insertRows" \notin Elements(q.todo) => RowsLeft(new),
             q.todo[1] = "readRows" => PaidOnly(new) = PaidOnly(p.rows),
             q.todo[1] = "deleteUnpaid" => new = PaidOnly(p.rows),
             q.todo[1] = "demote" => OnlyChosen(p, new)
      PROVE  Repairing(requests'[r], payments'[requests'[r].i])
  <2>1. requests'[r] = Advanced(p)
    BY <1>6, <1>8 DEF Goes
  <2>2. TodoOK(p) /\ Len(p.todo) > 0 /\ p.todo = q.todo /\ p.op = q.op /\ p.i = q.i
    BY <1>2, <1>8, TodoSame DEF SameRequest
  <2>3. Advanced(p).todo # << >>
    BY <2>1 DEF InFlight
  <2>4. Advanced(p).i = i
    BY <1>3, <2>2, <2>3, GoesOn
  <2>5. Repairing(Advanced(p), new)
    BY <1>2, <1>8, <2>2, <2>3, RepairingGoes
  <2>. QED  BY <1>8, <2>1, <2>4, <2>5
<1>9. \A p \in {q} : SameRequest(p, q)
  BY DEF SameRequest
<1>10. ~Rejects(r)
  <2>1. Idle.todo = << >>
    BY DEF Idle
  <2>. QED  BY <1>6, <2>1 DEF Rejects, Ends, InFlight
<1>11. CASE LoadInvestment(r)
  <2>1. q.todo[1] = "loadInvestment"
    BY <1>1, <1>2, <1>11 DEF LoadInvestment, Doing
  <2>2. PICK doc \in InvestmentDoc : doc = investments[i]
    BY DEF RequestsIInv, DocumentsTyped
  <2>3. PICK p : p = [q EXCEPT !.inv = doc]
    OBVIOUS
  <2>4. SameRequest(p, q) /\ p \in RequestRecord
    BY <2>3 DEF SameRequest, RequestRecord
  <2>5. Reads(r, p)
    BY <1>1, <1>3, <1>10, <1>11, <2>2, <2>3 DEF LoadInvestment
  <2>6. Goes(r, p) /\ payments'[i] = rows
    BY <1>4, <2>5 DEF Reads, vars
  <2>. QED  BY <1>7, <1>8, <2>1, <2>4, <2>6
<1>12. CASE ReadRows(r)
  <2>1. q.todo[1] = "readRows"
    BY <1>1, <1>2, <1>12 DEF ReadRows, Doing
  <2>3. PICK p : p = [q EXCEPT !.rows = rows]
    OBVIOUS
  <2>4. SameRequest(p, q) /\ p \in RequestRecord /\ p.rows = rows
    BY <1>4, <2>3, RowsAre DEF SameRequest, RequestRecord
  <2>5. Reads(r, p)
    BY <1>1, <1>3, <1>4, <1>12, <2>3 DEF ReadRows
  <2>6. Goes(r, p) /\ payments'[i] = rows
    BY <1>4, <2>5 DEF Reads, vars
  <2>. QED  BY <1>7, <1>8, <2>1, <2>4, <2>6
<1>13. CASE DeleteUnpaid(r)
  <2>1. q.todo[1] = "deleteUnpaid"
    BY <1>1, <1>2, <1>13 DEF DeleteUnpaid, Doing
  <2>2. PICK gone : gone = DOMAIN rows \ DOMAIN PaidOnly(rows)
    OBVIOUS
  <2>3. DeletesRows(r, gone)
    BY <1>1, <1>3, <1>4, <1>13, <2>2 DEF DeleteUnpaid
  <2>4. PICK new : new = [s \in DOMAIN rows \ gone |-> rows[s]]
    OBVIOUS
  <2>5. payments'[i] = new
    BY <1>1, <1>3, <1>4, <1>6, <2>3, <2>4 DEF DeletesRows, WritesRows
  <2>6. new = PaidOnly(rows) /\ PaidOnly(rows) = PaidOnly(q.rows)
    <3>1. DOMAIN PaidOnly(rows) \subseteq DOMAIN rows
          /\ PaidOnly(rows) = [s \in DOMAIN PaidOnly(rows) |-> rows[s]]
      BY DEF PaidOnly, Restrict
    <3>2. DOMAIN rows \ gone = DOMAIN PaidOnly(rows)
      BY <2>2, <3>1
    <3>. QED  BY <1>5, <2>1, <2>4, <3>1, <3>2 DEF Repairing
  <2>7. PICK known \in SUBSET (1..MaxSeq) : known = q.held \ gone
    BY DEF RequestRecord
  <2>8. PICK p : p = [q EXCEPT !.held = known]
    OBVIOUS
  <2>9. SameRequest(p, q) /\ p \in RequestRecord /\ p.rows = q.rows
    BY <2>8 DEF SameRequest, RequestRecord
  <2>10. requests'[r] = Advanced(p)
    BY <1>1, <1>3, <2>3, <2>7, <2>8 DEF DeletesRows
  <2>11. TodoOK(p) /\ Len(p.todo) > 0 /\ p.todo = q.todo /\ p.op = q.op /\ p.i = q.i
    BY <1>2, <2>9, TodoSame DEF SameRequest
  <2>12. Advanced(p).todo # << >>
    BY <2>10 DEF InFlight
  <2>13. Advanced(p).i = i
    BY <1>3, <2>9, <2>11, <2>12, GoesOn
  <2>14. "insertRows" \notin Elements(q.todo) => RowsLeft(new)
    <3>1. Follows(q.todo[1], Advanced(p).todo[1]) /\ RegenerateFollows(q.todo[1], Advanced(p).todo[1])
          /\ Advanced(p).todo[1] \in Elements(Advanced(p).todo)
          /\ Elements(Advanced(p).todo) \subseteq Elements(q.todo)
      BY <1>2, <2>9, <2>11, <2>12, GoesOn
    <3>. QED  BY <2>1, <3>1 DEF RegenerateFollows
  <2>15. Repairing(Advanced(p), new)
    BY <1>2, <2>1, <2>6, <2>9, <2>11, <2>12, <2>14, RepairingGoes
  <2>. QED  BY <2>5, <2>10, <2>13, <2>15
<1>14. CASE InsertRows(r)
  <2>1. q.todo[1] = "insertRows"
    BY <1>1, <1>2, <1>14 DEF InsertRows, Doing
  <2>2. payments[requests[r].i] = PaidOnly(requests[r].rows)
    BY <1>1, <1>3, <1>4, <1>5, <2>1 DEF Repairing
  <2>3. RowsLeft(payments'[i])
    BY <1>1, <1>3, <1>14, <2>2, InsertsRebuilt
  <2>4. PICK p \in RequestRecord :
          /\ TodoOK(p) /\ Len(p.todo) > 0 /\ p.i = i /\ p.op = q.op
          /\ Later(p.todo, q.todo)
          /\ p.todo = q.todo \/ p.todo = SubSeq(q.todo, 3, Len(q.todo))
          /\ requests'[r] = Advanced(p)
    <3>1. PICK new : IsRows(new) /\ InsertsRows(r, new)
      BY <1>1, <1>5, <1>14, TailRows DEF InsertRows
    <3>2. q.todo[1] \in Skipping
      BY <2>1 DEF Skipping
    <3>3. \A p : Goes(r, p) => requests'[r] = Advanced(p)
      BY <1>6 DEF Goes
    <3>4. ~Ends(r)
      <4>1. Idle.todo = << >>
        BY DEF Idle
      <4>. QED  BY <1>6, <4>1 DEF Ends, InFlight
    <3>. QED  BY <1>1, <1>3, <3>1, <3>2, <3>3, <3>4, InsertsLeave
  <2>5. Advanced(p).todo # << >>
    BY <2>4 DEF InFlight
  <2>6. /\ Advanced(p).i = i
        /\ RegenerateFollows(p.todo[1], Advanced(p).todo[1])
    BY <1>2, <2>4, <2>5, GoesOn
  <2>7. Advanced(p).todo[1] \notin {"deleteUnpaid", "insertRows", "promote"}
    <3>1. p.op = "regenerate"
      BY <1>2, <2>4
    <3>. QED  BY <1>2, <2>1, <2>4, <2>5, <3>1, AfterInsert, Zenon
  <2>. QED  BY <2>3, <2>4, <2>6, <2>7 DEF Repairing
<1>15. CASE ClearEvents(r) \/ WriteEvents(r)
  <2>1. q.todo[1] \in {"clearEvents", "writeEvents"}
    BY <1>1, <1>2, <1>15 DEF ClearEvents, WriteEvents, Doing
  <2>2. Goes(r, q) /\ payments'[i] = rows
    BY <1>1, <1>4, <1>15 DEF ClearEvents, WriteEvents, WritesEvents
  <2>. QED  BY <1>7, <1>8, <1>9, <2>1, <2>2
<1>16. CASE MarkOverdue(r)
  <2>1. q.todo[1] = "markOverdue"
    BY <1>1, <1>2, <1>16 DEF MarkOverdue, Doing
  <2>2. Goes(r, q) /\ payments'[i] = MarkedOverdue(rows)
    BY <1>1, <1>3, <1>4, <1>6, <1>16 DEF MarkOverdue, WritesRows
  <2>3. RowsLeft(rows) => RowsLeft(MarkedOverdue(rows))
    BY <1>4, <1>5, MarkedLeaves
  <2>. QED  BY <1>7, <1>8, <1>9, <2>1, <2>2, <2>3
<1>17. CASE ChooseNext(r)
  <2>1. q.todo[1] = "chooseNext"
    BY <1>1, <1>2, <1>17 DEF ChooseNext, Doing
  <2>2. PICK held \in SUBSET (1..MaxSeq) : held = DOMAIN rows
    BY <1>4 DEF IsRows
  <2>3. PICK p : p = [q EXCEPT !.rows = rows, !.held = held]
    OBVIOUS
  <2>4. SameRequest(p, q) /\ p \in RequestRecord
    BY <1>4, <2>3, RowsAre DEF SameRequest, RequestRecord
  <2>5. Reads(r, p)
    BY <1>1, <1>3, <1>4, <1>17, <2>2, <2>3 DEF ChooseNext
  <2>6. Goes(r, p) /\ payments'[i] = rows
    BY <1>4, <2>5 DEF Reads, vars
  <2>. QED  BY <1>7, <1>8, <2>1, <2>4, <2>6
<1>18. CASE Demote(r)
  <2>1. q.todo[1] = "demote"
    BY <1>1, <1>2, <1>18 DEF Demote, Doing
  <2>2. Goes(r, q) /\ payments'[i] = Demoted(q, rows)
    BY <1>1, <1>3, <1>4, <1>6, <1>18 DEF Demote, Demoted, WritesRows
  <2>3. OnlyChosen(q, Demoted(q, rows))
    BY <1>4, DemotedFacts DEF OnlyChosen
  <2>4. RowsLeft(rows) => RowsLeft(Demoted(q, rows))
    BY <1>4, DemotedLeaves
  <2>. QED  BY <1>7, <1>8, <1>9, <2>1, <2>2, <2>3, <2>4
<1>19. CASE Promote(r)
  <2>1. q.todo[1] = "promote"
    BY <1>1, <1>2, <1>19 DEF Promote, Doing
  <2>2. Goes(r, q) /\ payments'[i] = Promoted(q, rows)
    BY <1>1, <1>3, <1>4, <1>6, <1>19 DEF Promote, Promoted, WritesRows
  <2>3. OnlyChosen(q, rows)
    BY <1>5, <2>1 DEF Repairing
  <2>4. RowsLeft(rows) => RowsLeft(Promoted(q, rows))
    BY <1>2, <1>3, <1>4, <2>3, PromotedLeaves
  <2>. QED  BY <1>7, <1>8, <1>9, <2>1, <2>2, <2>4
<1>20. CASE WriteMeta(r)
  <2>1. q.todo[1] = "writeMeta"
    BY <1>1, <1>2, <1>20 DEF WriteMeta, Doing
  <2>2. Goes(r, q) /\ payments'[i] = rows
    BY <1>1, <1>4, <1>20 DEF WriteMeta, WritesInvestment
  <2>. QED  BY <1>7, <1>8, <1>9, <2>1, <2>2
<1>. QED  BY <1>1, <1>2, <1>11, <1>12, <1>13, <1>14, <1>15, <1>16, <1>17, <1>18, <1>19, <1>20,
             ExecutesHead

(* What a request of an investment that was created begins with.           *)
ServingTodos ==
    {UpdateTodo, <<"loadInvestment", "writeStatus">> \o SyncTodo,
     <<"loadInvestment", "softDelete">> \o SyncTodo, RegenerateTodo, <<"loadPayment">>,
     <<"loadOutstanding">>, ListTodo}

(* A request of the investment i that has begun with its statements before *)
(* it.                                                                     *)
BegunAs(r, i, q) ==
    /\ Begin(r, q)
    /\ {"alone", "op", "i", "todo"} \subseteq DOMAIN q /\ q.i = i
    /\ q.op = "regenerate" => q.todo = RegenerateTodo
    /\ investments[i].state = "absent" => q.todo = CreateTodo
    /\ investments[i].state # "absent" => q.todo \in ServingTodos

(* Whatever is asked for begins as such a request.                         *)
LEMMA BeginsAs ==
    ASSUME NEW r \in Slots, NEW i \in Investments, Begins(r, i)
    PROVE  \E q : BegunAs(r, i, q)
<1>1. ASSUME NEW v, NEW t, NEW status, BeginCreate(r, i, v, t, status)
      PROVE  \E q : BegunAs(r, i, q)
  <2>1. PICK todo : todo = CreateTodo
    OBVIOUS
  <2>2. PICK q : q = [Idle EXCEPT !.op = "create", !.i = i, !.terms = t, !.status = status,
                                  !.inv = [Absent EXCEPT !.investor = v], !.todo = todo]
    OBVIOUS
  <2>3. Begin(r, q) /\ investments[i].state = "absent"
    BY <1>1, <2>1, <2>2, Zenon DEF BeginCreate, CreateTodo
  <2>4. /\ q.op = "create" /\ q.i = i /\ q.todo = todo
        /\ {"alone", "op", "i", "todo"} \subseteq DOMAIN q
    BY <2>2 DEF Idle
  <2>. QED  BY <2>1, <2>3, <2>4 DEF BegunAs
<1>2. ASSUME NEW q, Begin(r, q), {"alone", "op", "i", "todo"} \subseteq DOMAIN q, q.i = i,
             q.op = "regenerate" => q.todo = RegenerateTodo, q.todo \in ServingTodos,
             investments[i].state # "absent"
      PROVE  \E p : BegunAs(r, i, p)
  BY <1>2 DEF BegunAs
<1>3. ASSUME investments[i].state # "absent", NEW t, NEW repriced, NEW status,
             BeginUpdate(r, i, t, repriced, status)
      PROVE  \E q : BegunAs(r, i, q)
  <2>1. PICK todo : todo = UpdateTodo
    OBVIOUS
  <2>2. PICK q : q = [Idle EXCEPT !.op = "update", !.i = i, !.terms = t, !.repriced = repriced,
                                  !.status = status, !.todo = todo]
    OBVIOUS
  <2>3. Begin(r, q)
    BY <1>3, <2>1, <2>2, Zenon DEF BeginUpdate, UpdateTodo
  <2>4. /\ q.op = "update" /\ q.i = i /\ q.todo = todo
        /\ {"alone", "op", "i", "todo"} \subseteq DOMAIN q
    BY <2>2 DEF Idle
  <2>5. q.todo \in ServingTodos
    BY <2>1, <2>4, Zenon DEF ServingTodos
  <2>. QED  BY <1>2, <1>3, <2>3, <2>4, <2>5
<1>4. ASSUME investments[i].state # "absent", NEW status, BeginUpdateStatus(r, i, status)
      PROVE  \E q : BegunAs(r, i, q)
  <2>1. PICK todo : todo = <<"loadInvestment", "writeStatus">> \o SyncTodo
    OBVIOUS
  <2>2. PICK q : q = [Idle EXCEPT !.op = "updateStatus", !.i = i, !.status = status,
                                  !.todo = todo]
    OBVIOUS
  <2>3. Begin(r, q)
    BY <1>4, <2>1, <2>2, Zenon DEF BeginUpdateStatus
  <2>4. /\ q.op = "updateStatus" /\ q.i = i /\ q.todo = todo
        /\ {"alone", "op", "i", "todo"} \subseteq DOMAIN q
    BY <2>2 DEF Idle
  <2>5. q.todo \in ServingTodos
    BY <2>1, <2>4, Zenon DEF ServingTodos
  <2>. QED  BY <1>2, <1>4, <2>3, <2>4, <2>5
<1>5. ASSUME investments[i].state # "absent", NEW s,
             (\E amount : BeginMarkPaid(r, i, s, amount)) \/ BeginCancel(r, i, s)
      PROVE  \E q : BegunAs(r, i, q)
  <2>1. PICK todo, held : todo = <<"loadPayment">> /\ held = {s}
    OBVIOUS
  <2>2. PICK amount : BeginMarkPaid(r, i, s, amount) \/ BeginCancel(r, i, s)
    BY <1>5
  <2>3. PICK q1, q2 :
            /\ q1 = [Idle EXCEPT !.op = "markPaid", !.i = i, !.s = s, !.amount = amount,
                                 !.held = held, !.todo = todo]
            /\ q2 = [Idle EXCEPT !.op = "cancel", !.i = i, !.s = s, !.held = held, !.todo = todo]
    OBVIOUS
  <2>4. Begin(r, q1) \/ Begin(r, q2)
    BY <2>1, <2>2, <2>3, Zenon DEF BeginMarkPaid, BeginCancel
  <2>5. /\ q1.op = "markPaid" /\ q1.i = i /\ q1.todo = todo
        /\ {"alone", "op", "i", "todo"} \subseteq DOMAIN q1
        /\ q2.op = "cancel" /\ q2.i = i /\ q2.todo = todo
        /\ {"alone", "op", "i", "todo"} \subseteq DOMAIN q2
    BY <2>3 DEF Idle
  <2>6. todo \in ServingTodos
    BY <2>1, Zenon DEF ServingTodos
  <2>. QED  BY <1>2, <1>5, <2>4, <2>5, <2>6
<1>6. ASSUME investments[i].state # "absent", NEW amount, NEW portion,
             BeginEarlyRepayment(r, i, amount, portion)
      PROVE  \E q : BegunAs(r, i, q)
  <2>1. PICK todo : todo = <<"loadOutstanding">>
    OBVIOUS
  <2>2. PICK q : q = [Idle EXCEPT !.op = "early", !.i = i, !.amount = amount,
                                  !.portion = portion, !.todo = todo]
    OBVIOUS
  <2>3. Begin(r, q)
    BY <1>6, <2>1, <2>2, Zenon DEF BeginEarlyRepayment
  <2>4. /\ q.op = "early" /\ q.i = i /\ q.todo = todo
        /\ {"alone", "op", "i", "todo"} \subseteq DOMAIN q
    BY <2>2 DEF Idle
  <2>5. q.todo \in ServingTodos
    BY <2>1, <2>4, Zenon DEF ServingTodos
  <2>. QED  BY <1>2, <1>6, <2>3, <2>4, <2>5
<1>7. ASSUME investments[i].state # "absent",
             BeginRemove(r, i) \/ BeginRegenerate(r, i) \/ BeginList(r, i)
      PROVE  \E q : BegunAs(r, i, q)
  <2>1. PICK t1, t2, t3 : /\ t1 = <<"loadInvestment", "softDelete">> \o SyncTodo
                          /\ t2 = RegenerateTodo /\ t3 = ListTodo
    OBVIOUS
  <2>2. PICK q1, q2, q3 : /\ q1 = [Idle EXCEPT !.op = "remove", !.i = i, !.todo = t1]
                          /\ q2 = [Idle EXCEPT !.op = "regenerate", !.i = i, !.todo = t2]
                          /\ q3 = [Idle EXCEPT !.op = "list", !.i = i, !.todo = t3]
    OBVIOUS
  <2>3. Begin(r, q1) \/ Begin(r, q2) \/ Begin(r, q3)
    BY <1>7, <2>1, <2>2, Zenon DEF BeginRemove, BeginRegenerate, BeginList
  <2>4. /\ q1.op = "remove" /\ q1.i = i /\ q1.todo = t1
        /\ {"alone", "op", "i", "todo"} \subseteq DOMAIN q1
        /\ q2.op = "regenerate" /\ q2.i = i /\ q2.todo = t2
        /\ {"alone", "op", "i", "todo"} \subseteq DOMAIN q2
        /\ q3.op = "list" /\ q3.i = i /\ q3.todo = t3
        /\ {"alone", "op", "i", "todo"} \subseteq DOMAIN q3
    BY <2>2 DEF Idle
  <2>5. t1 \in ServingTodos /\ t2 \in ServingTodos /\ t3 \in ServingTodos
    BY <2>1, Zenon DEF ServingTodos
  <2>. QED  BY <1>2, <1>7, <2>1, <2>3, <2>4, <2>5
<1>8. CASE Creates(r, i)
  BY <1>1, <1>8 DEF Creates
<1>9. CASE Edits(r, i)
  BY <1>3, <1>4, <1>7, <1>9 DEF Edits
<1>10. CASE Services(r, i)
  BY <1>5, <1>6, <1>7, <1>10 DEF Services
<1>. QED  BY <1>8, <1>9, <1>10 DEF Begins

(* The request that has begun is the one that knows it runs on its own.    *)
LEMMA BegunAlone ==
    ASSUME RequestsIInv, NEW r \in Slots, NEW i \in Investments, Begins(r, i),
           NEW x \in Slots, requests'[x].alone, requests'[x].op = "regenerate"
    PROVE  requests'[x].todo = RegenerateTodo
<1>1. PICK q : BegunAs(r, i, q)
  BY BeginsAs
<1>2. \A p \in Slots :
         requests'[p] = IF p = r THEN [q EXCEPT !.alone = Quiet] ELSE [requests[p] EXCEPT !.alone = FALSE]
  BY <1>1 DEF BegunAs, Begin
<1>3. x = r
  <2>1. PICK old \in RequestRecord : old = requests[x]
    BY DEF RequestsIInv, RequestsKnow
  <2>2. [old EXCEPT !.alone = FALSE].alone = FALSE
    BY DEF RequestRecord
  <2>. QED  BY <1>2, <2>1, <2>2
<1>4. requests'[x].op = q.op /\ requests'[x].todo = q.todo
  <2>1. PICK quiet : quiet = Quiet
    OBVIOUS
  <2>2. requests'[x] = [q EXCEPT !.alone = quiet]
    BY <1>2, <1>3, <2>1
  <2>. QED  BY <1>1, <2>2 DEF BegunAs
<1>. QED  BY <1>1, <1>4 DEF BegunAs

(* A step keeps what the regenerations on their own know of the rows.      *)
LEMMA RepairsStep ==
    ASSUME MaxSeq <= PageLimit, RequestsIInv, Repairs, [FailingNext]_requestVars
    PROVE  Repairs'
<1>. SUFFICES ASSUME NEW x \in Slots, requests'[x].alone, requests'[x].op = "regenerate",
                     requests'[x].todo # << >>
              PROVE  Repairing(requests'[x], payments'[requests'[x].i])
  BY DEF Repairs, InFlight
<1>1. InFlight(x)' /\ requests \in [Slots -> RequestRecord]
  BY DEF InFlight, RequestsIInv, RequestsKnow
<1>2. ASSUME requests'[x] = requests[x]
      PROVE  Repairing(requests[x], payments[requests[x].i]) /\ requests[x].i \in Investments
  <2>1. requests[x].alone /\ requests[x].op = "regenerate" /\ InFlight(x)
    BY <1>2 DEF InFlight
  <2>. QED  BY <2>1, FlightHas DEF Repairs
<1>3. CASE UNCHANGED <<requests, payments>>
  BY <1>2, <1>3
<1>4. ASSUME NEW r \in Slots, Statement(r)
      PROVE  Repairing(requests'[x], payments'[requests'[x].i])
  <2>1. Done(r)
    BY <1>4, StatementDone
  <2>2. CASE x = r
    <3>1. InFlight(x) /\ requests[x].alone /\ requests[x].op = "regenerate"
      BY <2>1, <2>2 DEF Done, LeftOf
    <3>2. Repairing(requests[x], payments[requests[x].i])
      BY <3>1 DEF Repairs
    <3>. QED  BY <1>1, <1>4, <2>2, <3>1, <3>2, RegenerationGoes
  <2>3. CASE x # r
    BY <2>1, <2>3 DEF Done, RequestsIInv, RequestsKnow
  <2>. QED  BY <2>2, <2>3
<1>5. ASSUME NEW r \in Slots, NEW i \in Investments, Begins(r, i)
      PROVE  Repairing(requests'[x], payments'[requests'[x].i])
  <2>1. requests'[x].todo = RegenerateTodo
    BY <1>5, BegunAlone
  <2>2. "insertRows" \in Elements(RegenerateTodo) /\ RegenerateTodo[1] = "loadInvestment"
    BY RegenerateRun DEF Run, Regenerating
  <2>. QED  BY <2>1, <2>2 DEF Repairing
<1>6. CASE Single
  <2>1. requests'[x] = requests[x]
    BY <1>6 DEF Single
  <2>2. CASE SweepOverdue
    <3>3. PICK i \in Investments : i = requests[x].i
      BY <1>2, <2>1
    <3>1. PICK rows : i = requests[x].i /\ rows = payments[i]
      BY <3>3
    <3>2. payments'[i] = MarkedOverdue(rows) /\ IsRows(rows) /\ today \in Nat
      BY <2>2, <3>1, RowsAre DEF SweepOverdue, RequestsIInv, DocumentsTyped
    <3>. QED  BY <1>2, <2>1, <3>1, <3>2, RepairingMarked
  <2>3. CASE \E v \in Investors : RemoveInvestor(v)
    BY <1>2, <2>1, <2>3 DEF RemoveInvestor
  <2>. QED  BY <1>6, <2>2, <2>3 DEF Single
<1>7. CASE Clock
  <2>1. requests'[x] = requests[x] /\ ~InFlight(x)
    BY <1>7 DEF Clock, Quiet
  <2>. QED  BY <2>1 DEF InFlight
<1>8. ASSUME NEW r \in Slots, Fail(r)
      PROVE  Repairing(requests'[x], payments'[requests'[x].i])
  <2>1. Ends(r) /\ InFlight(r) /\ UNCHANGED payments
    BY <1>8 DEF Fail, Rejects, vars
  <2>2. CASE x = r
    <3>1. Idle.todo = << >>
      BY DEF Idle
    <3>. QED  BY <1>1, <2>1, <2>2, <3>1 DEF Ends
  <2>3. CASE x # r
    BY <1>1, <1>2, <2>1, <2>3 DEF Ends
  <2>. QED  BY <2>2, <2>3
<1>9. CASE UNCHANGED requestVars
  BY <1>3, <1>9 DEF requestVars, vars
<1>. QED  BY <1>4, <1>5, <1>6, <1>7, <1>8, <1>9 DEF FailingNext, RequestsNext

(* What a regeneration leaves is what it is to leave.                      *)
LEMMA RepairsRepair == RequestsIInv /\ Repairs => RegenerationRepairs
<1>. SUFFICES ASSUME RequestsIInv, Repairs, NEW r \in Slots,
                     requests[r].alone, requests[r].op = "regenerate",
                     requests[r].todo = <<"markOverdue">>,
                     NEW rows, rows = payments[requests[r].i]
              PROVE  /\ rows # << >> /\ rows[Highest(DOMAIN rows)].remaining = 0
                     /\ Cardinality({s \in DOMAIN rows : rows[s].status = "upcoming"}) <= 1
  BY DEF RegenerationRepairs
<1>1. InFlight(r) /\ "insertRows" \notin Elements(requests[r].todo)
  BY DEF InFlight, Elements
<1>2. RowsLeft(rows) /\ IsRows(rows)
  BY <1>1, FlightHas DEF Repairs, Repairing
<1>3. rows # << >>
  BY <1>2 DEF RowsLeft
<1>4. rows[Highest(DOMAIN rows)].remaining = 0
  BY <1>2 DEF RowsLeft, Clears
<1>5. Cardinality({s \in DOMAIN rows : rows[s].status = "upcoming"}) <= 1
  <2>1. PICK up : up = {s \in DOMAIN rows : rows[s].status = "upcoming"}
    OBVIOUS
  <2>2. CASE up = {}
    BY <2>1, <2>2, FS_EmptySet
  <2>3. CASE up # {}
    <3>1. PICK s : s \in up
      BY <2>3
    <3>2. up = {s}
      BY <1>2, <2>1, <3>1 DEF RowsLeft, OneUpcoming
    <3>3. Cardinality(up) = 1
      BY <3>2, FS_Singleton
    <3>. QED  BY <2>1, <3>3
  <2>. QED  BY <2>2, <2>3
<1>. QED  BY <1>3, <1>4, <1>5

(* Whatever requests that failed or ran beside each other have left of the *)
(* rows, a regeneration that runs on its own leaves some, of which the     *)
(* last clears the loan and one at most is upcoming, if findByInvestment   *)
(* returns a schedule whole (regenerateSchedule, investment.service.ts     *)
(* :273-351).                                                              *)
THEOREM RegenerationsRepair ==
    ASSUME MaxSeq <= PageLimit
    PROVE  FailingSpec => []RegenerationRepairs
<1>1. RequestsInit => RequestsIInv /\ Repairs
  <2>1. ASSUME RequestsInit PROVE Repairs
    <3>1. \A r \in Slots : requests[r].todo = << >>
      BY <2>1 DEF RequestsInit, Idle
    <3>. QED  BY <3>1 DEF Repairs, InFlight
  <2>. QED  BY <2>1, RequestsBegin
<1>2. RequestsIInv /\ Repairs /\ [FailingNext]_requestVars => RequestsIInv' /\ Repairs'
  BY RequestsStep, RepairsStep
<1>3. RequestsIInv /\ Repairs => RegenerationRepairs
  BY RepairsRepair
<1>. QED  BY <1>1, <1>2, <1>3, PTL DEF FailingSpec

(* The same of the requests one at a time or two beside each other.        *)
THEOREM FaultyRegenerationsRepair ==
    ASSUME MaxSeq <= PageLimit
    PROVE  FaultySpec => []RegenerationRepairs
BY FaultyFails, RegenerationsRepair, PTL

-----------------------------------------------------------------------------
(***************************************************************************)
(* FailuresLeaveRowsSound, of requests one at a time.                      *)
(*                                                                         *)
(* A statement relies on what the statements before it have found or left, *)
(* which no other request disturbs: rows are inserted where those left are *)
(* paid, those of a new loan where there are none; the row a payment or a  *)
(* cancellation writes is not completed; the next payment is chosen among  *)
(* the rows there are, and when it is made upcoming no other row is.  A    *)
(* sweep in between keeps all of this, and where the request stops or      *)
(* fails there is nothing left to rely on.                                 *)
(***************************************************************************)

(* The completed rows are among those the request has read.                *)
Seen(q, rows) ==
    \A s \in DOMAIN rows :
        rows[s].status = "completed" => s \in DOMAIN q.rows /\ q.rows[s].status = "completed"

(* What the next statement of a request relies on, of the rows.            *)
Sound(q, rows) ==
    /\ q.todo[1] = "insertRows" => \A s \in DOMAIN rows : rows[s].status \in Paid
    /\ q.todo[1] \in {"writePayment", "writeCancelled"} /\ q.s \in q.held =>
          rows[q.s].status # "completed"
    /\ q.todo[1] \in {"demote", "promote"} => Seen(q, rows)
    /\ q.todo[1] = "promote" => OnlyChosen(q, rows)
    /\ "insertSchedule" \in Elements(q.todo) => DOMAIN rows = {}

(* A payment is announced before the rows are touched again.               *)
Announced(todo) ==
    /\ todo[1] = "writePayment" => Len(todo) >= 6 /\ todo[6] = "announce"
    /\ todo[1] = "findInvestment" => Len(todo) >= 5 /\ todo[5] = "announce"

(* Only a request that creates a loan runs before it is there.             *)
Made(q, docs) ==
    q.todo[1] \notin {"loadInvestor", "insertInvestment"} => docs[q.i].state # "absent"

OneInFlight == \A r, p \in Slots : InFlight(r) /\ InFlight(p) => r = p

RowsSound ==
    /\ AtMostOneUpcoming /\ RowsOfCreated /\ OneInFlight
    /\ \A r \in Slots : InFlight(r) =>
          /\ Sound(requests[r], payments[requests[r].i])
          /\ Announced(requests[r].todo) /\ Made(requests[r], investments)

-----------------------------------------------------------------------------
(* The rest of a list of statements.                                       *)
LEMMA RestOf ==
    ASSUME NEW t \in Seq(Statements), Len(t) > 0, Chained(t), NEW u, u = Tail(t), u # << >>
    PROVE  /\ u \in Seq(Statements) /\ Len(u) > 0 /\ Len(u) = Len(t) - 1
           /\ \A k \in 1..Len(u) : u[k] = t[k + 1]
           /\ Follows(t[1], u[1])
           /\ u[1] \in Elements(u) /\ Elements(u) \subseteq Elements(t) /\ t[1] \in Elements(t)
<1>1. u \in Seq(Statements) /\ Len(u) = Len(t) - 1 /\ \A k \in 1..Len(u) : u[k] = t[k + 1]
  BY HeadTailProperties
<1>2. Len(u) > 0 /\ Len(t) \in Nat /\ Len(u) \in Nat
  BY <1>1
<1>3. /\ 1 \in 1..Len(u) /\ 2 \in 1..Len(t) /\ 1 \in 1..Len(t) /\ 2 > 1 /\ 2 - 1 = 1 /\ 1 + 1 = 2
  BY <1>1, <1>2
<1>4. Follows(t[1], u[1])
  BY <1>1, <1>3 DEF Chained
<1>5. Elements(u) \subseteq Elements(t)
  <2>1. \A k \in 1..Len(u) : k + 1 \in 1..Len(t)
    BY <1>1, <1>2
  <2>. QED  BY <1>1, <2>1 DEF Elements
<1>6. u[1] \in Elements(u) /\ t[1] \in Elements(t)
  BY <1>3 DEF Elements
<1>. QED  BY <1>1, <1>2, <1>4, <1>5, <1>6

(* The statements todo come after the statement a of a request whose list  *)
(* was before; those that rely on something come after the one that found  *)
(* or left it.                                                             *)
GoesTo(before, todo) ==
    LET a == before[1]
        b == todo[1]
    IN  /\ b = "insertRows" => a = "deleteUnpaid"
        /\ b \in {"writePayment", "writeCancelled"} => a = "loadPayment"
        /\ b = "demote" => a = "chooseNext"
        /\ b = "promote" => a = "demote"
        /\ "insertSchedule" \in Elements(todo) =>
              /\ "insertSchedule" \in Elements(before)
              /\ a \in {"loadInvestor", "insertInvestment", "loadInvestment", "deleteAll"}
        /\ b \notin {"loadInvestor", "insertInvestment"} => a # "loadInvestor"
        /\ Announced(todo)

(* A request that does not jump goes on with the next statement.           *)
LEMMA RestGoesTo ==
    ASSUME NEW q \in RequestRecord, TodoOK(q), Len(q.todo) > 0, q.todo[1] \notin Jumping,
           Announced(q.todo), NEW u, u = Tail(q.todo), u # << >>
    PROVE  GoesTo(q.todo, u)
<1>1. PICK t \in Seq(Statements) : t = q.todo
  BY DEF RequestRecord
<1>2. /\ u \in Seq(Statements) /\ Len(u) = Len(t) - 1 /\ \A k \in 1..Len(u) : u[k] = t[k + 1]
      /\ Follows(t[1], u[1]) /\ Elements(u) \subseteq Elements(t)
  BY <1>1, RestOf DEF TodoOK
<1>3. ASSUME "insertSchedule" \in Elements(u)
      PROVE  t[1] \in {"loadInvestor", "insertInvestment", "loadInvestment", "deleteAll"}
  <2>1. PICK k \in 1..Len(t) : t[k] = "insertSchedule"
    BY <1>2, <1>3 DEF Elements
  <2>2. 1 \in 1..k
    OBVIOUS
  <2>3. t[1] \in Opening
    BY <1>1, <2>1, <2>2 DEF TodoOK, Opens
  <2>. QED  BY <1>1, <2>3 DEF Opening, Jumping
<1>4. ASSUME u[1] = "findInvestment" PROVE Len(u) >= 5 /\ u[5] = "announce"
  <2>1. t[1] = "writePayment"
    BY <1>2, <1>4 DEF Follows, RegenerateFollows
  <2>2. Len(t) >= 6 /\ t[6] = "announce"
    BY <1>1, <2>1 DEF Announced
  <2>3. Len(u) >= 5 /\ 5 \in 1..Len(u) /\ 5 + 1 = 6
    BY <1>1, <1>2, <2>2
  <2>. QED  BY <1>2, <2>2, <2>3
<1>5. u[1] # "writePayment"
  BY <1>1, <1>2 DEF Follows, RegenerateFollows, Jumping
<1>6. /\ u[1] = "insertRows" => t[1] = "deleteUnpaid"
      /\ u[1] # "writeCancelled"
      /\ u[1] = "demote" => t[1] = "chooseNext"
      /\ u[1] = "promote" => t[1] = "demote"
      /\ u[1] \notin {"loadInvestor", "insertInvestment"} => t[1] # "loadInvestor"
  BY <1>1, <1>2 DEF Follows, RegenerateFollows, Jumping
<1>7. Announced(u)
  BY <1>4, <1>5 DEF Announced
<1>. QED  BY <1>1, <1>2, <1>3, <1>5, <1>6, <1>7 DEF GoesTo

(* What markPaid executes announces the payment.                           *)
LEMMA PaidAnnounces ==
    ASSUME NEW tail \in {RefreshTodo, RegenerateTodo}
    PROVE  Len(PaidTodo(tail)) >= 6 /\ PaidTodo(tail)[6] = "announce"
<1>1. PICK a, b, c : /\ a = <<"writePayment", "findInvestment">> /\ b = <<"credit">>
                     /\ c = <<"announce">>
  OBVIOUS
<1>2. /\ a \in Seq(Statements) /\ Len(a) = 2 /\ b \in Seq(Statements) /\ Len(b) = 1
      /\ c \in Seq(Statements) /\ Len(c) = 1 /\ c[1] = "announce"
      /\ 1 \in 1..Len(c)
  BY <1>1 DEF Statements
<1>3. SyncTodo \in Seq(Statements) /\ Len(SyncTodo) = 2 /\ tail \in Seq(Statements)
  BY SyncRun, RefreshRun, RegenerateRun DEF Run
<1>4. PICK ab, abs, all, todo : /\ ab = a \o b /\ abs = ab \o SyncTodo /\ all = abs \o c
                               /\ todo = all \o tail
  OBVIOUS
<1>5. ab \in Seq(Statements) /\ Len(ab) = 2 + 1
  <2>1. a \o b \in Seq(Statements) /\ Len(a \o b) = Len(a) + Len(b)
    BY <1>2, Joined, Zenon
  <2>. QED  BY <1>2, <1>4, <2>1, Zenon
<1>6. abs \in Seq(Statements) /\ Len(abs) = (2 + 1) + 2
  <2>1. ab \o SyncTodo \in Seq(Statements) /\ Len(ab \o SyncTodo) = Len(ab) + Len(SyncTodo)
    BY <1>3, <1>5, Joined, Zenon
  <2>. QED  BY <1>3, <1>4, <1>5, <2>1, Zenon
<1>7. /\ all \in Seq(Statements) /\ Len(all) = ((2 + 1) + 2) + 1
      /\ all[((2 + 1) + 2) + 1] = "announce"
  <2>1. /\ abs \o c \in Seq(Statements) /\ Len(abs \o c) = Len(abs) + Len(c)
        /\ \A k \in 1..Len(c) : (abs \o c)[Len(abs) + k] = c[k]
    BY <1>2, <1>6, Joined, Zenon
  <2>. QED  BY <1>2, <1>4, <1>6, <2>1, Zenon
<1>8. /\ Len(todo) = Len(all) + Len(tail) /\ \A k \in 1..Len(all) : todo[k] = all[k]
  <2>1. /\ Len(all \o tail) = Len(all) + Len(tail)
        /\ \A k \in 1..Len(all) : (all \o tail)[k] = all[k]
    BY <1>3, <1>7, Joined, Zenon
  <2>. QED  BY <1>4, <2>1, Zenon
<1>9. Len(tail) \in Nat /\ ((2 + 1) + 2) + 1 = 6
  BY <1>3
<1>10. Len(todo) >= 6 /\ todo[6] = "announce"
  <2>1. \A n \in Nat : 6 + n >= 6 /\ 6 \in 1..6
    OBVIOUS
  <2>. QED  BY <1>7, <1>8, <1>9, <2>1, Zenon
<1>11. PaidTodo(tail) = todo
  BY <1>1, <1>4, Zenon DEF PaidTodo
<1>. QED  BY <1>10, <1>11, Zenon

(* Only these statements jump.                                             *)
LEMMA JumpHead ==
    ASSUME RequestsIInv, NEW r \in Slots, Statement(r)
    PROVE  \/ requests[r].todo[1] \notin Jumping
           \/ InsertRows(r) \/ InsertSchedule(r) \/ FindInvestment(r) \/ LoadPayment(r)
           \/ LoadOutstanding(r)
<1>. SUFFICES ASSUME \/ LoadInvestment(r) \/ LoadInvestor(r) \/ ReadRows(r) \/ DeleteUnpaid(r)
                     \/ DeleteAll(r) \/ ClearEvents(r) \/ WriteEvents(r) \/ MarkOverdue(r)
                     \/ ChooseNext(r) \/ Demote(r) \/ Promote(r) \/ WriteMeta(r) \/ SumTotals(r)
                     \/ WriteTotals(r) \/ InsertInvestment(r) \/ WriteTerms(r) \/ WriteStatus(r)
                     \/ SoftDelete(r) \/ WritePayment(r) \/ Credit(r) \/ Announce(r)
                     \/ WriteCancelled(r) \/ InsertEarly(r)
              PROVE  \E a \in Statements \ Jumping : Doing(r, a)
  <2>1. ASSUME NEW a \in Statements \ Jumping, Doing(r, a) PROVE requests[r].todo[1] \notin Jumping
    BY <2>1, FlightHas DEF Doing
  <2>. QED  BY <2>1, Zenon DEF Statement
<1>1. {"loadInvestment", "loadInvestor", "readRows", "deleteUnpaid", "deleteAll", "clearEvents",
       "writeEvents", "markOverdue", "chooseNext", "demote", "promote", "writeMeta", "sumTotals",
       "writeTotals", "insertInvestment", "writeTerms", "writeStatus", "softDelete",
       "writePayment", "credit", "announce", "writeCancelled", "insertEarly"}
          \subseteq Statements \ Jumping
  BY DEF Statements, Jumping
<1>2. CASE \/ LoadInvestment(r) \/ LoadInvestor(r) \/ ReadRows(r) \/ DeleteUnpaid(r)
           \/ DeleteAll(r) \/ ClearEvents(r) \/ WriteEvents(r) \/ MarkOverdue(r)
  BY <1>1, <1>2, Zenon DEF LoadInvestment, LoadInvestor, ReadRows, DeleteUnpaid, DeleteAll,
                           ClearEvents, WriteEvents, MarkOverdue
<1>3. CASE \/ ChooseNext(r) \/ Demote(r) \/ Promote(r) \/ WriteMeta(r) \/ SumTotals(r)
           \/ WriteTotals(r) \/ InsertInvestment(r) \/ WriteTerms(r) \/ WriteStatus(r)
  BY <1>1, <1>3, Zenon DEF ChooseNext, Demote, Promote, WriteMeta, SumTotals, WriteTotals,
                           InsertInvestment, WriteTerms, WriteStatus, Updates
<1>4. CASE \/ SoftDelete(r) \/ WritePayment(r) \/ Credit(r) \/ Announce(r)
           \/ WriteCancelled(r) \/ InsertEarly(r)
  BY <1>1, <1>4, Zenon DEF SoftDelete, WritePayment, Credit, Announce, WriteCancelled, InsertEarly
<1>. QED  BY <1>2, <1>3, <1>4

(* Rows that were inserted are followed by the timeline or by the refresh. *)
LEMMA InsertsGoTo ==
    ASSUME RequestsIInv, NEW r \in Slots, InsertRows(r) \/ InsertSchedule(r),
           requests'[r].todo # << >>
    PROVE  GoesTo(requests[r].todo, requests'[r].todo)
<1>1. InFlight(r) /\ requests \in [Slots -> RequestRecord]
  BY DEF InsertRows, InsertSchedule, Doing, RequestsIInv, RequestsKnow
<1>2. PICK q \in RequestRecord :
          /\ q = requests[r] /\ TodoOK(q) /\ q.todo \in Seq(Statements) /\ Len(q.todo) > 0
          /\ q.todo[1] \in {"insertRows", "insertSchedule"}
  BY <1>1, FlightHas DEF InsertRows, InsertSchedule, Doing
<1>3. PICK new : IsRows(new) /\ InsertsRows(r, new)
  <2>1. today \in Nat /\ q.inv.terms \in Terms
    BY DEF RequestsIInv, DocumentsTyped, RequestRecord, InvestmentDoc
  <2>. QED  BY <1>2, <2>1, TailRows, GeneratedRowsFacts DEF InsertRows, InsertSchedule
<1>4. ~Ends(r)
  <2>1. Idle.todo = << >>
    BY DEF Idle
  <2>. QED  BY <1>1, <2>1 DEF Ends
<1>5. PICK p \in RequestRecord :
          /\ TodoOK(p) /\ Len(p.todo) > 0
          /\ p.todo = q.todo \/ p.todo = SubSeq(q.todo, 3, Len(q.todo))
          /\ requests'[r] = Advanced(p)
  <2>1. q.todo[1] \in Skipping
    BY <1>2 DEF Skipping
  <2>2. \A p : Goes(r, p) => requests'[r] = Advanced(p)
    BY <1>1 DEF Goes
  <2>. QED  BY <1>1, <1>2, <1>3, <1>4, <2>1, <2>2, InsertsLeave
<1>6. PICK u : u = requests'[r].todo
  OBVIOUS
<1>7. /\ Follows(p.todo[1], u[1]) /\ Opens(u) /\ u \in Seq(Statements)
  <2>1. Follows(p.todo[1], u[1])
    BY <1>5, <1>6, GoesOn
  <2>2. Advanced(p) \in RequestRecord /\ TodoOK(Advanced(p)) /\ u = Advanced(p).todo
    BY <1>5, <1>6, AdvancedKnows
  <2>. QED  BY <2>1, <2>2 DEF TodoOK, RequestRecord
<1>8. u[1] \in {"clearEvents", "markOverdue"}
  <2>1. CASE p.todo = q.todo
    BY <1>2, <1>7, <2>1 DEF Follows, RegenerateFollows
  <2>2. CASE p.todo = SubSeq(q.todo, 3, Len(q.todo))
    <3>1. PICK t \in Seq(Statements) : t = q.todo
      BY <1>2
    <3>2. Len(t) \in Nat /\ 1 + 4 <= Len(t) + 0
      <4>1. 1 \in 1..Len(q.todo) /\ q.todo[1] \in Skipping
        BY <1>2 DEF Skipping
      <4>. QED  BY <1>2, <3>1, <4>1 DEF TodoOK, Room
    <3>3. /\ 2 \in 1..Len(t) /\ 3 \in 1..Len(t) /\ 2 > 1 /\ 3 > 1 /\ 2 - 1 = 1 /\ 3 - 1 = 2
      BY <3>2
    <3>4. Follows(t[1], t[2]) /\ Follows(t[2], t[3])
      BY <1>2, <3>1, <3>3 DEF TodoOK, Chained
    <3>5. t[3] = "writeEvents"
      BY <1>2, <3>1, <3>4 DEF Follows, RegenerateFollows
    <3>6. SubSeq(t, 3, Len(t))[1] = t[3]
      <4>1. 1 \in 1..(Len(t) - 3 + 1) /\ 3 \in 1..(Len(t) + 1) /\ Len(t) \in 3..Len(t)
        BY <3>2
      <4>. QED  BY <3>1, <4>1
    <3>. QED  BY <1>7, <2>2, <3>1, <3>5, <3>6 DEF Follows, RegenerateFollows
  <2>. QED  BY <1>5, <2>1, <2>2
<1>9. "insertSchedule" \notin Elements(u)
  <2>. SUFFICES ASSUME NEW k \in 1..Len(u), u[k] = "insertSchedule" PROVE FALSE
    BY DEF Elements
  <2>1. 1 \in 1..k
    OBVIOUS
  <2>2. u[1] \in Opening
    BY <1>7, <2>1 DEF Opens
  <2>. QED  BY <1>8, <2>2 DEF Opening
<1>. QED  BY <1>2, <1>6, <1>8, <1>9 DEF GoesTo, Announced

(* A payment of a loan that is not live goes on with the rows.             *)
LEMMA FindGoesTo ==
    ASSUME RequestsIInv, NEW r \in Slots, FindInvestment(r), Announced(requests[r].todo),
           requests'[r].todo # << >>
    PROVE  GoesTo(requests[r].todo, requests'[r].todo)
<1>1. InFlight(r) /\ requests \in [Slots -> RequestRecord]
  BY DEF FindInvestment, Doing, RequestsIInv, RequestsKnow
<1>2. PICK q \in RequestRecord :
          /\ q = requests[r] /\ TodoOK(q) /\ q.todo \in Seq(Statements) /\ Len(q.todo) > 0
          /\ q.todo[1] = "findInvestment"
  BY <1>1, FlightHas DEF FindInvestment, Doing
<1>3. PICK t \in Seq(Statements) : t = q.todo /\ Len(t) >= 5 /\ t[5] = "announce"
  BY <1>2 DEF Announced
<1>4. PICK rest : rest = SubSeq(t, 5, Len(t))
  OBVIOUS
<1>5. PICK p : /\ p.todo \in {t, rest} /\ p \in RequestRecord /\ p.op = q.op /\ p.row = q.row
               /\ p.i = q.i /\ p.status = q.status
               /\ requests'[r] = Advanced(p)
  <2>1. PICK doc \in InvestmentDoc : doc = investments[q.i]
    BY <1>2 DEF RequestsIInv, DocumentsTyped, TodoOK
  <2>2. PICK p1 : p1 = [q EXCEPT !.inv = doc]
    OBVIOUS
  <2>3. PICK p2 : p2 = [q EXCEPT !.todo = rest]
    OBVIOUS
  <2>4. Goes(r, p1) \/ Goes(r, p2)
    BY <1>2, <1>3, <1>4, <2>1, <2>2, <2>3, Zenon DEF FindInvestment, Reads
  <2>5. rest \in Seq(Statements)
    <3>1. 5 \in 1..Len(t)
      BY <1>3
    <3>. QED  BY <1>4, <3>1, LaterOf DEF Later
  <2>6. /\ p1 \in RequestRecord /\ p1.todo = t /\ p1.op = q.op /\ p1.row = q.row
        /\ p1.i = q.i /\ p1.status = q.status
    BY <1>3, <2>2 DEF RequestRecord
  <2>7. /\ p2 \in RequestRecord /\ p2.todo = rest /\ p2.op = q.op /\ p2.row = q.row
        /\ p2.i = q.i /\ p2.status = q.status
    BY <2>3, <2>5 DEF RequestRecord
  <2>8. \A p : Goes(r, p) => requests'[r] = Advanced(p)
    BY <1>1 DEF Goes
  <2>. QED  BY <2>4, <2>6, <2>7, <2>8
<1>6. Later(p.todo, t) /\ Len(p.todo) > 0 /\ p.todo[1] \in {"findInvestment", "announce"}
  <2>1. Later(t, t) /\ Len(t) > 0 /\ t[1] = "findInvestment"
    BY <1>2, <1>3, LaterOf
  <2>2. Later(rest, t) /\ Len(rest) > 0 /\ rest[1] = t[5]
    <3>1. 5 \in 1..Len(t) /\ 1 \in 1..(Len(t) - 5 + 1) /\ 5 \in 1..(Len(t) + 1)
          /\ Len(t) \in 5..Len(t)
      BY <1>3
    <3>2. Later(rest, t)
      BY <1>4, <3>1, LaterOf
    <3>. QED  BY <1>3, <1>4, <3>1, <3>2
  <2>. QED  BY <1>3, <1>5, <2>1, <2>2
<1>7. TodoOK(p) /\ Elements(p.todo) \subseteq Elements(t)
  BY <1>2, <1>3, <1>5, <1>6, TodoLater
<1>8. PICK u : u = requests'[r].todo
  OBVIOUS
<1>9. Follows(p.todo[1], u[1]) /\ Elements(u) \subseteq Elements(t)
  BY <1>5, <1>6, <1>7, <1>8, GoesOn
<1>10. u[1] \in {"credit", "markOverdue", "loadInvestment", "deleteUnpaid"}
  BY <1>6, <1>9 DEF Follows, RegenerateFollows
<1>11. "insertSchedule" \notin Elements(u)
  <2>. SUFFICES ASSUME NEW k \in 1..Len(t), t[k] = "insertSchedule" PROVE FALSE
    BY <1>9 DEF Elements
  <2>1. 1 \in 1..k
    OBVIOUS
  <2>2. t[1] \in Opening
    BY <1>2, <1>3, <2>1 DEF TodoOK, Opens
  <2>. QED  BY <1>2, <1>3, <2>2 DEF Opening
<1>. QED  BY <1>2, <1>8, <1>10, <1>11 DEF GoesTo, Announced

(* The statements of a payment, a cancellation and an early repayment.     *)
LEMMA LoadsGoTo ==
    ASSUME RequestsIInv, NEW r \in Slots, LoadPayment(r) \/ LoadOutstanding(r),
           requests'[r].todo # << >>
    PROVE  GoesTo(requests[r].todo, requests'[r].todo)
<1>1. InFlight(r) /\ requests \in [Slots -> RequestRecord]
  BY Zenon DEF LoadPayment, LoadOutstanding, Doing, RequestsIInv, RequestsKnow
<1>2. ~Rejects(r)
  <2>1. Idle.todo = << >>
    BY DEF Idle
  <2>. QED  BY <1>1, <2>1 DEF Rejects, Ends
<1>3. PICK u : u = requests'[r].todo
  OBVIOUS
<1>4. CASE LoadPayment(r)
  <2>1. requests[r].todo[1] = "loadPayment"
    <3>1. Doing(r, "loadPayment")
      BY <1>4, Zenon DEF LoadPayment
    <3>. QED  BY <1>1, <3>1, FlightHas DEF Doing
  <2>2. PICK p : Loaded(r, p) /\ PaymentFound(requests[r], p)
    BY <1>2, <1>4, LoadPaymentLeaves
  <2>3. u = p.todo
    BY <1>1, <1>3, <2>2 DEF Loaded
  <2>4. CASE u = CancelledTodo
    <3>1. u[1] = "writeCancelled" /\ "insertSchedule" \notin Elements(u)
      BY <2>4, CancelledRun, RefreshRun DEF Run
    <3>. QED  BY <1>3, <2>1, <3>1 DEF GoesTo, Announced
  <2>5. ASSUME NEW tail \in {RefreshTodo, RegenerateTodo}, u = PaidTodo(tail)
        PROVE  GoesTo(requests[r].todo, u)
    <3>1. u[1] = "writePayment" /\ "insertSchedule" \notin Elements(u)
      BY <2>5, PaidRun DEF Run, Paying, Regenerating
    <3>2. Len(u) >= 6 /\ u[6] = "announce"
      BY <2>5, PaidAnnounces
    <3>. QED  BY <2>1, <3>1, <3>2 DEF GoesTo, Announced
  <2>. QED  BY <1>3, <2>2, <2>3, <2>4, <2>5 DEF PaymentFound
<1>5. CASE LoadOutstanding(r)
  <2>1. requests[r].todo[1] = "loadOutstanding"
    <3>1. Doing(r, "loadOutstanding")
      BY <1>5, Zenon DEF LoadOutstanding
    <3>. QED  BY <1>1, <3>1, FlightHas DEF Doing
  <2>2. PICK p : Loaded(r, p)
                 /\ \E tail \in {RegenerateTodo, ClearedTodo} : p.todo = EarlyTodo(tail)
    BY <1>2, <1>5, LoadOutstandingLeaves
  <2>3. u = p.todo
    BY <1>1, <1>3, <2>2 DEF Loaded
  <2>4. u[1] = "deleteUnpaid" /\ "insertSchedule" \notin Elements(u)
    BY <2>2, <2>3, EarlyRun DEF Run, Regenerating
  <2>. QED  BY <1>3, <2>1, <2>4 DEF GoesTo, Announced
<1>. QED  BY <1>4, <1>5

(* Every statement.                                                        *)
LEMMA StatementGoesTo ==
    ASSUME RequestsIInv, NEW r \in Slots, Statement(r), Announced(requests[r].todo),
           requests'[r].todo # << >>
    PROVE  GoesTo(requests[r].todo, requests'[r].todo)
<1>1. CASE requests[r].todo[1] \notin Jumping
  <2>1. InFlight(r) /\ requests'[r].todo = Tail(requests[r].todo)
    BY <1>1, StatementDone DEF Done, LeftOf
  <2>. QED  BY <1>1, <2>1, FlightHas, RestGoesTo
<1>. QED  BY <1>1, JumpHead, InsertsGoTo, FindGoesTo, LoadsGoTo

-----------------------------------------------------------------------------
(* What the statement of the request in slot r does to the rows.           *)
Leaving == {"loadInvestor", "insertInvestment", "loadInvestment", "loadPayment", "chooseNext"}
Deleting == {"deleteUnpaid", "deleteAll"}

RowsEffect(r) ==
    LET q    == requests[r]
        rows == payments[q.i]
        new  == payments'[q.i]
    IN  /\ \A j \in Investments \ {q.i} : payments'[j] = payments[j]
        /\ RowsStep(rows, new)
        /\ q.todo[1] \in Leaving => new = rows
        /\ q.todo[1] = "deleteUnpaid" => new = PaidOnly(rows)
        /\ q.todo[1] = "deleteAll" => DOMAIN new = {}
        /\ q.todo[1] = "demote" => new = Demoted(q, rows)

(* A statement that leaves the rows alone.                                 *)
LEMMA LeavesEffect ==
    ASSUME RequestsIInv, NEW r \in Slots, InFlight(r), UNCHANGED payments,
           requests[r].todo[1] \notin Deleting \cup {"demote"}
    PROVE  RowsEffect(r)
<1>1. IsRows(payments[requests[r].i])
  BY FlightHas
<1>2. RowsStep(payments[requests[r].i], payments[requests[r].i])
  BY <1>1, RowsStepReflexive
<1>. QED  BY <1>2 DEF RowsEffect, Deleting

(* A statement that writes the rows of its investment.                     *)
LEMMA WritesEffect ==
    ASSUME RequestsIInv, NEW r \in Slots, InFlight(r), requests[r].todo[1] \notin Leaving,
           NEW new, RowsStep(payments[requests[r].i], new),
           payments' = [payments EXCEPT ![requests[r].i] = new],
           requests[r].todo[1] = "deleteUnpaid" => new = PaidOnly(payments[requests[r].i]),
           requests[r].todo[1] = "deleteAll" => DOMAIN new = {},
           requests[r].todo[1] = "demote" => new = Demoted(requests[r], payments[requests[r].i])
    PROVE  RowsEffect(r)
<1>1. requests[r].i \in Investments /\ payments \in [Investments -> AllRows]
  BY FlightHas DEF RequestsIInv, DocumentsTyped
<1>2. PICK i \in Investments : i = requests[r].i
  BY <1>1
<1>3. payments'[i] = new /\ \A j \in Investments \ {i} : payments'[j] = payments[j]
  BY <1>1, <1>2
<1>. QED  BY <1>2, <1>3 DEF RowsEffect

(* The statement at the head of the request in slot r.                     *)
LEMMA HeadOf ==
    ASSUME RequestsIInv, NEW r \in Slots, NEW a, Doing(r, a)
    PROVE  InFlight(r) /\ requests[r].todo[1] = a
BY FlightHas DEF Doing

(* The statements that leave every row alone.                              *)
LEMMA StillEffect ==
    ASSUME RequestsIInv, NEW r \in Slots,
           \/ LoadInvestment(r) \/ LoadInvestor(r) \/ ReadRows(r) \/ ClearEvents(r)
           \/ WriteEvents(r) \/ ChooseNext(r) \/ WriteMeta(r) \/ SumTotals(r) \/ WriteTotals(r)
           \/ InsertInvestment(r) \/ WriteTerms(r) \/ WriteStatus(r) \/ SoftDelete(r)
           \/ FindInvestment(r) \/ Credit(r) \/ Announce(r) \/ LoadPayment(r)
           \/ LoadOutstanding(r)
    PROVE  RowsEffect(r)
<1>. SUFFICES ASSUME NEW a, a \notin Deleting \cup {"demote"}, Doing(r, a), UNCHANGED payments
              PROVE  RowsEffect(r)
  <2>1. CASE LoadInvestment(r) \/ LoadInvestor(r) \/ ReadRows(r) \/ ChooseNext(r)
    <3>1. UNCHANGED vars
      BY <2>1, Zenon DEF LoadInvestment, LoadInvestor, ReadRows, ChooseNext, Reads, Rejects
    <3>2. \E a \in {"loadInvestment", "loadInvestor", "readRows", "chooseNext"} : Doing(r, a)
      BY <2>1 DEF LoadInvestment, LoadInvestor, ReadRows, ChooseNext
    <3>. QED  BY <3>1, <3>2 DEF Deleting, vars
  <2>2. CASE SumTotals(r) \/ FindInvestment(r) \/ LoadPayment(r) \/ LoadOutstanding(r)
    <3>1. UNCHANGED vars
      BY <2>2, Zenon DEF SumTotals, FindInvestment, LoadPayment, LoadOutstanding, Reads, Rejects
    <3>2. \/ Doing(r, "sumTotals") \/ Doing(r, "findInvestment") \/ Doing(r, "loadPayment")
          \/ Doing(r, "loadOutstanding")
      BY <2>2, Zenon DEF SumTotals, FindInvestment, LoadPayment, LoadOutstanding
    <3>. QED  BY <3>1, <3>2 DEF Deleting, vars
  <2>3. CASE ClearEvents(r) \/ WriteEvents(r) \/ WriteTotals(r) \/ Announce(r)
    <3>1. UNCHANGED payments
      BY <2>3, Zenon DEF ClearEvents, WriteEvents, WriteTotals, Announce, WritesEvents
    <3>2. \/ Doing(r, "clearEvents") \/ Doing(r, "writeEvents") \/ Doing(r, "writeTotals")
          \/ Doing(r, "announce")
      BY <2>3, Zenon DEF ClearEvents, WriteEvents, WriteTotals, Announce
    <3>. QED  BY <3>1, <3>2 DEF Deleting
  <2>4. CASE WriteMeta(r) \/ InsertInvestment(r) \/ WriteTerms(r) \/ WriteStatus(r)
    <3>1. UNCHANGED payments
      BY <2>4, Zenon DEF WriteMeta, InsertInvestment, WriteTerms, WriteStatus, WritesInvestment
    <3>2. \/ Doing(r, "writeMeta") \/ Doing(r, "insertInvestment") \/ Doing(r, "writeTerms")
          \/ Doing(r, "writeStatus")
      BY <2>4, Zenon DEF WriteMeta, InsertInvestment, WriteTerms, WriteStatus, Updates
    <3>. QED  BY <3>1, <3>2 DEF Deleting
  <2>5. CASE SoftDelete(r) \/ Credit(r)
    <3>1. UNCHANGED payments
      BY <2>5, Zenon DEF SoftDelete, Credit, WritesInvestment
    <3>2. Doing(r, "softDelete") \/ Doing(r, "credit")
      BY <2>5, Zenon DEF SoftDelete, Credit
    <3>. QED  BY <3>1, <3>2 DEF Deleting
  <2>. QED  BY <2>1, <2>2, <2>3, <2>4, <2>5
<1>1. InFlight(r) /\ requests[r].todo[1] = a
  BY HeadOf
<1>. QED  BY <1>1, LeavesEffect

(* The statements that delete rows.                                        *)
LEMMA DeletesEffect ==
    ASSUME RequestsIInv, NEW r \in Slots, Sound(requests[r], payments[requests[r].i]),
           DeleteUnpaid(r) \/ DeleteAll(r)
    PROVE  RowsEffect(r)
<1>1. InFlight(r)
  BY DEF DeleteUnpaid, DeleteAll, Doing
<1>2. PICK q \in RequestRecord : q = requests[r] /\ TodoOK(q) /\ Len(q.todo) > 0
  BY <1>1, FlightHas
<1>3. PICK rows : rows = payments[q.i] /\ IsRows(rows)
  BY <1>1, <1>2, FlightHas
<1>4. CASE DeleteUnpaid(r)
  <2>1. q.todo[1] = "deleteUnpaid"
    BY <1>2, <1>4, HeadOf DEF DeleteUnpaid
  <2>2. PICK gone : gone = DOMAIN rows \ DOMAIN PaidOnly(rows)
    OBVIOUS
  <2>3. DeletesRows(r, gone)
    BY <1>2, <1>3, <1>4, <2>2 DEF DeleteUnpaid
  <2>4. PICK new : new = [s \in DOMAIN rows \ gone |-> rows[s]]
    OBVIOUS
  <2>5. payments' = [payments EXCEPT ![q.i] = new]
    BY <1>2, <1>3, <2>3, <2>4 DEF DeletesRows, WritesRows
  <2>6. new = PaidOnly(rows)
    <3>1. DOMAIN PaidOnly(rows) \subseteq DOMAIN rows
          /\ PaidOnly(rows) = [s \in DOMAIN PaidOnly(rows) |-> rows[s]]
      BY DEF PaidOnly, Restrict
    <3>2. DOMAIN rows \ gone = DOMAIN PaidOnly(rows)
      BY <2>2, <3>1
    <3>. QED  BY <2>4, <3>1, <3>2
  <2>7. RowsStep(rows, new)
    BY <1>3, <2>6, PaidOnlyFacts
  <2>8. requests[r].todo[1] \notin Leaving \cup {"deleteAll", "demote"}
    BY <1>2, <2>1 DEF Leaving
  <2>. QED  BY <1>1, <1>2, <1>3, <2>5, <2>6, <2>7, <2>8, WritesEffect
<1>5. CASE DeleteAll(r)
  <2>1. q.todo[1] = "deleteAll"
    BY <1>2, <1>5, HeadOf DEF DeleteAll
  <2>2. "insertSchedule" \in Elements(q.todo)
    <3>1. PICK t \in Seq(Statements) : t = q.todo
      BY DEF RequestRecord
    <3>2. 1 + 4 <= Len(t) + 0 /\ Len(t) \in Nat
      <4>1. 1 \in 1..Len(t) /\ t[1] \in Skipping
        BY <1>2, <2>1, <3>1 DEF Skipping
      <4>. QED  BY <1>2, <3>1, <4>1 DEF TodoOK, Room
    <3>3. 2 \in 1..Len(t) /\ 2 > 1 /\ 2 - 1 = 1
      BY <3>2
    <3>4. Follows(t[1], t[2])
      BY <1>2, <3>1, <3>3 DEF TodoOK, Chained
    <3>5. t[2] = "insertSchedule"
      BY <2>1, <3>1, <3>4 DEF Follows, RegenerateFollows
    <3>. QED  BY <3>1, <3>3, <3>5 DEF Elements
  <2>3. DOMAIN rows = {}
    BY <1>2, <1>3, <2>2 DEF Sound
  <2>4. PICK new : new = [s \in DOMAIN rows \ DOMAIN rows |-> rows[s]]
    OBVIOUS
  <2>5. payments' = [payments EXCEPT ![q.i] = new]
    BY <1>2, <1>3, <1>5, <2>4 DEF DeleteAll, DeletesRows, WritesRows
  <2>6. DOMAIN new = {}
    BY <2>4
  <2>7. RowsStep(rows, new)
    BY <2>3, <2>4, <2>6 DEF RowsStep, RowsKept, OneUpcoming, IsRows
  <2>8. requests[r].todo[1] \notin Leaving \cup {"deleteUnpaid", "demote"}
    BY <1>2, <2>1 DEF Leaving
  <2>. QED  BY <1>1, <1>2, <1>3, <2>5, <2>6, <2>7, <2>8, WritesEffect
<1>. QED  BY <1>4, <1>5

(* Only the status of upcoming rows changes, and only to "future".         *)
LEMMA DemotedStep ==
    ASSUME NEW q, NEW rows, IsRows(rows)
    PROVE  RowsStep(rows, Demoted(q, rows))
<1>1. PICK new : new = Demoted(q, rows)
  OBVIOUS
<1>2. /\ IsRows(new) /\ DOMAIN new = DOMAIN rows
      /\ \A s \in DOMAIN rows :
            new[s] = rows[s] \/ (rows[s].status = "upcoming" /\ new[s].status = "future")
  BY <1>1, DemotedFacts
<1>. QED  BY <1>1, <1>2 DEF RowsStep, RowsKept, OneUpcoming

(* The next payment becomes upcoming where it is the only one to be, and   *)
(* it is not completed: the request has read every completed row.          *)
LEMMA PromotedStep ==
    ASSUME NEW q, NEW rows, IsRows(rows), IsRows(q.rows), q.held \subseteq DOMAIN rows,
           Seen(q, rows), OnlyChosen(q, rows)
    PROVE  RowsStep(rows, Promoted(q, rows))
<1>1. PICK new : new = Promoted(q, rows)
  OBVIOUS
<1>2. PICK n : n = NextOpen(q.rows)
  OBVIOUS
<1>3. /\ IsRows(new) /\ DOMAIN new = DOMAIN rows
      /\ \/ new = rows
         \/ /\ Normalises(q) /\ n \in q.held /\ new[n].status = "upcoming"
            /\ \A s \in DOMAIN rows : s # n => new[s] = rows[s]
  BY <1>1, <1>2, PromotedFacts
<1>4. CASE new = rows
  BY <1>1, <1>4, RowsStepReflexive
<1>5. CASE Normalises(q) /\ \A s \in DOMAIN rows : s # n => new[s] = rows[s]
  <2>1. n \in DOMAIN rows => rows[n].status # "completed"
    <3>1. q.rows[n].status # "completed"
      BY <1>2, <1>5, NextOpenUnpaid DEF Normalises
    <3>. QED  BY <3>1 DEF Seen
  <2>2. RowsKept(rows, new)
    BY <1>3, <1>5, <2>1 DEF RowsKept
  <2>3. \A s \in DOMAIN rows : new[s].status = "upcoming" => s = n
    BY <1>2, <1>5 DEF OnlyChosen
  <2>. QED  BY <1>1, <1>3, <2>2, <2>3 DEF RowsStep, OneUpcoming
<1>. QED  BY <1>3, <1>4, <1>5

(* A row that is not completed is replaced by one that is not upcoming.    *)
LEMMA ReplacedStep ==
    ASSUME NEW rows, NEW new, IsRows(new), DOMAIN new = DOMAIN rows, NEW s,
           s \in DOMAIN rows => rows[s].status # "completed" /\ new[s].status # "upcoming",
           \A u \in DOMAIN rows : u # s => new[u] = rows[u]
    PROVE  RowsStep(rows, new)
BY DEF RowsStep, RowsKept, OneUpcoming

(* The statements that write rows and insert or delete none.               *)
LEMMA WritersEffect ==
    ASSUME RequestsIInv, NEW r \in Slots, Sound(requests[r], payments[requests[r].i]),
           \/ MarkOverdue(r) \/ Demote(r) \/ Promote(r) \/ WritePayment(r) \/ WriteCancelled(r)
    PROVE  RowsEffect(r)
<1>1. InFlight(r)
  BY Zenon DEF MarkOverdue, Demote, Promote, WritePayment, WriteCancelled, Doing
<1>2. PICK q \in RequestRecord : q = requests[r]
  BY <1>1, FlightHas
<1>3. PICK rows : rows = payments[q.i] /\ IsRows(rows) /\ q.held \subseteq DOMAIN rows
  BY <1>1, <1>2, FlightHas
<1>4. Sound(q, rows)
  BY <1>2, <1>3
<1>5. ASSUME NEW new, WritesRows(q.i, new), RowsStep(rows, new), NEW a, Doing(r, a),
             a \notin Leaving \cup Deleting, a = "demote" => new = Demoted(q, rows)
      PROVE  RowsEffect(r)
  <2>1. requests[r].todo[1] = a
    BY <1>5, HeadOf
  <2>2. payments' = [payments EXCEPT ![q.i] = new]
    BY <1>5 DEF WritesRows
  <2>. QED  BY <1>1, <1>2, <1>3, <1>5, <2>1, <2>2, WritesEffect DEF Deleting
<1>6. CASE MarkOverdue(r)
  <2>1. Doing(r, "markOverdue") /\ WritesRows(q.i, MarkedOverdue(rows))
    BY <1>2, <1>3, <1>6 DEF MarkOverdue
  <2>. QED  BY <1>3, <1>5, <2>1, MarkedOverdueStep DEF Leaving, Deleting
<1>7. CASE Demote(r)
  <2>1. Doing(r, "demote") /\ WritesRows(q.i, Demoted(q, rows))
    BY <1>2, <1>3, <1>7, Zenon DEF Demote, Demoted
  <2>. QED  BY <1>3, <1>5, <2>1, DemotedStep DEF Leaving, Deleting
<1>8. CASE Promote(r)
  <2>1. Doing(r, "promote") /\ WritesRows(q.i, Promoted(q, rows))
    BY <1>2, <1>3, <1>8, Zenon DEF Promote, Promoted
  <2>2. Seen(q, rows) /\ OnlyChosen(q, rows)
    BY <1>2, <1>4, <2>1, HeadOf DEF Sound
  <2>3. IsRows(q.rows)
    BY RowsAre DEF RequestRecord
  <2>. QED  BY <1>3, <1>5, <2>1, <2>2, <2>3, PromotedStep DEF Leaving, Deleting
<1>9. CASE WritePayment(r)
  <2>1. Doing(r, "writePayment") /\ WritesRows(q.i, Recorded(q, rows))
    BY <1>2, <1>3, <1>9, Zenon DEF WritePayment, Recorded
  <2>2. q.s \in q.held => rows[q.s].status # "completed"
    BY <1>2, <1>4, <2>1, HeadOf DEF Sound
  <2>3. PICK new : new = Recorded(q, rows)
    OBVIOUS
  <2>4. /\ IsRows(new) /\ DOMAIN new = DOMAIN rows
        /\ q.s \notin q.held => new = rows
        /\ q.s \in q.held => /\ new[q.s].status \in Paid
                             /\ \A s \in DOMAIN rows : s # q.s => new[s] = rows[s]
    BY <1>3, <2>3, RecordedFacts
  <2>5. RowsStep(rows, new)
    <3>1. CASE q.s \notin q.held
      BY <1>3, <2>4, <3>1, RowsStepReflexive
    <3>2. CASE q.s \in q.held
      <4>1. new[q.s].status # "upcoming"
        BY <2>4, <3>2 DEF Paid
      <4>. QED  BY <2>2, <2>4, <3>2, <4>1, ReplacedStep
    <3>. QED  BY <3>1, <3>2
  <2>. QED  BY <1>5, <2>1, <2>3, <2>5 DEF Leaving, Deleting
<1>10. CASE WriteCancelled(r)
  <2>1. Doing(r, "writeCancelled") /\ WritesRows(q.i, Cancelled(q, rows))
    BY <1>2, <1>3, <1>10, Zenon DEF WriteCancelled, Cancelled
  <2>2. q.s \in q.held => rows[q.s].status # "completed"
    BY <1>2, <1>4, <2>1, HeadOf DEF Sound
  <2>3. PICK new : new = Cancelled(q, rows)
    OBVIOUS
  <2>4. /\ IsRows(new) /\ DOMAIN new = DOMAIN rows
        /\ q.s \notin q.held => new = rows
        /\ q.s \in q.held => /\ new[q.s].status = "cancelled"
                             /\ \A s \in DOMAIN rows : s # q.s => new[s] = rows[s]
    BY <1>3, <2>3, CancelledFacts
  <2>5. RowsStep(rows, new)
    <3>1. CASE q.s \notin q.held
      BY <1>3, <2>4, <3>1, RowsStepReflexive
    <3>2. CASE q.s \in q.held
      BY <2>2, <2>4, <3>2, ReplacedStep
    <3>. QED  BY <3>1, <3>2
  <2>. QED  BY <1>5, <2>1, <2>3, <2>5 DEF Leaving, Deleting
<1>. QED  BY <1>6, <1>7, <1>8, <1>9, <1>10

(* Rows are inserted where those left are paid: none of them is upcoming,  *)
(* and none is replaced.                                                   *)
LEMMA InsertsEffect ==
    ASSUME RequestsIInv, NEW r \in Slots, NEW a, Doing(r, a),
           a \notin Leaving \cup Deleting \cup {"demote"},
           \A s \in DOMAIN payments[requests[r].i] : payments[requests[r].i][s].status \in Paid,
           NEW made, IsRows(made), OneUpcoming(made), InsertsRows(r, made)
    PROVE  RowsEffect(r)
<1>1. InFlight(r) /\ requests[r].todo[1] = a
  BY HeadOf
<1>2. PICK i \in Investments : i = requests[r].i
  BY <1>1, FlightHas
<1>3. PICK rows : rows = payments[i] /\ IsRows(rows)
  BY <1>1, <1>2, FlightHas
<1>4. PICK fits : fits = {s \in DOMAIN made : \A u \in DOMAIN made \cap DOMAIN rows : s < u}
  OBVIOUS
<1>5. PICK new : new = [s \in DOMAIN rows \cup fits |-> IF s \in fits THEN made[s] ELSE rows[s]]
  OBVIOUS
<1>6. payments' = [payments EXCEPT ![i] = new]
  BY <1>2, <1>3, <1>4, <1>5 DEF InsertsRows, WritesRows
<1>7. fits \subseteq DOMAIN made /\ fits \cap DOMAIN rows = {}
  <2>1. \A s \in 1..MaxSeq : ~(s < s)
    BY BoundsAssumption
  <2>2. DOMAIN made \subseteq 1..MaxSeq
    BY DEF IsRows
  <2>. QED  BY <1>4, <2>1, <2>2
<1>8. /\ DOMAIN new = DOMAIN rows \cup fits
      /\ \A s \in fits : new[s] = made[s]
      /\ \A s \in DOMAIN rows : new[s] = rows[s]
  BY <1>5, <1>7
<1>9. IsRows(new)
  BY <1>3, <1>5, <1>7, <1>8 DEF IsRows
<1>10. RowsKept(rows, new)
  BY <1>8 DEF RowsKept
<1>11. OneUpcoming(new)
  <2>1. \A s \in DOMAIN rows : new[s].status # "upcoming"
    BY <1>2, <1>3, <1>8 DEF Paid
  <2>. QED  BY <1>7, <1>8, <2>1 DEF OneUpcoming
<1>12. RowsStep(rows, new)
  BY <1>9, <1>10, <1>11 DEF RowsStep
<1>. QED  BY <1>1, <1>2, <1>3, <1>6, <1>12, WritesEffect DEF Deleting

(* Of the rows a regeneration inserts the first that is not late is        *)
(* upcoming.                                                               *)
LEMMA TailOneUpcoming ==
    ASSUME NEW q \in RequestRecord, RegenerateFits(q.inv, q.rows), today \in Nat
    PROVE  OneUpcoming(RegeneratedTail(q))
<1>1. IsRows(q.rows) /\ q.inv \in InvestmentDoc
  BY RowsAre DEF RequestRecord
<1>2. PICK seqs, start, tail : /\ seqs = NewSeqs(q.inv, q.rows) /\ start = q.inv.terms.start
                               /\ tail = RegeneratedTail(q)
  OBVIOUS
<1>3. seqs \subseteq 1..MaxSeq /\ start \in Nat /\ DOMAIN tail = seqs
  BY <1>1, <1>2, RegenerateReads, TermsAssumption DEF InvestmentDoc, RegeneratedTail
<1>4. ASSUME NEW s \in seqs, tail[s].status = "upcoming"
      PROVE  ~(start + s < today) /\ \A u \in seqs : u < s => start + u < today
  BY <1>1, <1>2, <1>4, RegeneratedRowFacts DEF RegeneratedTail
<1>5. \A s, u \in 1..MaxSeq : s < u \/ u < s \/ s = u
  BY BoundsAssumption
<1>. QED  BY <1>2, <1>3, <1>4, <1>5 DEF OneUpcoming

(* The statements that insert rows.                                        *)
LEMMA InsertersEffect ==
    ASSUME RequestsIInv, NEW r \in Slots, Sound(requests[r], payments[requests[r].i]),
           InsertRows(r) \/ InsertSchedule(r)
    PROVE  RowsEffect(r)
<1>1. InFlight(r)
  BY DEF InsertRows, InsertSchedule, Doing
<1>2. PICK q \in RequestRecord : q = requests[r] /\ Len(q.todo) > 0 /\ q.todo \in Seq(Statements)
  BY <1>1, FlightHas
<1>3. Sound(q, payments[q.i]) /\ today \in Nat
  BY <1>2 DEF RequestsIInv, DocumentsTyped
<1>4. CASE InsertRows(r)
  <2>1. q.todo[1] = "insertRows" /\ Doing(r, "insertRows")
    BY <1>2, <1>4, HeadOf DEF InsertRows
  <2>2. \A s \in DOMAIN payments[q.i] : payments[q.i][s].status \in Paid
    BY <1>3, <2>1 DEF Sound
  <2>3. InsertsRows(r, RegeneratedTail(q)) /\ RegenerateFits(q.inv, q.rows)
    BY <1>2, <1>4 DEF InsertRows
  <2>4. IsRows(RegeneratedTail(q)) /\ OneUpcoming(RegeneratedTail(q))
    BY <1>3, <2>3, TailRows, TailOneUpcoming
  <2>. QED  BY <1>2, <2>1, <2>2, <2>3, <2>4, InsertsEffect DEF Leaving, Deleting
<1>5. CASE InsertSchedule(r)
  <2>1. q.todo[1] = "insertSchedule" /\ Doing(r, "insertSchedule")
    BY <1>2, <1>5, HeadOf DEF InsertSchedule
  <2>2. DOMAIN payments[q.i] = {}
    <3>1. 1 \in 1..Len(q.todo)
      BY <1>2
    <3>. QED  BY <1>3, <2>1, <3>1 DEF Sound, Elements
  <2>3. InsertsRows(r, GeneratedRows(q.inv.terms)) /\ q.inv.terms \in Terms
    BY <1>2, <1>5 DEF InsertSchedule, RequestRecord, InvestmentDoc
  <2>4. IsRows(GeneratedRows(q.inv.terms)) /\ OneUpcoming(GeneratedRows(q.inv.terms))
    BY <1>3, <2>3, GeneratedRowsFacts
  <2>. QED  BY <1>2, <2>1, <2>2, <2>3, <2>4, InsertsEffect DEF Leaving, Deleting
<1>. QED  BY <1>4, <1>5

(* The row of an early repayment is completed, and replaces none.          *)
LEMMA InsertEarlyEffect ==
    ASSUME RequestsIInv, NEW r \in Slots, InsertEarly(r)
    PROVE  RowsEffect(r)
<1>1. InFlight(r) /\ requests[r].todo[1] = "insertEarly"
  BY HeadOf DEF InsertEarly
<1>2. PICK q \in RequestRecord :
          q = requests[r] /\ TodoOK(q) /\ Len(q.todo) > 0 /\ q.todo \in Seq(Statements)
  BY <1>1, FlightHas
<1>3. PICK rows : rows = payments[q.i] /\ IsRows(rows)
  BY <1>1, <1>2, FlightHas
<1>4. PICK row \in Row : row = q.row /\ row.status = "completed"
  <2>1. "insertEarly" \in Elements(q.todo) /\ "insertEarly" \in RowReaders
    <3>1. 1 \in 1..Len(q.todo)
      BY <1>2
    <3>. QED  BY <1>1, <1>2, <3>1 DEF Elements, RowReaders
  <2>. QED  BY <1>2, <2>1 DEF TodoOK
<1>5. requests[r].todo[1] \notin Leaving \cup Deleting \cup {"demote"}
  BY <1>1 DEF Leaving, Deleting
<1>6. PICK at \in 1..MaxSeq : at = Highest(Visible(q.rows)) + 1
  <2>1. IsRows(q.rows)
    BY RowsAre DEF RequestRecord
  <2>2. Visible(q.rows) \in SUBSET (1..MaxSeq)
    BY <2>1 DEF Visible, IsRows
  <2>3. Highest(Visible(q.rows)) \in 0..MaxSeq /\ Highest(Visible(q.rows)) + 1 <= MaxSeq
    BY <1>2, <2>2, HighestIn DEF InsertEarly
  <2>. QED  BY <2>3, BoundsAssumption
<1>7. CASE at \in DOMAIN rows
  <2>1. UNCHANGED payments
    BY <1>2, <1>3, <1>6, <1>7 DEF InsertEarly, Rejects, vars
  <2>. QED  BY <1>1, <1>5, <2>1, LeavesEffect
<1>8. CASE at \notin DOMAIN rows
  <2>1. PICK new : new = [s \in DOMAIN rows \cup {at} |-> IF s = at THEN row ELSE rows[s]]
    OBVIOUS
  <2>2. payments' = [payments EXCEPT ![q.i] = new]
    BY <1>2, <1>3, <1>4, <1>6, <1>8, <2>1 DEF InsertEarly, WritesRows
  <2>3. RowsStep(rows, new)
    <3>1. IsRows(new)
      BY <1>3, <2>1 DEF IsRows
    <3>2. new[at].status # "upcoming" /\ \A s \in DOMAIN rows : new[s] = rows[s]
      BY <1>4, <1>8, <2>1
    <3>. QED  BY <2>1, <3>1, <3>2 DEF RowsStep, RowsKept, OneUpcoming
  <2>. QED  BY <1>1, <1>2, <1>3, <1>5, <2>2, <2>3, WritesEffect DEF Deleting
<1>. QED  BY <1>7, <1>8

(* Every statement.                                                        *)
LEMMA StatementEffect ==
    ASSUME RequestsIInv, NEW r \in Slots, Statement(r),
           Sound(requests[r], payments[requests[r].i])
    PROVE  RowsEffect(r)
BY StillEffect, DeletesEffect, WritersEffect, InsertersEffect, InsertEarlyEffect, Zenon
   DEF Statement

-----------------------------------------------------------------------------
(* What the next statement of a request relies on, a statement before it   *)
(* has found or left.                                                      *)
LEMMA SoundGoes ==
    ASSUME RequestsIInv, NEW r \in Slots, Statement(r), Announced(requests[r].todo),
           Sound(requests[r], payments[requests[r].i]), requests'[r].todo # << >>
    PROVE  /\ Sound(requests'[r], payments'[requests'[r].i]) /\ Announced(requests'[r].todo)
           /\ requests'[r].i = requests[r].i
<1>1. PICK q, n : q = requests[r] /\ n = requests'[r]
  OBVIOUS
<1>2. PICK rows, new : rows = payments[q.i] /\ new = payments'[q.i]
  OBVIOUS
<1>3. /\ InFlight(r) /\ n.i = q.i /\ n.s = q.s
      /\ q.todo[1] = "demote" => n.rows = q.rows
      /\ q.todo[1] = "loadPayment" => n.held = q.held
      /\ q.todo[1] = "chooseNext" => n.rows = rows
  <2>1. Done(r) /\ n.todo # << >>
    BY <1>1, StatementDone
  <2>. QED  BY <1>1, <1>2, <2>1 DEF Done, LeftOf
<1>4. GoesTo(q.todo, n.todo)
  BY <1>1, StatementGoesTo
<1>5. /\ q.todo[1] \in Leaving => new = rows
      /\ q.todo[1] = "deleteUnpaid" => new = PaidOnly(rows)
      /\ q.todo[1] = "deleteAll" => DOMAIN new = {}
      /\ q.todo[1] = "demote" => new = Demoted(q, rows)
  BY <1>1, <1>2, StatementEffect DEF RowsEffect
<1>6. Sound(q, rows) /\ IsRows(rows)
  BY <1>1, <1>2, <1>3, FlightHas
<1>7. n.todo[1] = "insertRows" => \A s \in DOMAIN new : new[s].status \in Paid
  <2>1. \A s \in DOMAIN PaidOnly(rows) : PaidOnly(rows)[s].status \in Paid
    BY <1>6, PaidOnlyFacts
  <2>. QED  BY <1>4, <1>5, <2>1 DEF GoesTo
<1>8. ASSUME n.todo[1] \in {"writePayment", "writeCancelled"}, n.s \in n.held
      PROVE  new[n.s].status # "completed"
  <2>1. q.todo[1] = "loadPayment"
    BY <1>4, <1>8 DEF GoesTo
  <2>2. LoadPayment(r)
    <3>1. q.todo[1] \in Jumping
      BY <2>1 DEF Jumping
    <3>2. \/ InsertRows(r) \/ InsertSchedule(r) \/ FindInvestment(r) \/ LoadPayment(r)
          \/ LoadOutstanding(r)
      BY <1>1, <3>1, JumpHead
    <3>3. \A a \in {"insertRows", "insertSchedule", "findInvestment", "loadOutstanding"} :
             ~Doing(r, a)
      BY <1>1, <2>1, HeadOf
    <3>. QED  BY <3>2, <3>3, Zenon DEF InsertRows, InsertSchedule, FindInvestment, LoadOutstanding
  <2>3. ~Rejects(r)
    <3>1. Idle.todo = << >> /\ requests \in [Slots -> RequestRecord]
      BY DEF Idle, RequestsIInv, RequestsKnow
    <3>. QED  BY <3>1 DEF Rejects, Ends
  <2>4. rows[q.s].status # "completed"
    BY <1>1, <1>2, <2>2, <2>3, LoadPaymentLeaves DEF PaymentFound
  <2>. QED  BY <1>3, <1>5, <2>1, <2>4 DEF Leaving
<1>9. n.todo[1] = "demote" => Seen(n, new)
  <2>1. "chooseNext" \in Leaving
    BY DEF Leaving
  <2>. QED  BY <1>3, <1>4, <1>5, <2>1 DEF GoesTo, Seen
<1>10. ASSUME n.todo[1] = "promote" PROVE Seen(n, new) /\ OnlyChosen(n, new)
  <2>1. q.todo[1] = "demote" /\ new = Demoted(q, rows) /\ n.rows = q.rows /\ Seen(q, rows)
    BY <1>3, <1>4, <1>5, <1>6, <1>10 DEF GoesTo, Sound
  <2>2. /\ DOMAIN new = DOMAIN rows
        /\ \A s \in DOMAIN rows : new[s] = rows[s] \/ new[s].status = "future"
        /\ Normalises(q) => \A s \in DOMAIN rows :
              new[s].status = "upcoming" => s = NextOpen(q.rows)
    BY <1>6, <2>1, DemotedFacts
  <2>3. Seen(n, new)
    BY <2>1, <2>2 DEF Seen
  <2>4. OnlyChosen(n, new)
    BY <2>1, <2>2 DEF OnlyChosen, Normalises
  <2>. QED  BY <2>3, <2>4
<1>11. ASSUME "insertSchedule" \in Elements(n.todo) PROVE DOMAIN new = {}
  <2>1. /\ "insertSchedule" \in Elements(q.todo)
        /\ q.todo[1] \in {"loadInvestor", "insertInvestment", "loadInvestment", "deleteAll"}
    BY <1>4, <1>11 DEF GoesTo
  <2>2. DOMAIN rows = {}
    BY <1>6, <2>1 DEF Sound
  <2>. QED  BY <1>5, <2>1, <2>2 DEF Leaving
<1>12. Sound(n, new)
  BY <1>7, <1>8, <1>9, <1>10, <1>11 DEF Sound
<1>. QED  BY <1>1, <1>2, <1>3, <1>4, <1>12 DEF GoesTo

-----------------------------------------------------------------------------
(* Investments that were created stay.                                     *)
CreatedStay ==
    \A i \in Investments : investments'[i].state = "absent" => investments[i].state = "absent"

(* An update of a document that does not make it absent.                   *)
LEMMA UpdateStays ==
    ASSUME RequestsIInv, NEW i \in Investments, NEW doc, doc.state # "absent",
           \/ WritesInvestment(i, doc)
           \/ investments' = [investments EXCEPT ![i] = doc]
    PROVE  CreatedStay
BY DEF RequestsIInv, DocumentsTyped, WritesInvestment, CreatedStay

(* An update that finds no live document leaves them all.                  *)
LEMMA NoUpdateStays ==
    ASSUME NEW i, NEW doc, WritesInvestment(i, doc), investments[i].state # "live"
    PROVE  CreatedStay
BY DEF WritesInvestment, CreatedStay

(* No statement deletes a document, and create makes one.                  *)
LEMMA StatementStays ==
    ASSUME RequestsIInv, NEW r \in Slots, Statement(r)
    PROVE  /\ CreatedStay
           /\ requests[r].todo[1] = "insertInvestment" =>
                 investments'[requests[r].i].state # "absent"
<1>1. InFlight(r)
  BY StatementDone DEF Done
<1>2. PICK q \in RequestRecord : q = requests[r]
  BY <1>1, FlightHas
<1>3. PICK i \in Investments, old \in InvestmentDoc : i = q.i /\ old = investments[i]
  BY <1>1, <1>2, FlightHas DEF RequestsIInv, DocumentsTyped
<1>4. ASSUME NEW a, Doing(r, a), a # "insertInvestment", CreatedStay
      PROVE  /\ CreatedStay
             /\ requests[r].todo[1] = "insertInvestment" =>
                   investments'[requests[r].i].state # "absent"
  BY <1>4, HeadOf
<1>5. ASSUME NEW a, Doing(r, a), a # "insertInvestment", UNCHANGED investments
      PROVE  /\ CreatedStay
             /\ requests[r].todo[1] = "insertInvestment" =>
                   investments'[requests[r].i].state # "absent"
  BY <1>4, <1>5 DEF CreatedStay
<1>6. ASSUME NEW a, Doing(r, a), a # "insertInvestment", NEW doc, doc.state \in {old.state, "deleted"},
             WritesInvestment(i, doc)
      PROVE  /\ CreatedStay
             /\ requests[r].todo[1] = "insertInvestment" =>
                   investments'[requests[r].i].state # "absent"
  <2>1. CASE investments[i].state = "live"
    <3>1. doc.state # "absent"
      BY <1>3, <1>6, <2>1
    <3>. QED  BY <1>4, <1>6, <3>1, UpdateStays
  <2>2. CASE investments[i].state # "live"
    BY <1>4, <1>6, <2>2, NoUpdateStays
  <2>. QED  BY <2>1, <2>2
<1>7. CASE InsertInvestment(r)
  <2>1. PICK doc : doc = [state |-> "live", investor |-> q.inv.investor, terms |-> q.terms,
                outstanding |-> q.terms.principal, repaid |-> 0, earned |-> 0, status |-> q.status,
                monthly |-> Instalment(q.terms, q.terms.principal, q.terms.term),
                nextDue |-> NoDue]
    OBVIOUS
  <2>2. investments' = [investments EXCEPT ![i] = doc]
    BY <1>2, <1>3, <1>7, <2>1, Zenon DEF InsertInvestment
  <2>3. doc.state = "live"
    BY <2>1
  <2>4. investments'[i].state # "absent"
    BY <2>2, <2>3 DEF RequestsIInv, DocumentsTyped
  <2>. QED  BY <1>2, <1>3, <2>2, <2>3, <2>4, UpdateStays
<1>8. CASE WriteTerms(r)
  <2>1. PICK t : t = IF q.repriced THEN q.terms ELSE Mixed(q.terms, old.terms)
    OBVIOUS
  <2>2. PICK status, monthly :
            /\ status = StatusGiven(q, old.status)
            /\ monthly = IF q.repriced THEN Instalment(t, t.principal, t.term) ELSE old.monthly
    OBVIOUS
  <2>3. PICK doc : doc = [old EXCEPT !.terms = t, !.status = status, !.monthly = monthly]
    OBVIOUS
  <2>4. doc.state = old.state
    BY <2>3 DEF InvestmentDoc
  <2>5. investments[i] = old /\ requests[r] = q /\ q.i = i
    BY <1>2, <1>3
  <2>6. WritesInvestment(i, doc) /\ Updates(r, "writeTerms")
    BY <1>8, <2>1, <2>2, <2>3, <2>5, Zenon DEF WriteTerms, Mixed
  <2>7. Doing(r, "writeTerms")
    BY <2>6, Zenon DEF Updates
  <2>. QED  BY <1>6, <2>4, <2>6, <2>7
<1>9. CASE WriteStatus(r)
  <2>1. PICK doc : doc = [old EXCEPT !.status = q.status]
    OBVIOUS
  <2>2. doc.state = old.state
    BY <2>1 DEF InvestmentDoc
  <2>3. WritesInvestment(i, doc) /\ Doing(r, "writeStatus")
    BY <1>2, <1>3, <1>9, <2>1 DEF WriteStatus, Updates
  <2>. QED  BY <1>6, <2>2, <2>3
<1>10. CASE SoftDelete(r)
  <2>1. PICK doc : doc = [old EXCEPT !.state = "deleted"]
    OBVIOUS
  <2>2. doc.state = "deleted"
    BY <2>1 DEF InvestmentDoc
  <2>3. WritesInvestment(i, doc) /\ Doing(r, "softDelete")
    BY <1>2, <1>3, <1>10, <2>1 DEF SoftDelete
  <2>. QED  BY <1>6, <2>2, <2>3
<1>11. CASE WriteMeta(r)
  <2>1. PICK due, total :
            /\ due = IF Unpaid(q.rows) = {} THEN NoDue ELSE q.rows[NextOpen(q.rows)].due
            /\ total = IF Unpaid(q.rows) = {} THEN 0 ELSE q.rows[NextOpen(q.rows)].total
    OBVIOUS
  <2>2. PICK doc : doc = [old EXCEPT !.nextDue = due, !.monthly = total]
    OBVIOUS
  <2>3. doc.state = old.state
    BY <2>2 DEF InvestmentDoc
  <2>4. WritesInvestment(i, doc) /\ Doing(r, "writeMeta")
    BY <1>2, <1>3, <1>11, <2>1, <2>2 DEF WriteMeta
  <2>. QED  BY <1>6, <2>3, <2>4
<1>12. CASE Credit(r)
  <2>1. PICK credited : credited = IF q.op = "early" THEN CreditedEarly(q.inv, q.row)
                                   ELSE Credited(q.inv, q.row, q.amount)
    OBVIOUS
  <2>2. PICK doc : doc = [old EXCEPT !.repaid = credited.repaid, !.earned = credited.earned,
                                     !.outstanding = credited.outstanding,
                                     !.status = credited.status]
    OBVIOUS
  <2>3. doc.state = old.state
    BY <2>2 DEF InvestmentDoc
  <2>4. WritesInvestment(i, doc) /\ Doing(r, "credit")
    BY <1>2, <1>3, <1>12, <2>1, <2>2 DEF Credit
  <2>. QED  BY <1>6, <2>3, <2>4
<1>13. CASE LoadInvestment(r) \/ LoadInvestor(r) \/ ReadRows(r) \/ ChooseNext(r)
  <2>1. UNCHANGED vars
    BY <1>13, Zenon DEF LoadInvestment, LoadInvestor, ReadRows, ChooseNext, Reads, Rejects
  <2>2. \E a \in {"loadInvestment", "loadInvestor", "readRows", "chooseNext"} : Doing(r, a)
    BY <1>13 DEF LoadInvestment, LoadInvestor, ReadRows, ChooseNext
  <2>. QED  BY <1>5, <2>1, <2>2 DEF vars
<1>14. CASE SumTotals(r) \/ FindInvestment(r) \/ LoadPayment(r) \/ LoadOutstanding(r)
  <2>1. UNCHANGED vars
    BY <1>14, Zenon DEF SumTotals, FindInvestment, LoadPayment, LoadOutstanding, Reads, Rejects
  <2>2. \/ Doing(r, "sumTotals") \/ Doing(r, "findInvestment") \/ Doing(r, "loadPayment")
        \/ Doing(r, "loadOutstanding")
    BY <1>14, Zenon DEF SumTotals, FindInvestment, LoadPayment, LoadOutstanding
  <2>. QED  BY <1>5, <2>1, <2>2 DEF vars
<1>15. CASE ClearEvents(r) \/ WriteEvents(r) \/ WriteTotals(r) \/ Announce(r)
  <2>1. UNCHANGED investments
    BY <1>15, Zenon DEF ClearEvents, WriteEvents, WriteTotals, Announce, WritesEvents
  <2>2. \/ Doing(r, "clearEvents") \/ Doing(r, "writeEvents") \/ Doing(r, "writeTotals")
        \/ Doing(r, "announce")
    BY <1>15, Zenon DEF ClearEvents, WriteEvents, WriteTotals, Announce
  <2>. QED  BY <1>5, <2>1, <2>2
<1>16. CASE DeleteUnpaid(r) \/ DeleteAll(r) \/ InsertRows(r) \/ InsertSchedule(r)
  <2>1. UNCHANGED investments
    BY <1>16, Zenon DEF DeleteUnpaid, DeleteAll, InsertRows, InsertSchedule, DeletesRows,
                        InsertsRows, WritesRows
  <2>2. \/ Doing(r, "deleteUnpaid") \/ Doing(r, "deleteAll") \/ Doing(r, "insertRows")
        \/ Doing(r, "insertSchedule")
    BY <1>16, Zenon DEF DeleteUnpaid, DeleteAll, InsertRows, InsertSchedule
  <2>. QED  BY <1>5, <2>1, <2>2
<1>17. CASE MarkOverdue(r) \/ Demote(r) \/ Promote(r)
  <2>1. UNCHANGED investments
    BY <1>17, Zenon DEF MarkOverdue, Demote, Promote, WritesRows
  <2>2. Doing(r, "markOverdue") \/ Doing(r, "demote") \/ Doing(r, "promote")
    BY <1>17, Zenon DEF MarkOverdue, Demote, Promote
  <2>. QED  BY <1>5, <2>1, <2>2
<1>18. CASE WritePayment(r) \/ WriteCancelled(r) \/ InsertEarly(r)
  <2>1. UNCHANGED investments
    <3>1. CASE WritePayment(r) \/ WriteCancelled(r)
      BY <3>1, Zenon DEF WritePayment, WriteCancelled, WritesRows
    <3>2. CASE InsertEarly(r)
      BY <3>2 DEF InsertEarly, WritesRows, Rejects, vars
    <3>. QED  BY <1>18, <3>1, <3>2
  <2>2. Doing(r, "writePayment") \/ Doing(r, "writeCancelled") \/ Doing(r, "insertEarly")
    BY <1>18, Zenon DEF WritePayment, WriteCancelled, InsertEarly
  <2>. QED  BY <1>5, <2>1, <2>2
<1>. QED  BY <1>7, <1>8, <1>9, <1>10, <1>11, <1>12, <1>13, <1>14, <1>15, <1>16, <1>17, <1>18, Zenon
          DEF Statement

(* A request that goes on has its investment, and rows exist only of       *)
(* investments that were created.                                          *)
LEMMA MadeGoes ==
    ASSUME RequestsIInv, NEW r \in Slots, Statement(r), Announced(requests[r].todo),
           Sound(requests[r], payments[requests[r].i]), Made(requests[r], investments), RowsOfCreated
    PROVE  /\ requests'[r].todo # << >> => Made(requests'[r], investments')
           /\ RowsOfCreated'
<1>1. PICK q, n : q = requests[r] /\ n = requests'[r]
  OBVIOUS
<1>2. CreatedStay /\ (q.todo[1] = "insertInvestment" => investments'[q.i].state # "absent")
  BY <1>1, StatementStays
<1>3. q.i \in Investments
  <2>1. InFlight(r)
    BY StatementDone DEF Done
  <2>. QED  BY <1>1, <2>1, FlightHas
<1>4. q.todo[1] \notin {"loadInvestor", "insertInvestment"} => investments[q.i].state # "absent"
  BY <1>1 DEF Made
<1>5. ASSUME n.todo # << >>, n.todo[1] \notin {"loadInvestor", "insertInvestment"}
      PROVE  investments'[n.i].state # "absent"
  <2>1. GoesTo(q.todo, n.todo) /\ n.i = q.i
    BY <1>1, <1>5, StatementGoesTo, SoundGoes
  <2>2. q.todo[1] # "loadInvestor"
    BY <1>5, <2>1 DEF GoesTo
  <2>. QED  BY <1>2, <1>3, <1>4, <2>1, <2>2 DEF CreatedStay
<1>6. RowsOfCreated'
  <2>. SUFFICES ASSUME NEW j \in Investments, investments'[j].state = "absent"
                PROVE  DOMAIN payments'[j] = {}
    BY DEF RowsOfCreated
  <2>1. investments[j].state = "absent" /\ DOMAIN payments[j] = {}
    BY <1>2 DEF CreatedStay, RowsOfCreated
  <2>2. /\ j # q.i => payments'[j] = payments[j]
        /\ q.todo[1] \in Leaving => payments'[q.i] = payments[q.i]
    BY <1>1, StatementEffect DEF RowsEffect
  <2>3. j = q.i => q.todo[1] \in Leaving
    BY <1>4, <2>1 DEF Leaving
  <2>. QED  BY <2>1, <2>2, <2>3
<1>. QED  BY <1>1, <1>5, <1>6 DEF Made

-----------------------------------------------------------------------------
(* A request relies on nothing when it begins.                             *)
Starting == {"loadInvestment", "loadPayment", "loadOutstanding"}

Starts(todo) ==
    todo # << >> /\ todo[1] \in Starting /\ "insertSchedule" \notin Elements(todo)

(* A list that begins by reading and creates no rows.                      *)
LEMMA RunStarts ==
    ASSUME NEW t, NEW a \in Starting, NEW b, Run(t, a, b, 0),
           "insertSchedule" \notin Elements(t)
    PROVE  Starts(t)
<1>1. t # << >> /\ t[1] = a
  BY DEF Run
<1>. QED  BY <1>1 DEF Starts

(* A request of an investment that was created begins by reading it.       *)
LEMMA ServingStarts ==
    ASSUME NEW todo \in ServingTodos
    PROVE  Starts(todo)
<1>. PICK load \in Starting : load = "loadInvestment"
  BY DEF Starting
<1>1. Starts(UpdateTodo)
  <2>1. "insertSchedule" \notin Elements(UpdateTodo)
    BY UpdateRun DEF Regenerating
  <2>. QED  BY <2>1, UpdateRun, RunStarts
<1>2. Starts(RegenerateTodo)
  <2>1. "insertSchedule" \notin Elements(RegenerateTodo)
    BY RegenerateRun DEF Regenerating
  <2>. QED  BY <2>1, RegenerateRun, RunStarts
<1>3. Starts(ListTodo)
  BY ListRun, RunStarts
<1>4. ASSUME NEW a \in {"writeStatus", "softDelete"}
      PROVE  Starts(<<"loadInvestment", a>> \o SyncTodo)
  <2>1. PICK t : t = <<"loadInvestment", a>>
    OBVIOUS
  <2>2. Run(t, "loadInvestment", a, 0) /\ Elements(t) = {"loadInvestment", a}
    BY <2>1, FoundRun
  <2>3. Follows(a, "sumTotals")
    BY DEF Follows
  <2>4. /\ Run(t \o SyncTodo, "loadInvestment", "writeTotals", 0)
        /\ Elements(t \o SyncTodo) = Elements(t) \cup {"sumTotals", "writeTotals"}
    BY <2>2, <2>3, SyncedRun
  <2>5. "insertSchedule" \notin Elements(t \o SyncTodo)
    BY <2>2, <2>4
  <2>6. Starts(t \o SyncTodo)
    BY <2>4, <2>5, RunStarts
  <2>. QED  BY <2>1, <2>6, Zenon
<1>5. ASSUME NEW a \in {"loadPayment", "loadOutstanding"}
      PROVE  Starts(<<a>>)
  <2>1. <<a>> # << >> /\ <<a>>[1] = a /\ Elements(<<a>>) = {a}
    BY SingleRun DEF Statements, Skipping
  <2>. QED  BY <2>1 DEF Starts, Starting
<1>. QED  BY <1>1, <1>2, <1>3, <1>4, <1>5, Zenon DEF ServingTodos

(* What a request has begun with, and the slots it leaves alone.           *)
LEMMA BegunStarts ==
    ASSUME RequestsIInv, NEW r \in Slots, NEW i \in Investments, Begins(r, i)
    PROVE  /\ UNCHANGED vars /\ ~InFlight(r)
           /\ requests'[r].i = i /\ requests'[r].todo # << >>
           /\ investments[i].state = "absent" => requests'[r].todo[1] = "loadInvestor"
           /\ investments[i].state # "absent" => Starts(requests'[r].todo)
           /\ \A x \in Slots \ {r} : requests'[x].todo = requests[x].todo
<1>1. PICK q : BegunAs(r, i, q)
  BY BeginsAs
<1>2. /\ \A x \in Slots : requests'[x] = IF x = r THEN [q EXCEPT !.alone = Quiet]
                                         ELSE [requests[x] EXCEPT !.alone = FALSE]
      /\ UNCHANGED vars /\ ~InFlight(r)
  BY <1>1, Zenon DEF BegunAs, Begin
<1>3. requests'[r].i = i /\ requests'[r].todo = q.todo
  <2>1. PICK quiet : quiet = Quiet
    OBVIOUS
  <2>2. requests'[r] = [q EXCEPT !.alone = quiet]
    BY <1>2, <2>1
  <2>. QED  BY <1>1, <2>2 DEF BegunAs
<1>4. ASSUME NEW x \in Slots \ {r} PROVE requests'[x].todo = requests[x].todo
  <2>1. PICK old \in RequestRecord : old = requests[x]
    BY DEF RequestsIInv, RequestsKnow
  <2>2. [old EXCEPT !.alone = FALSE].todo = old.todo
    BY DEF RequestRecord
  <2>. QED  BY <1>2, <2>1, <2>2
<1>5. CreateTodo[1] = "loadInvestor" /\ CreateTodo # << >>
  BY CreateRun DEF Run
<1>6. investments[i].state = "absent" => q.todo[1] = "loadInvestor"
  BY <1>1, <1>5 DEF BegunAs
<1>7. investments[i].state # "absent" => Starts(q.todo)
  BY <1>1, ServingStarts DEF BegunAs
<1>8. q.todo # << >>
  BY <1>1, <1>5, <1>7 DEF BegunAs, Starts
<1>. QED  BY <1>2, <1>3, <1>4, <1>6, <1>7, <1>8

(* Where no other runs, a request that begins runs on its own.             *)
LEMMA BeginsSound ==
    ASSUME RequestsIInv, RowsSound, OneAtATime', NEW r \in Slots, NEW i \in Investments,
           Begins(r, i)
    PROVE  RowsSound'
<1>1. /\ UNCHANGED <<payments, investments>> /\ ~InFlight(r)
      /\ requests'[r].i = i /\ requests'[r].todo # << >>
      /\ investments[i].state = "absent" => requests'[r].todo[1] = "loadInvestor"
      /\ investments[i].state # "absent" => Starts(requests'[r].todo)
      /\ \A x \in Slots \ {r} : requests'[x].todo = requests[x].todo
  BY BegunStarts DEF vars
<1>2. \A x \in Slots \ {r} : InFlight(x)' <=> InFlight(x)
  BY <1>1 DEF InFlight
<1>3. \A x, y \in Slots \ {r} : InFlight(x)' /\ InFlight(y)' => x = y
  BY <1>2 DEF RowsSound, OneInFlight
<1>4. OneInFlight'
  <2>. SUFFICES ASSUME NEW x \in Slots \ {r}, InFlight(x)', InFlight(r)' PROVE FALSE
    BY <1>3 DEF OneInFlight
  <2>1. {p \in Slots : InFlight(p)'} = {x} \cup {r}
    BY <1>3
  <2>2. /\ IsFiniteSet({x}) /\ Cardinality({x}) = 1
        /\ Cardinality({x} \cup {r}) = Cardinality({x}) + 1
    BY FS_Singleton, FS_AddElement
  <2>3. Cardinality({p \in Slots : InFlight(p)'}) <= 1
    BY Zenon DEF OneAtATime
  <2>. QED  BY <2>1, <2>2, <2>3
<1>5. AtMostOneUpcoming' /\ RowsOfCreated'
  BY <1>1 DEF RowsSound, AtMostOneUpcoming, RowsOfCreated
<1>6. ASSUME InFlight(r)'
      PROVE  /\ Sound(requests'[r], payments'[requests'[r].i])
             /\ Announced(requests'[r].todo) /\ Made(requests'[r], investments')
  <2>1. PICK n : n = requests'[r] /\ n.i = i
    BY <1>1
  <2>2. CASE investments[i].state = "absent"
    <3>1. n.todo[1] = "loadInvestor" /\ DOMAIN payments[i] = {}
      BY <1>1, <2>1, <2>2 DEF RowsSound, RowsOfCreated
    <3>. QED  BY <1>1, <2>1, <3>1 DEF Sound, Announced, Made
  <2>3. CASE investments[i].state # "absent"
    <3>1. n.todo[1] \in Starting /\ "insertSchedule" \notin Elements(n.todo)
      BY <1>1, <2>1, <2>3 DEF Starts
    <3>. QED  BY <1>1, <2>1, <2>3, <3>1 DEF Sound, Announced, Made, Starting
  <2>. QED  BY <2>2, <2>3
<1>7. \A x \in Slots : InFlight(x)' => x = r
  BY <1>1, <1>4 DEF OneInFlight, InFlight
<1>. QED  BY <1>4, <1>5, <1>6, <1>7 DEF RowsSound

-----------------------------------------------------------------------------
(* No row that is completed is lost or changed, nor are two made upcoming. *)
RowsStay == \A i \in Investments : RowsStep(payments[i], payments'[i])

(* A statement.                                                            *)
LEMMA StatementSound ==
    ASSUME RequestsIInv, RowsSound, NEW r \in Slots, Statement(r)
    PROVE  RowsSound' /\ RowsStay
<1>1. Done(r) /\ InFlight(r)
  BY StatementDone DEF Done
<1>2. /\ Sound(requests[r], payments[requests[r].i])
      /\ Announced(requests[r].todo) /\ Made(requests[r], investments)
      /\ AtMostOneUpcoming /\ RowsOfCreated /\ OneInFlight
  BY <1>1 DEF RowsSound
<1>3. RowsStay
  <2>1. RowsEffect(r)
    BY <1>2, StatementEffect
  <2>2. \A i \in Investments : RowsStep(payments[i], payments[i])
    BY RowsAre, RowsStepReflexive DEF RequestsIInv, DocumentsTyped
  <2>3. PICK i : i = requests[r].i
    OBVIOUS
  <2>4. /\ \A j \in Investments \ {i} : payments'[j] = payments[j]
        /\ RowsStep(payments[i], payments'[i])
    BY <2>1, <2>3 DEF RowsEffect
  <2>. QED  BY <2>2, <2>4 DEF RowsStay
<1>4. AtMostOneUpcoming'
  BY <1>2, <1>3 DEF AtMostOneUpcoming, RowsStay, RowsStep
<1>5. RowsOfCreated'
  BY <1>2, MadeGoes
<1>6. \A x \in Slots : InFlight(x)' => x = r
  BY <1>1, <1>2 DEF Done, OneInFlight, InFlight
<1>7. OneInFlight'
  BY <1>6 DEF OneInFlight
<1>8. ASSUME requests'[r].todo # << >>
      PROVE  /\ Sound(requests'[r], payments'[requests'[r].i])
             /\ Announced(requests'[r].todo) /\ Made(requests'[r], investments')
  BY <1>2, <1>8, SoundGoes, MadeGoes
<1>. QED  BY <1>3, <1>4, <1>5, <1>6, <1>7, <1>8 DEF RowsSound, InFlight

(* Nothing is in flight that was not, and no document changes.             *)
LEMMA StillSound ==
    ASSUME RequestsIInv, RowsSound, UNCHANGED <<payments, investments>>,
           \A x \in Slots : requests'[x] = requests[x] \/ requests'[x].todo = << >>
    PROVE  RowsSound' /\ RowsStay
<1>1. RowsStay
  BY RowsAre, RowsStepReflexive DEF RowsStay, RequestsIInv, DocumentsTyped
<1>2. AtMostOneUpcoming' /\ RowsOfCreated'
  BY DEF RowsSound, AtMostOneUpcoming, RowsOfCreated
<1>3. \A x \in Slots : InFlight(x)' => InFlight(x) /\ requests'[x] = requests[x]
  BY DEF InFlight
<1>4. OneInFlight'
  BY <1>3 DEF RowsSound, OneInFlight
<1>5. ASSUME NEW x \in Slots, InFlight(x)'
      PROVE  /\ Sound(requests'[x], payments'[requests'[x].i])
             /\ Announced(requests'[x].todo) /\ Made(requests'[x], investments')
  BY <1>3, <1>5 DEF RowsSound
<1>. QED  BY <1>1, <1>2, <1>4, <1>5 DEF RowsSound

(* Marking rows overdue leaves what a request relies on.                   *)
LEMMA SoundMarked ==
    ASSUME NEW q, NEW rows, IsRows(rows), today \in Nat, q.held \subseteq DOMAIN rows,
           Sound(q, rows)
    PROVE  Sound(q, MarkedOverdue(rows))
<1>1. PICK new : new = MarkedOverdue(rows)
  OBVIOUS
<1>2. /\ DOMAIN new = DOMAIN rows
      /\ \A s \in DOMAIN rows : new[s].status = "completed" => rows[s].status = "completed"
  BY <1>1, MarkedFacts
<1>3. /\ OnlyChosen(q, rows) => OnlyChosen(q, new)
      /\ (\A s \in DOMAIN rows : rows[s].status \in Paid) => new = rows
  BY <1>1, MarkedLeaves
<1>4. Seen(q, rows) => Seen(q, new)
  BY <1>2 DEF Seen
<1>5. Sound(q, new)
  BY <1>2, <1>3, <1>4 DEF Sound
<1>. QED  BY <1>1, <1>5

(* A sweep beside the request.                                             *)
LEMMA SweepSound ==
    ASSUME RequestsIInv, RowsSound, SweepOverdue, UNCHANGED requests
    PROVE  RowsSound' /\ RowsStay
<1>1. /\ \A i \in Investments : payments'[i] = MarkedOverdue(payments[i])
      /\ UNCHANGED investments /\ today \in Nat
  BY DEF SweepOverdue, RequestsIInv, DocumentsTyped
<1>2. \A i \in Investments : IsRows(payments[i])
  BY RowsAre DEF RequestsIInv, DocumentsTyped
<1>3. RowsStay
  BY <1>1, <1>2, MarkedOverdueStep DEF RowsStay
<1>4. AtMostOneUpcoming'
  BY <1>3 DEF RowsSound, AtMostOneUpcoming, RowsStay, RowsStep
<1>5. RowsOfCreated'
  <2>1. \A i \in Investments : DOMAIN payments'[i] = DOMAIN payments[i]
    BY <1>1, <1>2, MarkedFacts
  <2>. QED  BY <1>1, <2>1 DEF RowsSound, RowsOfCreated
<1>6. OneInFlight'
  BY DEF RowsSound, OneInFlight, InFlight
<1>7. ASSUME NEW x \in Slots, InFlight(x)
      PROVE  /\ Sound(requests[x], payments'[requests[x].i])
             /\ Announced(requests[x].todo) /\ Made(requests[x], investments')
  <2>1. PICK q, i, rows : q = requests[x] /\ i = requests[x].i /\ rows = payments[i]
    OBVIOUS
  <2>2. i \in Investments /\ IsRows(rows) /\ q.held \subseteq DOMAIN rows /\ q.i = i
    BY <1>7, <2>1, FlightHas
  <2>3. Sound(q, rows) /\ Announced(q.todo) /\ Made(q, investments)
    BY <1>7, <2>1 DEF RowsSound
  <2>4. Sound(q, payments'[i])
    BY <1>1, <2>1, <2>2, <2>3, SoundMarked
  <2>. QED  BY <1>1, <2>1, <2>2, <2>3, <2>4
<1>8. \A x \in Slots : InFlight(x)' => InFlight(x) /\ requests'[x] = requests[x]
  BY DEF InFlight
<1>. QED  BY <1>3, <1>4, <1>5, <1>6, <1>7, <1>8 DEF RowsSound

(* Every step of one request at a time.                                    *)
LEMMA FailingSound ==
    ASSUME RequestsIInv, RowsSound, FailingNext, OneAtATime'
    PROVE  RowsSound' /\ RowsStay
<1>1. ASSUME NEW r \in Slots, Statement(r) PROVE RowsSound' /\ RowsStay
  BY <1>1, StatementSound
<1>2. ASSUME NEW r \in Slots, NEW i \in Investments, Begins(r, i) PROVE RowsSound' /\ RowsStay
  <2>1. UNCHANGED payments
    BY <1>2, BegunStarts DEF vars
  <2>2. RowsStay
    BY <2>1, RowsAre, RowsStepReflexive DEF RowsStay, RequestsIInv, DocumentsTyped
  <2>. QED  BY <1>2, <2>2, BeginsSound
<1>3. ASSUME NEW r \in Slots, Fail(r) PROVE RowsSound' /\ RowsStay
  <2>1. Idle.todo = << >> /\ requests \in [Slots -> RequestRecord]
    BY DEF Idle, RequestsIInv, RequestsKnow
  <2>2. /\ UNCHANGED <<payments, investments>>
        /\ \A x \in Slots : requests'[x] = requests[x] \/ requests'[x].todo = << >>
    BY <1>3, <2>1 DEF Fail, Rejects, Ends, vars
  <2>. QED  BY <2>2, StillSound
<1>4. CASE Single
  <2>1. UNCHANGED requests /\ (SweepOverdue \/ \E v \in Investors : RemoveInvestor(v))
    BY <1>4 DEF Single
  <2>2. CASE SweepOverdue
    BY <2>1, <2>2, SweepSound
  <2>3. CASE \E v \in Investors : RemoveInvestor(v)
    BY <2>1, <2>3, StillSound DEF RemoveInvestor
  <2>. QED  BY <2>1, <2>2, <2>3
<1>5. CASE Clock
  BY <1>5, StillSound DEF Clock, MonthPasses
<1>. QED  BY <1>1, <1>2, <1>3, <1>4, <1>5 DEF FailingNext, RequestsNext

(* At first there is no row and no request.                                *)
LEMMA SoundBegins ==
    ASSUME RequestsInit
    PROVE  RowsSound
<1>1. /\ \A i \in Investments : payments[i] = << >>
      /\ \A r \in Slots : requests[r] = Idle
  BY DEF RequestsInit, Init
<1>2. \A r \in Slots : ~InFlight(r)
  <2>1. Idle.todo = << >>
    BY DEF Idle
  <2>. QED  BY <1>1, <2>1 DEF InFlight
<1>3. DOMAIN << >> = {}
  OBVIOUS
<1>. QED  BY <1>1, <1>2, <1>3
          DEF RowsSound, AtMostOneUpcoming, OneUpcoming, RowsOfCreated, OneInFlight

(* What holds of the requests, one at a time or not.                       *)
FailingIInv == RequestsIInv /\ (part = "failing" => RowsSound)

(* Every step, of requests one at a time or two beside each other.         *)
LEMMA FaultyStep ==
    ASSUME FailingIInv, [FaultyNext]_faultyVars
    PROVE  FailingIInv' /\ (part = "failing" => AtMostOneUpcoming' /\ RowsStay)
<1>1. [FailingNext]_requestVars /\ UNCHANGED part
  BY FaultyFailsStep DEF FaultyNext, faultyVars
<1>2. RequestsIInv'
  BY <1>1, RequestsStep DEF FailingIInv
<1>3. ASSUME part = "failing" PROVE RowsSound' /\ RowsStay
  <2>1. CASE UNCHANGED faultyVars
    BY <1>3, <2>1, StillSound DEF FailingIInv, faultyVars, requestVars, vars
  <2>2. CASE FaultyNext
    <3>1. FailingNext /\ OneAtATime'
      BY <1>3, <2>2 DEF FaultyNext, FailingPart, PairPart
    <3>. QED  BY <1>3, <3>1, FailingSound DEF FailingIInv
  <2>. QED  BY <2>1, <2>2
<1>. QED  BY <1>1, <1>2, <1>3 DEF FailingIInv, RowsSound

(* A request that stops or fails between any two of its statements, sweeps *)
(* and months in between, leaves neither two next payments nor a completed *)
(* row that is gone or changed, whatever page findByInvestment returns     *)
(* (the order of the statements of investment.service.ts:285-346, 588-617  *)
(* and 684-696).                                                           *)
THEOREM FailuresLeaveRows == FaultySpec => FailuresLeaveRowsSound
<1>1. FaultyInit => FailingIInv
  BY RequestsBegin, SoundBegins DEF FaultyInit, FailingIInv
<1>2. ASSUME FailingIInv, [FaultyNext]_faultyVars
      PROVE  /\ FailingIInv'
             /\ part = "failing" =>
                   /\ AtMostOneUpcoming'
                   /\ \A i \in Investments : \A s \in DOMAIN payments[i] :
                         payments[i][s].status = "completed" =>
                             s \in DOMAIN payments'[i] /\ payments'[i][s] = payments[i][s]
  BY <1>2, FaultyStep DEF RowsStay, RowsStep, RowsKept
<1>. QED  BY <1>1, <1>2, PTL DEF FaultySpec, FailuresLeaveRowsSound
=============================================================================
