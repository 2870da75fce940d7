------------------------ MODULE PlatformPartsProofs ------------------------
(***************************************************************************)
(* The parts of PlatformParts and the schedule engine, proved for every    *)
(* value of their constants.                                               *)
(*                                                                         *)
(* Each section is about one part: its invariant, one lemma for each of    *)
(* its actions, and the theorem about the part by itself.  PlatformProofs  *)
(* carries the theorems over to the composition.                           *)
(***************************************************************************)
EXTENDS RepaymentSchedule, PlatformParts, FiniteSums, SequenceTheorems

-----------------------------------------------------------------------------
(***************************************************************************)
(* TotalsCatchUp of InvestorTotals, for any number of requests at a time,  *)
(* of investments and changes.                                             *)
(*                                                                         *)
(* A synchronisation that runs alone writes the sums of the investments as *)
(* they still are, because nobody changes one beside it (TotalsSole,       *)
(* TotalsReadAlone).  One that did not run alone leaves the profile stale  *)
(* (TotalsMarked).  And a page that is long enough shows every investment  *)
(* (TotalsPageShowsAll).  What a sum is plays no part: SumOver stays       *)
(* unexpanded.                                                             *)
(***************************************************************************)

TotalsInvestment ==
    [principal : Principals, outstanding : Principals \cup Int, status : {"open", "closed"}]
TotalsFields == {"at", "sums", "alone"}

(* The shape of the investments and of the requests.                       *)
TotalsShapes ==
    /\ totalInvestments \in Seq(TotalsInvestment)
    /\ DOMAIN totalRequest = Slots
    /\ \A s \in Slots : DOMAIN totalRequest[s] = TotalsFields
         /\ totalRequest[s].alone \in BOOLEAN
    /\ totalRemoved \in BOOLEAN /\ totalStale \in BOOLEAN

(* Where a request runs alone nobody else is being served.                 *)
TotalsSole == \A s \in Slots : Totals!Busy(s) /\ totalRequest[s].alone => Totals!Alone(s)

(* One that does not run alone leaves the profile stale until the next.    *)
TotalsMarked == \A s \in Slots : Totals!Busy(s) /\ ~totalRequest[s].alone => totalStale

(* What a request that runs alone has read is what the investments are.    *)
TotalsReadAlone ==
    \A s \in Slots : totalRequest[s].at = "write" /\ totalRequest[s].alone =>
      totalRequest[s].sums = Totals!Sums(Totals!Page)

TotalsIInv == TotalsShapes /\ TotalsSole /\ TotalsMarked /\ TotalsReadAlone
  /\ Totals!TotalsCatchUp

-----------------------------------------------------------------------------
(* The size of a set is the same in the part and here.                     *)
LEMMA TotalsSameSize == \A S : Totals!Cardinality(S) = Cardinality(S)
BY DEF Totals!Cardinality, Cardinality

(* A page that is long enough shows every investment that counts.          *)
LEMMA TotalsPageShowsAll ==
    ASSUME TotalsPage \in Nat, TotalsShapes, Cardinality(Totals!Counted) <= TotalsPage
    PROVE  Totals!Page = Totals!Counted
<1>1. IsFiniteSet(Totals!Counted)
  <2>1. Len(totalInvestments) \in Nat
          /\ DOMAIN totalInvestments = 1 .. Len(totalInvestments)
    BY DEF TotalsShapes
  <2>2. IsFiniteSet(DOMAIN totalInvestments)
    BY <2>1, FS_Interval
  <2>. QED  BY <2>2, FS_Subset DEF Totals!Counted
<1>2. ASSUME NEW i \in Totals!Counted
      PROVE  Cardinality({j \in Totals!Counted : j > i}) < TotalsPage
  <2>. DEFINE Newer == {j \in Totals!Counted : j > i}
  <2>1. i \in Int
    BY DEF Totals!Counted, TotalsShapes
  <2>2. Newer \subseteq Totals!Counted /\ Newer # Totals!Counted
    BY <2>1
  <2>. HIDE DEF Newer
  <2>3. IsFiniteSet(Newer) /\ Cardinality(Newer) <= Cardinality(Totals!Counted)
    BY <1>1, <2>2, FS_Subset
  <2>4. Cardinality(Newer) # Cardinality(Totals!Counted)
    BY <1>1, <2>2, FS_Subset
  <2>5. Cardinality(Newer) \in Nat /\ Cardinality(Totals!Counted) \in Nat
    BY <1>1, <2>3, FS_CardinalityType
  <2>6. Cardinality(Newer) < TotalsPage
    BY <2>3, <2>4, <2>5
  <2>. QED  BY <2>6 DEF Newer
<1>. QED  BY <1>2, TotalsSameSize DEF Totals!Page

(* The sums depend on the investments alone.                               *)
LEMMA TotalsSameSums ==
    ASSUME UNCHANGED totalInvestments
    PROVE  Totals!Sums(Totals!Page)' = Totals!Sums(Totals!Page)
             /\ Totals!Sums(Totals!Counted)' = Totals!Sums(Totals!Counted)
             /\ Totals!Counted' = Totals!Counted
<1>1. Totals!Counted' = Totals!Counted /\ Totals!Page' = Totals!Page
  BY DEF Totals!Counted, Totals!Counts, Totals!Page
<1>. QED  BY <1>1 DEF Totals!Sums

(* The sum over no investment is 0.                                        *)
LEMMA TotalsEmptySum ==
    ASSUME NEW f
    PROVE  Totals!SumOver({}, f) = 0
<1>. DEFINE Body(g, s) == IF s = {} THEN 0
                          ELSE LET x == CHOOSE x \in s : TRUE IN f[x] + g[s \ {x}]
            Sum == CHOOSE g : g = [s \in SUBSET {} |-> Body(g, s)]
<1>1. Totals!SumOver({}, f) = Sum[{}]
  BY DEF Totals!SumOver, Totals!MapThenSumSet, Totals!MapThenFoldSet
<1>2. \E g : g = [s \in SUBSET {} |-> Body(g, s)]
  <2>. DEFINE h == [s \in SUBSET {} |-> 0]
  <2>1. h = [s \in SUBSET {} |-> Body(h, s)]
    OBVIOUS
  <2>. QED  BY <2>1
<1>3. Sum = [s \in SUBSET {} |-> Body(Sum, s)]
  BY <1>2
<1>. QED  BY <1>1, <1>3

-----------------------------------------------------------------------------
(* The empty profile of an investor without investments.                   *)
LEMMA TotalsInitKeeps == Totals!Init => TotalsIInv
<1>. SUFFICES ASSUME Totals!Init PROVE TotalsIInv
  OBVIOUS
<1>1. \A s \in Slots : totalRequest[s] = Totals!Idle /\ ~Totals!Busy(s)
  BY DEF Totals!Init, Totals!Idle, Totals!Busy
<1>2. TotalsShapes
  <2>1. totalInvestments \in Seq(TotalsInvestment)
    BY EmptySeq DEF Totals!Init
  <2>2. DOMAIN Totals!Idle = TotalsFields /\ Totals!Idle.alone \in BOOLEAN
    BY DEF Totals!Idle, TotalsFields
  <2>. QED  BY <1>1, <2>1, <2>2 DEF Totals!Init, TotalsShapes
<1>3. Totals!Counted = {}
  BY DEF Totals!Init, Totals!Counted
<1>4. Totals!TotalsCatchUp
  BY <1>3, TotalsEmptySum DEF Totals!TotalsCatchUp, Totals!Init, Totals!Sums, Totals!Zero
<1>. QED  BY <1>1, <1>2, <1>4
   DEF TotalsIInv, TotalsSole, TotalsMarked, TotalsReadAlone, Totals!Idle

-----------------------------------------------------------------------------
(* What the requests look like after the step that begins one.             *)
LEMMA TotalsChangedKeeps ==
    ASSUME TotalsIInv, NEW s \in Slots, Totals!Changed(s),
           totalInvestments' \in Seq(TotalsInvestment)
    PROVE  TotalsIInv'
<1>1. DOMAIN totalRequest' = Slots /\ totalRemoved' = totalRemoved /\ ~Totals!Busy(s)
  BY DEF Totals!Changed
<1>2. /\ totalRequest'[s].at = "read" /\ totalRequest'[s].alone = Totals!Alone(s)
      /\ DOMAIN totalRequest'[s] = TotalsFields
  BY DEF Totals!Changed, Totals!Idle, TotalsFields
<1>3. \A x \in Slots \ {s} :
          /\ totalRequest'[x].at = totalRequest[x].at /\ totalRequest'[x].alone = FALSE
          /\ DOMAIN totalRequest'[x] = TotalsFields
  BY DEF TotalsIInv, TotalsShapes, Totals!Changed, TotalsFields
<1>4. TotalsShapes'
  <2>1. Totals!Alone(s) \in BOOLEAN /\ totalStale' \in BOOLEAN
    BY DEF Totals!Alone, Totals!Changed
  <2>. QED  BY <1>1, <1>2, <1>3, <2>1 DEF TotalsIInv, TotalsShapes
<1>5. TotalsSole'
  BY <1>2, <1>3 DEF TotalsSole, Totals!Busy, Totals!Alone
<1>6. TotalsMarked'
  <2>1. CASE Totals!Alone(s)
    BY <1>2, <1>3, <2>1 DEF TotalsMarked, Totals!Busy, Totals!Alone
  <2>2. CASE ~Totals!Alone(s)
    BY <2>2 DEF Totals!Changed, TotalsMarked
  <2>. QED  BY <2>1, <2>2
<1>7. TotalsReadAlone'
  BY <1>2, <1>3 DEF TotalsReadAlone
<1>8. Totals!TotalsCatchUp'
  BY <1>2 DEF Totals!TotalsCatchUp, Totals!Busy
<1>. QED  BY <1>4, <1>5, <1>6, <1>7, <1>8 DEF TotalsIInv

(* A request that leaves the slot it was served in.                        *)
LEMMA TotalsEndedGives ==
    ASSUME TotalsShapes, NEW s \in Slots,
           totalRequest' = [totalRequest EXCEPT ![s] = Totals!Idle],
           UNCHANGED <<totalInvestments, totalRemoved>>, totalStale' \in BOOLEAN
    PROVE  /\ TotalsShapes' /\ totalRequest'[s].at = "idle"
           /\ \A x \in Slots \ {s} : totalRequest'[x] = totalRequest[x]
<1>1. DOMAIN Totals!Idle = TotalsFields /\ Totals!Idle.alone \in BOOLEAN
        /\ Totals!Idle.at = "idle"
  BY DEF Totals!Idle, TotalsFields
<1>. QED  BY <1>1 DEF TotalsShapes

-----------------------------------------------------------------------------
(* A new investment has the shape of one.                                  *)
LEMMA TotalsCreateInvestmentKeeps ==
    ASSUME TotalsIInv, NEW s \in Slots, Totals!CreateInvestment(s)
    PROVE  TotalsIInv'
<1>1. PICK p \in Principals : totalInvestments' = Append(totalInvestments,
          [principal |-> p, outstanding |-> p, status |-> "open"])
  BY DEF Totals!CreateInvestment
<1>2. [principal |-> p, outstanding |-> p, status |-> "open"] \in TotalsInvestment
  BY DEF TotalsInvestment
<1>3. totalInvestments' \in Seq(TotalsInvestment)
  BY <1>1, <1>2, AppendProperties DEF TotalsIInv, TotalsShapes
<1>. QED  BY <1>3, TotalsChangedKeeps DEF Totals!CreateInvestment
(* A moved balance leaves an investment one.                               *)
LEMMA TotalsChangeBalanceKeeps ==
    ASSUME TotalsIInv, NEW s \in Slots, Totals!ChangeBalance(s)
    PROVE  TotalsIInv'
<1>1. PICK i \in DOMAIN totalInvestments, b \in 0 .. Totals!Max(Principals) :
          totalInvestments' = [totalInvestments EXCEPT ![i].outstanding = b]
  BY DEF Totals!ChangeBalance
<1>2. b \in Int /\ totalInvestments[i] \in TotalsInvestment
  BY DEF TotalsIInv, TotalsShapes
<1>3. [totalInvestments[i] EXCEPT !.outstanding = b] \in TotalsInvestment
  BY <1>2 DEF TotalsInvestment
<1>4. totalInvestments' \in Seq(TotalsInvestment)
  BY <1>1, <1>3, ExceptSeq DEF TotalsIInv, TotalsShapes
<1>. QED  BY <1>4, TotalsChangedKeeps DEF Totals!ChangeBalance

(* So does a changed status.                                               *)
LEMMA TotalsCloseInvestmentKeeps ==
    ASSUME TotalsIInv, NEW s \in Slots, Totals!CloseInvestment(s)
    PROVE  TotalsIInv'
<1>1. PICK i \in DOMAIN totalInvestments :
          totalInvestments' = [totalInvestments EXCEPT ![i].status = "closed"]
  BY DEF Totals!CloseInvestment
<1>2. [totalInvestments[i] EXCEPT !.status = "closed"] \in TotalsInvestment
  <2>1. totalInvestments[i] \in TotalsInvestment
    BY DEF TotalsIInv, TotalsShapes
  <2>. QED  BY <2>1 DEF TotalsInvestment
<1>3. totalInvestments' \in Seq(TotalsInvestment)
  BY <1>1, <1>2, ExceptSeq DEF TotalsIInv, TotalsShapes
<1>. QED  BY <1>3, TotalsChangedKeeps DEF Totals!CloseInvestment

(* Reading shows the investments as they are.                              *)
LEMMA TotalsReadInvestmentsKeeps ==
    ASSUME TotalsIInv, NEW s \in Slots, Totals!ReadInvestments(s)
    PROVE  TotalsIInv'
<1>1. UNCHANGED <<totalInvestments, totalTotals, totalRemoved, totalStale>>
  BY DEF Totals!ReadInvestments
<1>2. /\ DOMAIN totalRequest' = Slots /\ Totals!Busy(s)
      /\ totalRequest'[s].at = "write" /\ totalRequest'[s].alone = totalRequest[s].alone
      /\ totalRequest'[s].sums = Totals!Sums(Totals!Page)
      /\ DOMAIN totalRequest'[s] = TotalsFields
  BY DEF Totals!ReadInvestments, TotalsIInv, TotalsShapes, TotalsFields, Totals!Busy
<1>3. \A x \in Slots \ {s} : totalRequest'[x] = totalRequest[x]
  BY DEF Totals!ReadInvestments, TotalsIInv, TotalsShapes
<1>4. \A x \in Slots :
          /\ Totals!Busy(x)' <=> Totals!Busy(x)
          /\ totalRequest'[x].alone = totalRequest[x].alone
  BY <1>2, <1>3 DEF Totals!Busy
<1>5. TotalsShapes'
  BY <1>1, <1>2, <1>3 DEF TotalsIInv, TotalsShapes
<1>6. TotalsSole' /\ TotalsMarked'
  BY <1>1, <1>4 DEF TotalsIInv, TotalsSole, TotalsMarked, Totals!Alone
<1>7. TotalsReadAlone'
  BY <1>1, <1>2, <1>3, TotalsSameSums DEF TotalsIInv, TotalsReadAlone
<1>8. Totals!TotalsCatchUp'
  BY <1>2 DEF Totals!TotalsCatchUp, Totals!Busy
<1>. QED  BY <1>5, <1>6, <1>7, <1>8 DEF TotalsIInv

(* Written alone, the sums are those of the investments; otherwise the     *)
(* profile is stale and stays so.                                          *)
LEMMA TotalsWriteTotalsKeeps ==
    ASSUME TotalsPage \in Nat, TotalsIInv, NEW s \in Slots, Totals!WriteTotals(s)
    PROVE  TotalsIInv'
<1>1. /\ totalRequest[s].at = "write"
      /\ totalRequest' = [totalRequest EXCEPT ![s] = Totals!Idle]
      /\ UNCHANGED <<totalInvestments, totalRemoved>> /\ totalStale' = (totalStale
             /\ ~totalRequest[s].alone)
      /\ ~totalRemoved => totalTotals' = totalRequest[s].sums
  BY DEF Totals!WriteTotals
<1>2. Totals!Busy(s) /\ (totalRequest[s].alone \in BOOLEAN) /\ (totalStale \in BOOLEAN)
        /\ TotalsShapes
  BY <1>1 DEF Totals!Busy, TotalsIInv, TotalsShapes
<1>3. /\ TotalsShapes' /\ totalRequest'[s].at = "idle"
      /\ \A x \in Slots \ {s} : totalRequest'[x] = totalRequest[x]
  BY <1>1, <1>2, TotalsEndedGives
<1>4. ~Totals!Busy(s)' /\ \A x \in Slots \ {s} : Totals!Busy(x)' <=> Totals!Busy(x)
  BY <1>3 DEF Totals!Busy
<1>5. CASE totalRequest[s].alone
  <2>1. \A x \in Slots : ~Totals!Busy(x)'
    BY <1>2, <1>4, <1>5 DEF TotalsIInv, TotalsSole, Totals!Alone
  <2>2. TotalsSole' /\ TotalsMarked'
    BY <2>1 DEF TotalsSole, TotalsMarked
  <2>3. TotalsReadAlone'
    BY <2>1 DEF TotalsReadAlone, Totals!Busy
  <2>4. ASSUME ~totalRemoved, Cardinality(Totals!Counted) <= TotalsPage
        PROVE  totalTotals' = Totals!Sums(Totals!Counted)
    <3>1. Totals!Page = Totals!Counted
      BY <1>2, <2>4, TotalsPageShowsAll
    <3>2. totalRequest[s].sums = Totals!Sums(Totals!Page)
      BY <1>1, <1>5 DEF TotalsIInv, TotalsReadAlone
    <3>. QED  BY <1>1, <2>4, <3>1, <3>2
  <2>5. Totals!TotalsCatchUp'
    BY <1>1, <2>4, TotalsSameSums, TotalsSameSize DEF Totals!TotalsCatchUp
  <2>. QED  BY <1>3, <2>2, <2>3, <2>5 DEF TotalsIInv
<1>6. CASE ~totalRequest[s].alone
  <2>1. totalStale'
    BY <1>1, <1>2, <1>6 DEF TotalsIInv, TotalsMarked
  <2>2. TotalsSole' /\ TotalsMarked'
    BY <1>3, <1>4, <2>1 DEF TotalsIInv, TotalsSole, TotalsMarked, Totals!Alone
  <2>3. TotalsReadAlone'
    BY <1>1, <1>3, TotalsSameSums DEF TotalsIInv, TotalsReadAlone
  <2>. QED  BY <1>3, <2>1, <2>2, <2>3 DEF TotalsIInv, Totals!TotalsCatchUp
<1>. QED  BY <1>2, <1>5, <1>6

(* A request cut short leaves the profile stale.                           *)
LEMMA TotalsCutShortKeeps ==
    ASSUME TotalsIInv, NEW s \in Slots, Totals!CutShort(s)
    PROVE  TotalsIInv'
<1>1. /\ totalRequest' = [totalRequest EXCEPT ![s] = Totals!Idle]
      /\ UNCHANGED <<totalInvestments, totalRemoved>> /\ totalStale' = TRUE
  BY DEF Totals!CutShort
<1>2. /\ TotalsShapes' /\ totalRequest'[s].at = "idle"
      /\ \A x \in Slots \ {s} : totalRequest'[x] = totalRequest[x]
  BY <1>1, TotalsEndedGives DEF TotalsIInv
<1>3. TotalsSole' /\ TotalsMarked'
  BY <1>1, <1>2 DEF TotalsIInv, TotalsSole, TotalsMarked, Totals!Busy, Totals!Alone
<1>4. TotalsReadAlone'
  BY <1>1, <1>2, TotalsSameSums DEF TotalsIInv, TotalsReadAlone
<1>. QED  BY <1>1, <1>2, <1>3, <1>4 DEF TotalsIInv, Totals!TotalsCatchUp

(* Of a removed profile nothing is promised.                               *)
LEMMA TotalsRemoveInvestorKeeps ==
    ASSUME TotalsIInv, Totals!RemoveInvestor
    PROVE  TotalsIInv'
<1>1. UNCHANGED <<totalInvestments, totalRequest, totalStale>> /\ totalRemoved' = TRUE
  BY DEF Totals!RemoveInvestor
<1>2. TotalsShapes' /\ TotalsSole' /\ TotalsMarked'
  BY <1>1 DEF TotalsIInv, TotalsShapes, TotalsSole, TotalsMarked, Totals!Busy, Totals!Alone
<1>3. TotalsReadAlone'
  BY <1>1, TotalsSameSums DEF TotalsIInv, TotalsReadAlone
<1>. QED  BY <1>1, <1>2, <1>3 DEF TotalsIInv, Totals!TotalsCatchUp

(* A step of nobody changes nothing.                                       *)
LEMMA TotalsStutterKeeps ==
    ASSUME TotalsIInv, UNCHANGED Totals!vars
    PROVE  TotalsIInv'
<1>1. UNCHANGED <<totalInvestments, totalTotals, totalRemoved, totalRequest, totalStale>>
  BY DEF Totals!vars
<1>2. TotalsShapes' /\ TotalsSole' /\ TotalsMarked'
  BY <1>1 DEF TotalsIInv, TotalsShapes, TotalsSole, TotalsMarked, Totals!Busy, Totals!Alone
<1>3. TotalsReadAlone' /\ Totals!TotalsCatchUp'
  BY <1>1, TotalsSameSums DEF TotalsIInv, TotalsReadAlone, Totals!TotalsCatchUp, Totals!Busy
<1>. QED  BY <1>2, <1>3 DEF TotalsIInv

-----------------------------------------------------------------------------
(* Every step of the totals keeps their invariant.                         *)
LEMMA TotalsNextStep ==
    ASSUME TotalsPage \in Nat
    PROVE  TotalsIInv /\ [Totals!Next]_(Totals!vars) => TotalsIInv'
<1>. SUFFICES ASSUME TotalsIInv, [Totals!Next]_(Totals!vars) PROVE TotalsIInv'
  OBVIOUS
<1>1. ASSUME NEW s \in Slots,
             \/ Totals!CreateInvestment(s) \/ Totals!ChangeBalance(s)
                  \/ Totals!CloseInvestment(s)
             \/ Totals!ReadInvestments(s) \/ Totals!WriteTotals(s) \/ Totals!CutShort(s)
      PROVE  TotalsIInv'
  BY <1>1, TotalsCreateInvestmentKeeps, TotalsChangeBalanceKeeps,
     TotalsCloseInvestmentKeeps,
     TotalsReadInvestmentsKeeps, TotalsWriteTotalsKeeps, TotalsCutShortKeeps
<1>. QED  BY <1>1, TotalsRemoveInvestorKeeps, TotalsStutterKeeps DEF Totals!Next

(* When no request is being served the sums in a profile are those of its  *)
(* investments, unless synchronisations overlapped or were cut short and   *)
(* none has run alone since, or the page is too short (syncTotals).        *)
THEOREM TotalsAlwaysCatchUp ==
    ASSUME TotalsPage \in Nat
    PROVE  Totals!Spec => []Totals!TotalsCatchUp
<1>1. Totals!Init => TotalsIInv
  BY TotalsInitKeeps
<1>2. TotalsIInv /\ [Totals!Next]_(Totals!vars) => TotalsIInv'
  BY TotalsNextStep
<1>3. TotalsIInv => Totals!TotalsCatchUp
  BY DEF TotalsIInv
<1>. QED  BY <1>1, <1>2, <1>3, PTL DEF Totals!Spec

-----------------------------------------------------------------------------
(***************************************************************************)
(* LibraryConsistent of DocumentLibrary, for any number of requests at a   *)
(* time, of investors, documents and files.                                *)
(*                                                                         *)
(* Until its document is created a file that is uploaded belongs to its    *)
(* request alone: no document has it, and no body can name it, since its   *)
(* name was never told (LibraryOwners).  So what the check of the content  *)
(* removes is the file of no document and of no download.  Documents may   *)
(* share any other file: an investor who is sent one was assigned to some  *)
(* document that had it (LibraryScopes).                                   *)
(***************************************************************************)

LibraryDocuments == [kind : Library!Kinds, assigned : SUBSET Readers, deleted : BOOLEAN,
    file : Nat]
LibraryRequests ==
    [at : Library!Uploading \cup {"idle", "send"}, kind : Library!Kinds \cup {"none"},
     file : Nat, who : Readers \cup {Library!Admin, "none"}, doc : Nat]

(* The shape of the documents and of the requests.                         *)
LibraryShapes ==
    /\ docUploaded \in 0 .. MaxFiles /\ docDisk \subseteq 1 .. docUploaded
    /\ docDocuments \in Seq(LibraryDocuments)
    /\ docRequest \in [Slots -> LibraryRequests]
    /\ docEntitled \in [1 .. MaxFiles -> SUBSET Readers]
    /\ \A s \in Slots :
           /\ docRequest[s].at = "idle" => docRequest[s].file = Library!NoFile
           /\ docRequest[s].at = "send" => docRequest[s].file # Library!NoFile
           /\ docRequest[s].file \in docDisk \cup {Library!NoFile}

(* Who has a file of their own.                                            *)
LibraryOwners ==
    /\ \A d, e \in DOMAIN docDocuments \ docRepointed :
           /\ docDocuments[d].file # Library!NoFile
           /\ docDocuments[e].file = docDocuments[d].file => e = d
    /\ \A s \in Slots, d \in DOMAIN docDocuments :
           docRequest[s].at \in Library!Uploading =>
               docDocuments[d].file \notin Library!Uploaded(docRequest[s].file)
    /\ \A s, x \in Slots :
           docRequest[s].at \in Library!Uploading /\ x # s =>
               docRequest[x].file \notin Library!Uploaded(docRequest[s].file)

(* A document's file is on the disk; a file of the disk that is not left   *)
(* over has an owner.                                                      *)
LibraryServed ==
    /\ \A d \in DOMAIN docDocuments :
           docDocuments[d].file \in docDisk \cup {Library!NoFile}
    /\ \A f \in docDisk \ docLeftover :
           \/ \E d \in DOMAIN docDocuments : docDocuments[d].file = f
           \/ \E s \in Slots : docRequest[s].at \in Library!Uploading
                /\ docRequest[s].file = f

(* Who may be sent a file.                                                 *)
LibraryScopes ==
    /\ \A d \in DOMAIN docDocuments : docDocuments[d].file # Library!NoFile =>
           docDocuments[d].assigned \subseteq docEntitled[docDocuments[d].file]
    /\ \A s \in Slots : docRequest[s].at = "send" /\ docRequest[s].who # Library!Admin =>
           docRequest[s].who \in docEntitled[docRequest[s].file]

LibraryIInv == LibraryShapes /\ LibraryOwners /\ LibraryServed /\ LibraryScopes

-----------------------------------------------------------------------------
(* The state of a slot is replaced.                                        *)
LEMMA LibrarySlotBecomes ==
    ASSUME LibraryShapes, NEW s \in Slots, NEW r \in LibraryRequests,
           docRequest' = [docRequest EXCEPT ![s] = r]
    PROVE  /\ docRequest' \in [Slots -> LibraryRequests]
           /\ \A x \in Slots \ {s} : docRequest'[x] = docRequest[x]
           /\ docRequest'[s] = r
BY DEF LibraryShapes

(* A request that ends leaves an idle slot without a file.                 *)
LEMMA LibraryDoneGives ==
    ASSUME LibraryShapes, NEW s \in Slots, Library!Done(s)
    PROVE  /\ docRequest' \in [Slots -> LibraryRequests]
           /\ \A x \in Slots \ {s} : docRequest'[x] = docRequest[x]
           /\ docRequest'[s].at = "idle" /\ docRequest'[s].file = Library!NoFile
<1>1. Library!Idle \in LibraryRequests
  BY DEF Library!Idle, LibraryRequests, Library!NoFile
<1>. QED  BY <1>1 DEF LibraryShapes, Library!Done, Library!Idle

(* A request that goes on keeps its file.                                  *)
LEMMA LibraryGotoGives ==
    ASSUME LibraryShapes, NEW s \in Slots, NEW at \in Library!Uploading, Library!Goto(s, at)
    PROVE  /\ docRequest' \in [Slots -> LibraryRequests]
           /\ \A x \in Slots \ {s} : docRequest'[x] = docRequest[x]
           /\ docRequest'[s].at = at /\ docRequest'[s].file = docRequest[s].file
<1>1. [docRequest[s] EXCEPT !.at = at] \in LibraryRequests
  BY DEF LibraryShapes, LibraryRequests
<1>2. docRequest'[s] = [docRequest[s] EXCEPT !.at = at]
  BY DEF LibraryShapes, Library!Goto
<1>. QED  BY <1>1, <1>2 DEF LibraryShapes, Library!Goto, LibraryRequests

(* Nothing a body can name is the upload of a request being served.        *)
LEMMA LibraryAddressesAreFree ==
    ASSUME LibraryShapes, NEW file \in Library!Addresses
    PROVE  /\ file \in docDisk \cup {Library!NoFile}
           /\ \A x \in Slots : docRequest[x].at \in Library!Uploading =>
                  file \notin Library!Uploaded(docRequest[x].file)
<1>1. file = Library!NoFile \/ (file \in docDisk /\ file \notin Library!InFlight)
  BY DEF Library!Addresses
<1>2. \A x \in Slots : docRequest[x].at \in Library!Uploading =>
          docRequest[x].file \in Library!InFlight
  BY DEF Library!InFlight
<1>. QED  BY <1>1, <1>2 DEF Library!Uploaded

(* A file reaches the disk under a name of its own.                        *)
LEMMA LibraryUploadStep ==
    ASSUME MaxFiles \in Nat, LibraryIInv, NEW s \in Slots, Library!Upload(s)
    PROVE  LibraryIInv'
<1>. DEFINE new == docUploaded + 1
<1>1. PICK k \in Library!Kinds :
          docRequest' = [docRequest EXCEPT ![s] = [Library!Idle EXCEPT !.at = "bytes",
              !.kind = k, !.file = new]]
  BY ZenonT(20) DEF Library!Upload
<1>. DEFINE r == [Library!Idle EXCEPT !.at = "bytes", !.kind = k, !.file = new]
<1>2. r \in LibraryRequests /\ r.at = "bytes" /\ r.file = new
  <2>1. new \in Nat
    BY DEF LibraryIInv, LibraryShapes
  <2>. HIDE DEF new
  <2>. QED  BY <2>1 DEF Library!Idle, Library!NoFile, LibraryRequests, Library!Uploading
<1>3. /\ docRequest' \in [Slots -> LibraryRequests]
      /\ \A x \in Slots \ {s} : docRequest'[x] = docRequest[x]
      /\ docRequest'[s].at = "bytes" /\ docRequest'[s].file = new
  <2>. HIDE DEF r, new
  <2>1. docRequest' = [docRequest EXCEPT ![s] = r]
    BY <1>1 DEF r, new
  <2>. QED  BY <1>2, <2>1, LibrarySlotBecomes DEF LibraryIInv
<1>4. /\ ~Library!Busy(s) /\ docUploaded' = new /\ docDisk' = docDisk \cup {new}
      /\ docUploaded < MaxFiles
      /\ UNCHANGED <<docDocuments, docLeftover, docRepointed, docEntitled>>
  BY DEF Library!Upload, Library!history
<1>5. /\ new \in 1 .. MaxFiles /\ new \notin docDisk \cup {Library!NoFile}
      /\ docUploaded' \in 0 .. MaxFiles /\ docDisk' \subseteq 1 .. docUploaded'
  <2>1. docUploaded \in 0 .. MaxFiles /\ docDisk \subseteq 1 .. docUploaded
    BY DEF LibraryIInv, LibraryShapes
  <2>2. new \in 1 .. MaxFiles /\ new \notin 0 .. docUploaded /\ 1 .. docUploaded \subseteq 1 .. new
        /\ 0 \in 0 .. docUploaded /\ 1 .. docUploaded \subseteq 0 .. docUploaded
        /\ new \in 1 .. new /\ 1 .. MaxFiles \subseteq 0 .. MaxFiles
    BY <1>4, <2>1
  <2>. HIDE DEF new
  <2>. QED  BY <1>4, <2>1, <2>2 DEF Library!NoFile
<1>6. /\ \A x \in Slots : docRequest[x].file # new
      /\ \A d \in DOMAIN docDocuments : docDocuments[d].file # new
  <2>. HIDE DEF new
  <2>. QED  BY <1>5 DEF LibraryIInv, LibraryShapes, LibraryServed
<1>. HIDE DEF new, r
<1>7. LibraryShapes'
  <2>1. ASSUME NEW x \in Slots
        PROVE  /\ docRequest'[x].at = "idle" => docRequest'[x].file = Library!NoFile
               /\ docRequest'[x].at = "send" => docRequest'[x].file # Library!NoFile
               /\ docRequest'[x].file \in docDisk' \cup {Library!NoFile}
    <3>1. CASE x = s
      BY <1>3, <1>4, <3>1
    <3>2. CASE x # s
      BY <1>3, <1>4, <3>2 DEF LibraryIInv, LibraryShapes
    <3>. QED  BY <3>1, <3>2
  <2>. QED  BY <1>3, <1>4, <1>5, <2>1 DEF LibraryIInv, LibraryShapes
<1>8. LibraryOwners'
  <2>1. \A d, e \in DOMAIN docDocuments' \ docRepointed' :
            /\ docDocuments'[d].file # Library!NoFile
            /\ docDocuments'[e].file = docDocuments'[d].file => e = d
    BY <1>4 DEF LibraryIInv, LibraryOwners
  <2>2. ASSUME NEW x \in Slots, NEW d \in DOMAIN docDocuments',
               docRequest'[x].at \in Library!Uploading
        PROVE  docDocuments'[d].file \notin Library!Uploaded(docRequest'[x].file)
    <3>1. CASE x = s
      BY <1>3, <1>4, <1>6, <3>1 DEF Library!Uploaded
    <3>2. CASE x # s
      BY <1>3, <1>4, <2>2, <3>2 DEF LibraryIInv, LibraryOwners
    <3>. QED  BY <3>1, <3>2
  <2>3. ASSUME NEW x \in Slots, NEW y \in Slots, y # x,
               docRequest'[x].at \in Library!Uploading
        PROVE  docRequest'[y].file \notin Library!Uploaded(docRequest'[x].file)
    <3>1. CASE x = s
      BY <1>3, <1>6, <2>3, <3>1 DEF Library!Uploaded
    <3>2. CASE y = s
      BY <1>3, <1>6, <2>3, <3>2 DEF Library!Uploaded
    <3>3. CASE x # s /\ y # s
      BY <1>3, <2>3, <3>3 DEF LibraryIInv, LibraryOwners
    <3>. QED  BY <3>1, <3>2, <3>3
  <2>. QED  BY <2>1, <2>2, <2>3 DEF LibraryOwners
<1>9. LibraryServed'
  BY <1>3, <1>4 DEF LibraryIInv, LibraryServed, Library!Busy, Library!Uploading
<1>10. LibraryScopes'
  BY <1>3, <1>4 DEF LibraryIInv, LibraryScopes
<1>. QED  BY <1>7, <1>8, <1>9, <1>10 DEF LibraryIInv

(* A slot takes up a request that uploads nothing, or goes on without its  *)
(* upload changing hands.                                                  *)
LEMMA LibrarySlotMovesStep ==
    ASSUME LibraryIInv, NEW s \in Slots, docRequest' \in [Slots -> LibraryRequests],
           \A x \in Slots \ {s} : docRequest'[x] = docRequest[x],
           UNCHANGED <<docDocuments, docDisk, docUploaded, docRepointed, docEntitled>>,
           docLeftover \subseteq docLeftover',
           \/ /\ docRequest[s].at \in Library!Uploading
              /\ docRequest'[s].at \in Library!Uploading
              /\ docRequest'[s].file = docRequest[s].file
           \/ /\ docRequest'[s].file = Library!NoFile /\ docRequest'[s].at # "send"
              /\ docRequest[s].at \in Library!Uploading =>
                     Library!Uploaded(docRequest[s].file) \subseteq docLeftover'
    PROVE  LibraryIInv'
<1>1. LibraryShapes'
  <2>1. ASSUME NEW x \in Slots
        PROVE  /\ docRequest'[x].at = "idle" => docRequest'[x].file = Library!NoFile
               /\ docRequest'[x].at = "send" => docRequest'[x].file # Library!NoFile
               /\ docRequest'[x].file \in docDisk' \cup {Library!NoFile}
    <3>1. CASE x = s
      BY <3>1 DEF LibraryIInv, LibraryShapes, Library!Uploading
    <3>2. CASE x # s
      BY <3>2 DEF LibraryIInv, LibraryShapes
    <3>. QED  BY <3>1, <3>2
  <2>. QED  BY <2>1 DEF LibraryIInv, LibraryShapes
<1>2. LibraryOwners'
  <2>1. \A d, e \in DOMAIN docDocuments' \ docRepointed' :
            /\ docDocuments'[d].file # Library!NoFile
            /\ docDocuments'[e].file = docDocuments'[d].file => e = d
    BY DEF LibraryIInv, LibraryOwners
  <2>2. \A f : f \notin Library!Uploaded(Library!NoFile) /\ Library!NoFile \notin Library!Uploaded(f)
    BY DEF Library!Uploaded
  <2>3. ASSUME NEW x \in Slots, NEW d \in DOMAIN docDocuments',
               docRequest'[x].at \in Library!Uploading
        PROVE  docDocuments'[d].file \notin Library!Uploaded(docRequest'[x].file)
    BY <2>2, <2>3 DEF LibraryIInv, LibraryOwners
  <2>4. ASSUME NEW x \in Slots, NEW y \in Slots, y # x,
               docRequest'[x].at \in Library!Uploading
        PROVE  docRequest'[y].file \notin Library!Uploaded(docRequest'[x].file)
    BY <2>2, <2>4 DEF LibraryIInv, LibraryOwners
  <2>. QED  BY <2>1, <2>3, <2>4 DEF LibraryOwners
<1>3. LibraryServed'
  <2>1. Library!NoFile \notin docDisk
    BY DEF LibraryIInv, LibraryShapes, Library!NoFile
  <2>2. ASSUME NEW f \in docDisk' \ docLeftover'
        PROVE  \/ \E d \in DOMAIN docDocuments' : docDocuments'[d].file = f
               \/ \E x \in Slots : docRequest'[x].at \in Library!Uploading
                    /\ docRequest'[x].file = f
    <3>1. f \in docDisk \ docLeftover /\ f # Library!NoFile
      BY <2>1, <2>2
    <3>2. ASSUME NEW x \in Slots, docRequest[x].at \in Library!Uploading, docRequest[x].file = f
          PROVE  docRequest'[x].at \in Library!Uploading /\ docRequest'[x].file = f
      BY <2>2, <3>1, <3>2 DEF Library!Uploaded
    <3>. QED  BY <3>1, <3>2 DEF LibraryIInv, LibraryServed
  <2>. QED  BY <2>2 DEF LibraryIInv, LibraryServed
<1>4. LibraryScopes'
  BY DEF LibraryIInv, LibraryScopes, Library!Uploading
<1>. QED  BY <1>1, <1>2, <1>3, <1>4 DEF LibraryIInv

(* A body with a fileUrl is served without an upload.                      *)
LEMMA LibraryPostWithoutFileStep ==
    ASSUME LibraryIInv, NEW s \in Slots, Library!PostWithoutFile(s)
    PROVE  LibraryIInv'
<1>1. PICK k \in Library!Kinds :
          docRequest' = [docRequest EXCEPT ![s] = [Library!Idle EXCEPT !.at = "validate",
              !.kind = k]]
  BY ZenonT(20) DEF Library!PostWithoutFile
<1>. DEFINE r == [Library!Idle EXCEPT !.at = "validate", !.kind = k]
<1>2. r \in LibraryRequests /\ r.at = "validate" /\ r.file = Library!NoFile
  BY DEF Library!Idle, Library!NoFile, LibraryRequests, Library!Uploading
<1>3. /\ docRequest' \in [Slots -> LibraryRequests]
      /\ \A x \in Slots \ {s} : docRequest'[x] = docRequest[x]
      /\ docRequest'[s] = r
  <2>. HIDE DEF r
  <2>1. docRequest' = [docRequest EXCEPT ![s] = r]
    BY <1>1 DEF r
  <2>. QED  BY <1>2, <2>1, LibrarySlotBecomes DEF LibraryIInv
<1>4. /\ docRequest[s].at \notin Library!Uploading
      /\ UNCHANGED <<docDocuments, docDisk, docUploaded, docRepointed, docEntitled, docLeftover>>
  BY DEF Library!PostWithoutFile, Library!history, Library!Busy, Library!Uploading
<1>. HIDE DEF r
<1>. QED  BY <1>2, <1>3, <1>4, LibrarySlotMovesStep DEF Library!Uploading

(* The check of the content removes a file, or the request goes on.        *)
LEMMA LibraryValidateMagicBytesStep ==
    ASSUME LibraryIInv, NEW s \in Slots, Library!ValidateMagicBytes(s)
    PROVE  LibraryIInv'
<1>1. /\ docRequest[s].at = "bytes"
      /\ UNCHANGED <<docDocuments, docUploaded, docLeftover, docRepointed, docEntitled>>
      /\ \/ Library!Goto(s, "validate") /\ UNCHANGED docDisk
         \/ Library!Done(s) /\ docDisk' = docDisk \ {docRequest[s].file}
  BY DEF Library!ValidateMagicBytes, Library!history
<1>2. CASE Library!Goto(s, "validate") /\ UNCHANGED docDisk
  <2>1. /\ docRequest' \in [Slots -> LibraryRequests]
        /\ \A x \in Slots \ {s} : docRequest'[x] = docRequest[x]
        /\ docRequest'[s].at = "validate" /\ docRequest'[s].file = docRequest[s].file
    BY <1>2, LibraryGotoGives DEF LibraryIInv, Library!Uploading
  <2>. QED  BY <1>1, <1>2, <2>1, LibrarySlotMovesStep DEF Library!Uploading
<1>3. CASE Library!Done(s) /\ docDisk' = docDisk \ {docRequest[s].file}
  <2>. DEFINE f0 == docRequest[s].file
  <2>1. /\ docRequest' \in [Slots -> LibraryRequests]
        /\ \A x \in Slots \ {s} : docRequest'[x] = docRequest[x]
        /\ docRequest'[s].at = "idle" /\ docRequest'[s].file = Library!NoFile
    BY <1>3, LibraryDoneGives DEF LibraryIInv
  <2>2. /\ \A x \in Slots \ {s} : docRequest[x].file # f0 \/ f0 = Library!NoFile
        /\ \A d \in DOMAIN docDocuments : docDocuments[d].file # f0 \/ f0 = Library!NoFile
        /\ Library!NoFile \notin docDisk
        /\ f0 \in docDisk \cup {Library!NoFile}
    BY <1>1 DEF LibraryIInv, LibraryShapes, LibraryOwners, Library!Uploading,
            Library!Uploaded, Library!NoFile
  <2>. HIDE DEF f0
  <2>3. docDisk' = docDisk \ {f0}
    BY <1>3 DEF f0
  <2>4. LibraryShapes'
    <3>1. ASSUME NEW x \in Slots
          PROVE  /\ docRequest'[x].at = "idle" => docRequest'[x].file = Library!NoFile
                 /\ docRequest'[x].at = "send" => docRequest'[x].file # Library!NoFile
                 /\ docRequest'[x].file \in docDisk' \cup {Library!NoFile}
      <4>1. CASE x = s
        BY <2>1, <4>1
      <4>2. CASE x # s
        BY <2>1, <2>2, <2>3, <4>2 DEF LibraryIInv, LibraryShapes
      <4>. QED  BY <4>1, <4>2
    <3>. QED  BY <1>1, <2>1, <2>3, <3>1 DEF LibraryIInv, LibraryShapes
  <2>5. LibraryOwners'
    <3>1. \A f : Library!NoFile \notin Library!Uploaded(f)
      BY DEF Library!Uploaded
    <3>. QED
      BY <1>1, <2>1, <3>1 DEF LibraryIInv, LibraryOwners, Library!Uploading
  <2>6. LibraryServed'
    <3>1. \A d \in DOMAIN docDocuments' : docDocuments'[d].file \in docDisk' \cup {Library!NoFile}
      BY <1>1, <2>2, <2>3 DEF LibraryIInv, LibraryServed
    <3>2. ASSUME NEW f \in docDisk' \ docLeftover'
          PROVE  \/ \E d \in DOMAIN docDocuments' : docDocuments'[d].file = f
                 \/ \E x \in Slots : docRequest'[x].at \in Library!Uploading
                      /\ docRequest'[x].file = f
      <4>1. f \in docDisk \ docLeftover /\ f # f0
        BY <1>1, <2>3, <3>2
      <4>. QED  BY <1>1, <2>1, <4>1 DEF LibraryIInv, LibraryServed, f0
    <3>. QED  BY <3>1, <3>2 DEF LibraryServed
  <2>7. LibraryScopes'
    BY <1>1, <2>1 DEF LibraryIInv, LibraryScopes
  <2>. QED  BY <2>4, <2>5, <2>6, <2>7 DEF LibraryIInv
<1>. QED  BY <1>1, <1>2, <1>3

(* The fields are refused, or the request goes on to the service.          *)
LEMMA LibraryValidateFieldsStep ==
    ASSUME LibraryIInv, NEW s \in Slots, Library!ValidateFields(s)
    PROVE  LibraryIInv'
<1>1. UNCHANGED <<docDocuments, docDisk, docUploaded, docRepointed, docEntitled>>
        /\ docRequest[s].at = "validate"
  BY DEF Library!ValidateFields
<1>2. CASE Library!Goto(s, "create") /\ UNCHANGED docLeftover
  <2>1. /\ docRequest' \in [Slots -> LibraryRequests]
        /\ \A x \in Slots \ {s} : docRequest'[x] = docRequest[x]
        /\ docRequest'[s].at = "create" /\ docRequest'[s].file = docRequest[s].file
    BY <1>2, LibraryGotoGives DEF LibraryIInv, Library!Uploading
  <2>. QED  BY <1>1, <1>2, <2>1, LibrarySlotMovesStep DEF Library!Uploading
<1>3. CASE Library!Done(s) /\ docLeftover' = docLeftover \cup Library!Uploaded(docRequest[s].file)
  <2>1. /\ docRequest' \in [Slots -> LibraryRequests]
        /\ \A x \in Slots \ {s} : docRequest'[x] = docRequest[x]
        /\ docRequest'[s].at = "idle" /\ docRequest'[s].file = Library!NoFile
    BY <1>3, LibraryDoneGives DEF LibraryIInv
  <2>. QED  BY <1>1, <1>3, <2>1, LibrarySlotMovesStep
<1>. QED  BY <1>2, <1>3 DEF Library!ValidateFields

(* A file that is sent stays; a request that is cut short leaves the file  *)
(* it uploaded over.                                                       *)
LEMMA LibraryEndsStep ==
    ASSUME LibraryIInv, NEW s \in Slots, Library!SendFile(s) \/ Library!CutShort(s)
    PROVE  LibraryIInv'
<1>1. /\ Library!Done(s) /\ docLeftover \subseteq docLeftover'
      /\ UNCHANGED <<docDocuments, docDisk, docUploaded, docRepointed, docEntitled>>
      /\ docRequest[s].at \in Library!Uploading =>
             Library!Uploaded(docRequest[s].file) \subseteq docLeftover'
  BY DEF Library!SendFile, Library!CutShort, Library!history, Library!Uploading
<1>2. /\ docRequest' \in [Slots -> LibraryRequests]
      /\ \A x \in Slots \ {s} : docRequest'[x] = docRequest[x]
      /\ docRequest'[s].at = "idle" /\ docRequest'[s].file = Library!NoFile
  BY <1>1, LibraryDoneGives DEF LibraryIInv
<1>. QED  BY <1>1, <1>2, LibrarySlotMovesStep

(* Whoever a document is assigned to is entitled to its file from then on. *)
LEMMA LibraryEntitleGives ==
    ASSUME LibraryShapes, NEW file, NEW assigned \in SUBSET Readers,
           Library!Entitle(file, assigned)
    PROVE  /\ docEntitled' \in [1 .. MaxFiles -> SUBSET Readers]
           /\ \A f \in 1 .. MaxFiles : docEntitled[f] \subseteq docEntitled'[f]
           /\ file \in 1 .. MaxFiles => assigned \subseteq docEntitled'[file]
BY DEF LibraryShapes, Library!Entitle

(* A document is written, new or in place of what it was: its file is one  *)
(* that a body can name, the one it had, or the upload of the request that *)
(* ends with it.                                                           *)
LEMMA LibraryWrittenStep ==
    ASSUME MaxFiles \in Nat, LibraryIInv, NEW n, NEW doc \in LibraryDocuments,
           docDocuments' \in Seq(LibraryDocuments),
           DOMAIN docDocuments' = DOMAIN docDocuments \cup {n}, docDocuments'[n] = doc,
           \A d \in DOMAIN docDocuments \ {n} : docDocuments'[d] = docDocuments[d],
           UNCHANGED <<docDisk, docUploaded>>,
           docRequest' \in [Slots -> LibraryRequests],
           \A x \in Slots :
               \/ docRequest'[x] = docRequest[x]
               \/ /\ docRequest'[x].at = "idle" /\ docRequest'[x].file = Library!NoFile
                  /\ Library!Uploaded(docRequest[x].file) \ {doc.file} \subseteq docLeftover',
           doc.file \in docDisk \cup {Library!NoFile},
           \A x \in Slots : docRequest'[x].at \in Library!Uploading =>
               doc.file \notin Library!Uploaded(docRequest'[x].file),
           docRepointed \subseteq docRepointed',
           \/ n \in docRepointed'
           \/ n \in DOMAIN docDocuments /\ docDocuments[n].file = doc.file
           \/ /\ doc.file # Library!NoFile
              /\ \A d \in DOMAIN docDocuments : docDocuments[d].file # doc.file,
           docLeftover \subseteq docLeftover',
           n \in DOMAIN docDocuments =>
               Library!Uploaded(docDocuments[n].file) \ {doc.file} \subseteq docLeftover',
           Library!Entitle(doc.file, doc.assigned)
    PROVE  LibraryIInv'
<1>1. doc.assigned \in SUBSET Readers
  BY DEF LibraryDocuments
<1>2. /\ docEntitled' \in [1 .. MaxFiles -> SUBSET Readers]
      /\ \A f \in 1 .. MaxFiles : docEntitled[f] \subseteq docEntitled'[f]
      /\ doc.file \in 1 .. MaxFiles => doc.assigned \subseteq docEntitled'[doc.file]
  <2>1. LibraryShapes
    BY DEF LibraryIInv
  <2>. QED  BY <1>1, <2>1, LibraryEntitleGives
<1>3. docDisk \subseteq 1 .. MaxFiles /\ Library!NoFile \notin docDisk
  <2>1. docUploaded \in 0 .. MaxFiles /\ docDisk \subseteq 1 .. docUploaded
    BY DEF LibraryIInv, LibraryShapes
  <2>2. 1 .. docUploaded \subseteq 1 .. MaxFiles
    BY <2>1
  <2>. QED  BY <2>1, <2>2 DEF Library!NoFile
<1>4. \A d \in DOMAIN docDocuments' :
          d = n \/ (d \in DOMAIN docDocuments /\ docDocuments'[d] = docDocuments[d])
  OBVIOUS
<1>5. LibraryShapes'
  <2>1. ASSUME NEW x \in Slots
        PROVE  /\ docRequest'[x].at = "idle" => docRequest'[x].file = Library!NoFile
               /\ docRequest'[x].at = "send" => docRequest'[x].file # Library!NoFile
               /\ docRequest'[x].file \in docDisk' \cup {Library!NoFile}
    BY DEF LibraryIInv, LibraryShapes
  <2>. QED  BY <1>2, <2>1 DEF LibraryIInv, LibraryShapes
<1>6. LibraryOwners'
  <2>1. ASSUME NEW d \in DOMAIN docDocuments' \ docRepointed',
               NEW e \in DOMAIN docDocuments' \ docRepointed'
        PROVE  /\ docDocuments'[d].file # Library!NoFile
               /\ docDocuments'[e].file = docDocuments'[d].file => e = d
    BY <1>4, <2>1 DEF LibraryIInv, LibraryOwners
  <2>2. ASSUME NEW x \in Slots, NEW d \in DOMAIN docDocuments',
               docRequest'[x].at \in Library!Uploading
        PROVE  docDocuments'[d].file \notin Library!Uploaded(docRequest'[x].file)
    BY <1>4, <2>2 DEF LibraryIInv, LibraryOwners, Library!Uploading
  <2>3. ASSUME NEW x \in Slots, NEW y \in Slots, y # x,
               docRequest'[x].at \in Library!Uploading
        PROVE  docRequest'[y].file \notin Library!Uploaded(docRequest'[x].file)
    <3>1. Library!NoFile \notin Library!Uploaded(docRequest'[x].file)
      BY DEF Library!Uploaded
    <3>. QED  BY <2>3, <3>1 DEF LibraryIInv, LibraryOwners, Library!Uploading
  <2>. QED  BY <2>1, <2>2, <2>3 DEF LibraryOwners
<1>7. LibraryServed'
  <2>1. \A d \in DOMAIN docDocuments' : docDocuments'[d].file \in docDisk' \cup {Library!NoFile}
    BY <1>4 DEF LibraryIInv, LibraryServed
  <2>2. ASSUME NEW f \in docDisk' \ docLeftover'
        PROVE  \/ \E d \in DOMAIN docDocuments' : docDocuments'[d].file = f
               \/ \E x \in Slots : docRequest'[x].at \in Library!Uploading
                    /\ docRequest'[x].file = f
    <3>1. f \in docDisk \ docLeftover /\ f # Library!NoFile
      BY <1>3, <2>2
    <3>2. ASSUME NEW d \in DOMAIN docDocuments, docDocuments[d].file = f
          PROVE  \E e \in DOMAIN docDocuments' : docDocuments'[e].file = f
      BY <2>2, <3>1, <3>2 DEF Library!Uploaded
    <3>3. ASSUME NEW x \in Slots, docRequest[x].at \in Library!Uploading,
                 docRequest[x].file = f
          PROVE  \/ doc.file = f
                 \/ docRequest'[x].at \in Library!Uploading /\ docRequest'[x].file = f
      BY <2>2, <3>1, <3>3 DEF Library!Uploaded
    <3>. QED  BY <3>1, <3>2, <3>3 DEF LibraryIInv, LibraryServed
  <2>. QED  BY <2>1, <2>2 DEF LibraryServed
<1>8. LibraryScopes'
  <2>1. ASSUME NEW d \in DOMAIN docDocuments', docDocuments'[d].file # Library!NoFile
        PROVE  docDocuments'[d].assigned \subseteq docEntitled'[docDocuments'[d].file]
    <3>1. CASE d = n
      BY <1>2, <1>3, <2>1, <3>1
    <3>2. CASE d # n
      <4>1. d \in DOMAIN docDocuments /\ docDocuments'[d] = docDocuments[d]
        BY <1>4, <3>2
      <4>2. docDocuments[d].file # Library!NoFile
        BY <2>1, <4>1
      <4>3. docDocuments[d].file \in 1 .. MaxFiles
        BY <1>3, <4>1, <4>2 DEF LibraryIInv, LibraryServed
      <4>. QED  BY <1>2, <4>1, <4>2, <4>3 DEF LibraryIInv, LibraryScopes
    <3>. QED  BY <3>1, <3>2
  <2>2. ASSUME NEW x \in Slots, docRequest'[x].at = "send", docRequest'[x].who # Library!Admin
        PROVE  docRequest'[x].who \in docEntitled'[docRequest'[x].file]
    <3>1. docRequest'[x] = docRequest[x]
      BY <2>2
    <3>2. docRequest[x].file \in 1 .. MaxFiles
      BY <1>3, <2>2, <3>1 DEF LibraryIInv, LibraryShapes
    <3>. QED  BY <1>2, <2>2, <3>1, <3>2 DEF LibraryIInv, LibraryScopes
  <2>. QED  BY <2>1, <2>2 DEF LibraryScopes
<1>. QED  BY <1>5, <1>6, <1>7, <1>8 DEF LibraryIInv

(* A document is created from the upload of its request, or with the       *)
(* address in the body.                                                    *)
LEMMA LibraryCreateDocumentStep ==
    ASSUME MaxFiles \in Nat, LibraryIInv, NEW s \in Slots, NEW kind \in Library!Kinds,
           Library!CreateDocument(s, kind)
    PROVE  LibraryIInv'
<1>. DEFINE new == Len(docDocuments) + 1
<1>1. PICK assigned \in SUBSET Readers,
           file \in Library!Addresses \cup {docRequest[s].file} :
          /\ docDocuments' = Append(docDocuments,
                 [kind |-> kind, assigned |-> assigned, deleted |-> FALSE, file |-> file])
          /\ docLeftover' = docLeftover \cup (Library!Uploaded(docRequest[s].file) \ {file})
          /\ docRepointed' = IF file \in Library!Addresses THEN docRepointed \cup {new}
                             ELSE docRepointed
          /\ Library!Entitle(file, assigned)
  BY DEF Library!CreateDocument
<1>2. /\ docRequest[s].at = "create" /\ Library!Done(s)
      /\ UNCHANGED <<docDisk, docUploaded>>
  BY DEF Library!CreateDocument
<1>3. /\ docRequest' \in [Slots -> LibraryRequests]
      /\ \A x \in Slots \ {s} : docRequest'[x] = docRequest[x]
      /\ docRequest'[s].at = "idle" /\ docRequest'[s].file = Library!NoFile
  BY <1>2, LibraryDoneGives DEF LibraryIInv
<1>. DEFINE doc == [kind |-> kind, assigned |-> assigned, deleted |-> FALSE, file |-> file]
<1>4. /\ file \in docDisk \cup {Library!NoFile}
      /\ \A x \in Slots \ {s} : docRequest[x].at \in Library!Uploading =>
             file \notin Library!Uploaded(docRequest[x].file)
  <2>1. CASE file \in Library!Addresses
    <3>1. LibraryShapes
      BY DEF LibraryIInv
    <3>. QED  BY <2>1, <3>1, LibraryAddressesAreFree
  <2>2. CASE file = docRequest[s].file
    BY <2>2 DEF LibraryIInv, LibraryShapes, LibraryOwners
  <2>. QED  BY <2>1, <2>2
<1>5. doc \in LibraryDocuments /\ doc.file = file /\ doc.assigned = assigned
  <2>1. file \in Nat
    BY <1>4 DEF LibraryIInv, LibraryShapes, Library!NoFile
  <2>. QED  BY <2>1 DEF LibraryDocuments
<1>6. /\ docDocuments' \in Seq(LibraryDocuments)
      /\ DOMAIN docDocuments' = DOMAIN docDocuments \cup {new}
      /\ new \notin DOMAIN docDocuments
      /\ \A d \in DOMAIN docDocuments : docDocuments'[d] = docDocuments[d]
      /\ docDocuments'[new] = doc
  <2>. HIDE DEF doc
  <2>1. docDocuments' = Append(docDocuments, doc)
    BY <1>1 DEF doc
  <2>. QED  BY <1>5, <2>1 DEF LibraryIInv, LibraryShapes
<1>7. \/ new \in docRepointed'
      \/ /\ file # Library!NoFile
         /\ \A d \in DOMAIN docDocuments : docDocuments[d].file # file
  <2>1. CASE file \in Library!Addresses
    BY <1>1, <2>1
  <2>2. CASE file \notin Library!Addresses
    <3>1. file = docRequest[s].file /\ file # Library!NoFile
      BY <2>2 DEF Library!Addresses
    <3>. QED
      BY <1>2, <3>1 DEF LibraryIInv, LibraryOwners, Library!Uploading, Library!Uploaded
  <2>. QED  BY <2>1, <2>2
<1>8. docRepointed \subseteq docRepointed'
  BY <1>1
<1>9. /\ docLeftover' = docLeftover \cup (Library!Uploaded(docRequest[s].file) \ {doc.file})
      /\ Library!Entitle(doc.file, doc.assigned)
  BY <1>1, <1>5
<1>10. \A x \in Slots : docRequest'[x].at \in Library!Uploading =>
           doc.file \notin Library!Uploaded(docRequest'[x].file)
  BY <1>3, <1>4, <1>5 DEF Library!Uploading
<1>11. \A x \in Slots :
           \/ docRequest'[x] = docRequest[x]
           \/ /\ docRequest'[x].at = "idle" /\ docRequest'[x].file = Library!NoFile
              /\ Library!Uploaded(docRequest[x].file) \ {doc.file} \subseteq docLeftover'
  BY <1>3, <1>9
<1>. HIDE DEF doc, new
<1>12. /\ \/ new \in docRepointed'
          \/ /\ doc.file # Library!NoFile
             /\ \A d \in DOMAIN docDocuments : docDocuments[d].file # doc.file
       /\ doc.file \in docDisk \cup {Library!NoFile} /\ docLeftover \subseteq docLeftover'
  BY <1>4, <1>5, <1>7, <1>9
<1>. QED
  BY <1>2, <1>3, <1>5, <1>6, <1>8, <1>9, <1>10, <1>11, <1>12, LibraryWrittenStep

(* A document is replaced by another.                                      *)
LEMMA LibraryReplaced ==
    ASSUME LibraryShapes, NEW d \in DOMAIN docDocuments, NEW doc \in LibraryDocuments,
           docDocuments' = [docDocuments EXCEPT ![d] = doc]
    PROVE  /\ docDocuments' \in Seq(LibraryDocuments)
           /\ DOMAIN docDocuments' = DOMAIN docDocuments
           /\ docDocuments'[d] = doc
           /\ \A e \in DOMAIN docDocuments \ {d} : docDocuments'[e] = docDocuments[e]
<1>1. docDocuments \in Seq(LibraryDocuments) /\ d \in 1 .. Len(docDocuments)
  BY DEF LibraryShapes
<1>2. docDocuments' \in Seq(LibraryDocuments)
  BY <1>1, ExceptSeq
<1>. QED  BY <1>1, <1>2

(* A document is assigned anew, or given another address.                  *)
LEMMA LibraryUpdateDocumentStep ==
    ASSUME MaxFiles \in Nat, LibraryIInv, NEW s \in Slots, NEW kind \in Library!Kinds,
           Library!UpdateDocument(s, kind)
    PROVE  LibraryIInv'
<1>0. PICK d \in DOMAIN docDocuments, assigned \in SUBSET Readers :
          \E file \in Library!Addresses \cup {docDocuments[d].file} :
          /\ Library!OneStep(s, d, kind)
          /\ docDocuments' = [docDocuments EXCEPT ![d] =
                 [kind |-> kind, assigned |-> assigned, deleted |-> FALSE, file |-> file]]
          /\ docLeftover' = docLeftover \cup (Library!Uploaded(docDocuments[d].file) \ {file})
          /\ docRepointed' = IF file = docDocuments[d].file THEN docRepointed
                             ELSE docRepointed \cup {d}
          /\ Library!Entitle(file, assigned)
  BY DEF Library!UpdateDocument
<1>1. PICK file \in Library!Addresses \cup {docDocuments[d].file} :
          /\ Library!OneStep(s, d, kind)
          /\ docDocuments' = [docDocuments EXCEPT ![d] =
                 [kind |-> kind, assigned |-> assigned, deleted |-> FALSE, file |-> file]]
          /\ docLeftover' = docLeftover \cup (Library!Uploaded(docDocuments[d].file) \ {file})
          /\ docRepointed' = IF file = docDocuments[d].file THEN docRepointed
                             ELSE docRepointed \cup {d}
          /\ Library!Entitle(file, assigned)
  BY <1>0
<1>. DEFINE doc == [kind |-> kind, assigned |-> assigned, deleted |-> FALSE, file |-> file]
<1>2. UNCHANGED <<docDisk, docUploaded, docRequest>>
  BY <1>1 DEF Library!OneStep
<1>3. /\ file \in docDisk \cup {Library!NoFile}
      /\ \A x \in Slots : docRequest[x].at \in Library!Uploading =>
             file \notin Library!Uploaded(docRequest[x].file)
  <2>1. CASE file \in Library!Addresses
    <3>1. LibraryShapes
      BY DEF LibraryIInv
    <3>. QED  BY <2>1, <3>1, LibraryAddressesAreFree
  <2>2. CASE file = docDocuments[d].file
    BY <2>2 DEF LibraryIInv, LibraryServed, LibraryOwners
  <2>. QED  BY <2>1, <2>2
<1>4. doc \in LibraryDocuments /\ doc.file = file /\ doc.assigned = assigned
  <2>1. docDisk \subseteq 1 .. docUploaded /\ docUploaded \in 0 .. MaxFiles
    BY DEF LibraryIInv, LibraryShapes
  <2>2. 1 .. docUploaded \subseteq Nat
    BY <2>1
  <2>3. file \in Nat
    BY <1>3, <2>1, <2>2 DEF Library!NoFile
  <2>. QED  BY <2>3 DEF LibraryDocuments
<1>5. docDocuments' = [docDocuments EXCEPT ![d] = doc]
  BY <1>1
<1>. HIDE DEF doc
<1>6. /\ docDocuments' \in Seq(LibraryDocuments)
      /\ DOMAIN docDocuments' = DOMAIN docDocuments \cup {d}
      /\ docDocuments'[d] = doc
      /\ \A e \in DOMAIN docDocuments \ {d} : docDocuments'[e] = docDocuments[e]
  BY <1>4, <1>5, LibraryReplaced DEF LibraryIInv
<1>7. /\ docRepointed \subseteq docRepointed' /\ docLeftover \subseteq docLeftover'
      /\ d \in docRepointed' \/ docDocuments[d].file = doc.file
      /\ Library!Uploaded(docDocuments[d].file) \ {doc.file} \subseteq docLeftover'
      /\ Library!Entitle(doc.file, doc.assigned)
      /\ doc.file \in docDisk \cup {Library!NoFile}
  BY <1>1, <1>3, <1>4
<1>8. docRequest' \in [Slots -> LibraryRequests]
  BY <1>2 DEF LibraryIInv, LibraryShapes
<1>9. \A x \in Slots : docRequest'[x].at \in Library!Uploading =>
          doc.file \notin Library!Uploaded(docRequest'[x].file)
  BY <1>2, <1>3, <1>4
<1>. QED  BY <1>2, <1>4, <1>6, <1>7, <1>8, <1>9, LibraryWrittenStep

(* A document is soft-deleted: its file and its investors stay.            *)
LEMMA LibraryDeleteDocumentStep ==
    ASSUME LibraryIInv, NEW s \in Slots, NEW kind \in Library!Kinds,
           Library!DeleteDocument(s, kind)
    PROVE  LibraryIInv'
<1>1. PICK d \in DOMAIN docDocuments :
          /\ UNCHANGED <<docDisk, docUploaded, docRequest, Library!history>>
          /\ docDocuments' = [docDocuments EXCEPT ![d].deleted = TRUE]
  BY DEF Library!DeleteDocument, Library!OneStep
<1>2. /\ docDocuments' \in Seq(LibraryDocuments)
      /\ DOMAIN docDocuments' = DOMAIN docDocuments
      /\ \A e \in DOMAIN docDocuments :
             /\ docDocuments'[e].file = docDocuments[e].file
             /\ docDocuments'[e].assigned = docDocuments[e].assigned
  <2>1. docDocuments[d] \in LibraryDocuments
    BY DEF LibraryIInv, LibraryShapes
  <2>. DEFINE doc == [docDocuments[d] EXCEPT !.deleted = TRUE]
  <2>2. /\ doc \in LibraryDocuments /\ doc.file = docDocuments[d].file
        /\ doc.assigned = docDocuments[d].assigned
    BY <2>1 DEF LibraryDocuments
  <2>3. docDocuments' = [docDocuments EXCEPT ![d] = doc]
    BY <1>1
  <2>. HIDE DEF doc
  <2>. QED  BY <2>2, <2>3, LibraryReplaced DEF LibraryIInv
<1>3. LibraryShapes'
  BY <1>1, <1>2 DEF LibraryIInv, LibraryShapes, Library!history
<1>4. LibraryOwners'
  BY <1>1, <1>2 DEF LibraryIInv, LibraryOwners, Library!history
<1>5. LibraryServed'
  BY <1>1, <1>2 DEF LibraryIInv, LibraryServed, Library!history
<1>6. LibraryScopes'
  BY <1>1, <1>2 DEF LibraryIInv, LibraryScopes, Library!history
<1>. QED  BY <1>3, <1>4, <1>5, <1>6 DEF LibraryIInv

(* A download holds the file of a document whoever asks is assigned to.    *)
LEMMA LibraryStartDownloadStep ==
    ASSUME LibraryIInv, NEW s \in Slots, NEW d \in DOMAIN docDocuments,
           NEW who \in Readers \cup {Library!Admin}, Library!Assigned(d, who),
           Library!StartDownload(s, d, who)
    PROVE  LibraryIInv'
<1>. DEFINE r ==
    [Library!Idle EXCEPT !.at = "send", !.doc = d, !.who = who,
        !.file = docDocuments[d].file]
<1>1. /\ ~Library!Busy(s) /\ docDocuments[d].file \in docDisk
      /\ docRequest' = [docRequest EXCEPT ![s] = r]
      /\ UNCHANGED <<docDocuments, docDisk, docUploaded, docLeftover, docRepointed,
                     docEntitled>>
  BY DEF Library!StartDownload, Library!ResolveUploadPath, Library!history
<1>2. r \in LibraryRequests /\ r.at = "send" /\ r.file = docDocuments[d].file /\ r.who = who
  <2>1. docDocuments \in Seq(LibraryDocuments)
    BY DEF LibraryIInv, LibraryShapes
  <2>2. d \in Nat /\ docDocuments[d] \in LibraryDocuments
    BY <2>1
  <2>3. docDocuments[d].file \in Nat
    BY <2>2 DEF LibraryDocuments
  <2>. QED  BY <2>2, <2>3 DEF Library!Idle, Library!NoFile, LibraryRequests
<1>. HIDE DEF r
<1>3. /\ docRequest' \in [Slots -> LibraryRequests]
      /\ \A x \in Slots \ {s} : docRequest'[x] = docRequest[x]
      /\ docRequest'[s] = r
  BY <1>1, <1>2, LibrarySlotBecomes DEF LibraryIInv
<1>4. Library!NoFile \notin docDisk
  BY DEF LibraryIInv, LibraryShapes, Library!NoFile
<1>5. LibraryShapes'
  <2>1. ASSUME NEW x \in Slots
        PROVE  /\ docRequest'[x].at = "idle" => docRequest'[x].file = Library!NoFile
               /\ docRequest'[x].at = "send" => docRequest'[x].file # Library!NoFile
               /\ docRequest'[x].file \in docDisk' \cup {Library!NoFile}
    <3>1. CASE x = s
      BY <1>1, <1>2, <1>3, <1>4, <3>1
    <3>2. CASE x # s
      BY <1>1, <1>3, <3>2 DEF LibraryIInv, LibraryShapes
    <3>. QED  BY <3>1, <3>2
  <2>. QED  BY <1>1, <1>3, <2>1 DEF LibraryIInv, LibraryShapes
<1>6. LibraryOwners'
  BY <1>1, <1>2, <1>3 DEF LibraryIInv, LibraryOwners, Library!Uploading
<1>7. LibraryServed'
  BY <1>1, <1>2, <1>3 DEF LibraryIInv, LibraryServed, Library!Busy, Library!Uploading
<1>8. LibraryScopes'
  <2>1. who # Library!Admin => who \in docEntitled[docDocuments[d].file]
    BY <1>1, <1>4 DEF Library!Assigned, LibraryIInv, LibraryScopes
  <2>. QED  BY <1>1, <1>2, <1>3, <2>1 DEF LibraryIInv, LibraryScopes
<1>. QED  BY <1>5, <1>6, <1>7, <1>8 DEF LibraryIInv

-----------------------------------------------------------------------------
(* The invariant holds at the start.                                       *)
LEMMA LibraryInitStep ==
    ASSUME MaxFiles \in Nat
    PROVE  Library!Init => LibraryIInv
<1>. SUFFICES ASSUME Library!Init PROVE LibraryIInv
  OBVIOUS
<1>1. LibraryShapes
  BY DEF Library!Init, LibraryShapes, Library!Idle, LibraryRequests, Library!NoFile
<1>2. LibraryOwners /\ LibraryServed /\ LibraryScopes
  BY DEF Library!Init, LibraryOwners, LibraryServed, LibraryScopes, Library!Idle,
         Library!Uploading
<1>. QED  BY <1>1, <1>2 DEF LibraryIInv

(* Every step keeps it.                                                    *)
LEMMA LibraryNextStep ==
    ASSUME MaxFiles \in Nat
    PROVE  LibraryIInv /\ [Library!Next]_(Library!vars) => LibraryIInv'
<1>. SUFFICES ASSUME LibraryIInv, [Library!Next]_(Library!vars) PROVE LibraryIInv'
  OBVIOUS
<1>1. CASE UNCHANGED Library!vars
  <2>1. UNCHANGED <<docDocuments, docDisk, docUploaded, docRequest, docLeftover,
                    docRepointed, docEntitled>>
    BY <1>1 DEF Library!vars, Library!history
  <2>2. LibraryShapes'
    BY <2>1 DEF LibraryIInv, LibraryShapes
  <2>3. LibraryOwners' /\ LibraryServed' /\ LibraryScopes'
    BY <2>1 DEF LibraryIInv, LibraryOwners, LibraryServed, LibraryScopes
  <2>. QED  BY <2>2, <2>3 DEF LibraryIInv
<1>2. ASSUME NEW s \in Slots, Library!CreateReport(s) \/ Library!CreateContract(s)
      PROVE LibraryIInv'
  BY <1>2, LibraryCreateDocumentStep
     DEF Library!CreateReport, Library!CreateContract, Library!Kinds
<1>3. ASSUME NEW s \in Slots, Library!UpdateReport(s) \/ Library!UpdateContract(s)
      PROVE LibraryIInv'
  BY <1>3, LibraryUpdateDocumentStep
     DEF Library!UpdateReport, Library!UpdateContract, Library!Kinds
<1>4. ASSUME NEW s \in Slots, Library!DeleteReport(s) \/ Library!DeleteContract(s)
      PROVE LibraryIInv'
  BY <1>4, LibraryDeleteDocumentStep
     DEF Library!DeleteReport, Library!DeleteContract, Library!Kinds
<1>5. ASSUME NEW s \in Slots, Library!DownloadReport(s) \/ Library!DownloadContract(s)
      PROVE LibraryIInv'
  BY <1>5, LibraryStartDownloadStep
     DEF Library!DownloadReport, Library!DownloadContract, Library!GetReport,
         Library!GetContract
<1>. QED
  BY <1>1, <1>2, <1>3, <1>4, <1>5, LibraryUploadStep, LibraryPostWithoutFileStep,
     LibraryValidateMagicBytesStep, LibraryValidateFieldsStep, LibraryEndsStep
     DEF Library!Next

(* No document and no download loses its file, also where the address in a *)
(* body made documents share it; an investor is sent only files of         *)
(* documents assigned to them; and no file is on the disk without a        *)
(* reason: document.service.ts behind the upload middlewares.              *)
THEOREM LibraryIsConsistent ==
    ASSUME MaxFiles \in Nat
    PROVE  Library!Spec => []Library!LibraryConsistent
<1>1. ASSUME LibraryIInv PROVE Library!LibraryConsistent
  <2>1. Library!UploadedFilesServed
    BY <1>1 DEF LibraryIInv, LibraryShapes, LibraryOwners, LibraryServed,
            Library!UploadedFilesServed
  <2>2. Library!SentToEntitled
    BY <1>1 DEF LibraryIInv, LibraryScopes, Library!SentToEntitled
  <2>3. Library!OrphansExplained
    BY <1>1 DEF LibraryIInv, LibraryServed, Library!OrphansExplained
  <2>. QED  BY <2>1, <2>2, <2>3 DEF Library!LibraryConsistent
<1>2. Library!Init => LibraryIInv
  BY LibraryInitStep
<1>3. LibraryIInv /\ [Library!Next]_(Library!vars) => LibraryIInv'
  BY LibraryNextStep
<1>. QED  BY <1>1, <1>2, <1>3, PTL DEF Library!Spec

-----------------------------------------------------------------------------
(***************************************************************************)
(* StatementsSound of Statements, for any number of requests at a time, of *)
(* rows and requests, and any page.                                        *)
(*                                                                         *)
(* The investment never accounts for more rows than were marked, less one  *)
(* for each marking in flight (StatementMarking): a marking that read it   *)
(* counts itself on top of what it read, so one that is lost only makes it *)
(* fall behind.  So what a reader reads of the investment is bounded by    *)
(* the rows it reads after it, or by those it read before and the markings *)
(* it met since.  The other way round the rows are ahead of the investment *)
(* by the markings in flight, as long as none is torn, and a reader met    *)
(* those (StatementReader).                                                *)
(***************************************************************************)

StatementTodos ==
    [export |-> {{"head"}, {"rows"}, {"history"}, {}}, dashboard |-> {{"head"}, {"rows"}, {}},
     adminStats |-> SUBSET {"head", "rows"}, mark |-> {{"head"}, {"write"}}, idle |-> {{}}]

StatementRecords ==
    [op : DOMAIN StatementTodos, todo : SUBSET {"head", "rows", "history", "write"},
     head : Nat, rows : Nat, met : Nat]

(* The shape of the requests and of the data.                              *)
StatementRequest(r) == r \in StatementRecords /\ r.todo \in StatementTodos[r.op]

StatementShapes ==
    /\ readRequest \in [Slots -> StatementRecords]
    /\ \A s \in Slots : StatementRequest(readRequest[s])
    /\ readTerm \in Nat /\ readPaid \subseteq 1 .. readTerm /\ readRepaid \in Nat
    /\ readShocks \in Nat /\ readExports \in Nat /\ readAnswers \in Nat
    /\ readTorn \in BOOLEAN

(* The rows that were marked, and the markings in flight.                  *)
StatementPaid == Cardinality(readPaid)
StatementMarks == Cardinality(Reading!Marking)

(* What the investment accounts for.                                       *)
StatementMarking ==
    /\ IsFiniteSet(Reading!Marking)
    /\ readRepaid + StatementMarks <= StatementPaid
    /\ \A s \in Slots : "write" \in readRequest[s].todo =>
           readRequest[s].head + StatementMarks <= StatementPaid
    /\ ~readTorn =>
           /\ \A s, x \in Reading!Marking : s = x
           /\ \A s \in Slots : "write" \in readRequest[s].todo =>
                  readRequest[s].head = readRepaid
           /\ StatementPaid = readRepaid + StatementMarks

(* What a reader knows of the investment and of the rows.                  *)
StatementHasHead(r) == "head" \notin r.todo
StatementHasRows(r) == "rows" \notin r.todo /\ (r.op = "adminStats" \/ "head" \notin r.todo)
StatementSlack(r) == IF r.op = "adminStats" THEN r.met ELSE Reading!Beyond
StatementReader(r) ==
    /\ StatementMarks <= r.met
    /\ StatementHasRows(r) =>
           /\ r.rows <= StatementPaid
           /\ r.op = "adminStats" => StatementPaid <= r.rows + r.met
    /\ StatementHasHead(r) =>
           /\ r.head <= StatementPaid
           /\ ~readTorn => StatementPaid <= r.head + r.met
    /\ StatementHasHead(r) /\ StatementHasRows(r) =>
           /\ r.head <= r.rows + StatementSlack(r)
           /\ ~readTorn => r.rows <= r.head + r.met

StatementRead ==
    \A s \in Slots : readRequest[s].op \in Reading!Reading => StatementReader(readRequest[s])

(* The exports that have their row in the history and were not sent yet.   *)
StatementUnsent == {s \in Slots : readRequest[s].op = "export" /\ readRequest[s].todo = {}}

StatementExports ==
    /\ IsFiniteSet(StatementUnsent)
    /\ readAnswers + Cardinality(StatementUnsent) <= readExports
    /\ readShocks = 0 => readAnswers + Cardinality(StatementUnsent) = readExports

StatementIInv == StatementShapes /\ StatementMarking /\ StatementRead /\ StatementExports

-----------------------------------------------------------------------------
(* The size of a set is the same in the part and here.                     *)
LEMMA StatementSameSize == \A S : Reading!Cardinality(S) = Cardinality(S)
BY DEF Reading!Cardinality, Cardinality

(* The numbers the invariant compares are numbers.                         *)
LEMMA StatementNumbers ==
    ASSUME StatementPage \in Nat, StatementShapes, IsFiniteSet(Reading!Marking)
    PROVE  /\ IsFiniteSet(readPaid) /\ StatementPaid \in Nat /\ StatementMarks \in Nat
           /\ Reading!Beyond \in Nat
<1>1. IsFiniteSet(readPaid)
  <2>1. IsFiniteSet(1 .. readTerm)
    BY FS_Interval DEF StatementShapes
  <2>. QED  BY <2>1, FS_Subset DEF StatementShapes
<1>2. Reading!Beyond \in Nat
  BY DEF Reading!Beyond, StatementShapes
<1>. QED  BY <1>1, <1>2, FS_CardinalityType DEF StatementPaid, StatementMarks

(* One page of the payments misses at most the rows beyond it.             *)
LEMMA StatementPageMisses ==
    ASSUME StatementPage \in Nat, StatementShapes
    PROVE  LET listed == readPaid \cap (1 .. StatementPage)
           IN  /\ IsFiniteSet(listed) /\ Cardinality(listed) \in Nat
               /\ Cardinality(listed) <= StatementPaid
               /\ StatementPaid <= Cardinality(listed) + Reading!Beyond
<1>. DEFINE listed == readPaid \cap (1 .. StatementPage)
            missed == readPaid \ listed
            beyond == (StatementPage + 1) .. readTerm
<1>1. readTerm \in Nat /\ readPaid \subseteq 1 .. readTerm
  BY DEF StatementShapes
<1>2. IsFiniteSet(readPaid)
  <2>1. IsFiniteSet(1 .. readTerm)
    BY <1>1, FS_Interval
  <2>. QED  BY <1>1, <2>1, FS_Subset
<1>3. /\ IsFiniteSet(listed) /\ IsFiniteSet(missed)
      /\ Cardinality(listed) \in Nat /\ Cardinality(missed) \in Nat
  <2>1. listed \subseteq readPaid /\ missed \subseteq readPaid
    OBVIOUS
  <2>. HIDE DEF listed, missed
  <2>. QED  BY <1>2, <2>1, FS_Subset, FS_CardinalityType
<1>4. StatementPaid = Cardinality(listed) + Cardinality(missed)
  <2>1. readPaid = listed \cup missed /\ listed \cap missed = {}
    OBVIOUS
  <2>. HIDE DEF listed, missed
  <2>2. Cardinality(listed \cup missed) =
          Cardinality(listed) + Cardinality(missed) - Cardinality(listed \cap missed)
    BY <1>3, FS_Union
  <2>3. Cardinality(listed \cap missed) = 0
    BY <2>1, FS_EmptySet
  <2>. QED  BY <1>3, <2>1, <2>2, <2>3 DEF StatementPaid
<1>5. missed \subseteq beyond
  BY <1>1
<1>6. /\ IsFiniteSet(beyond)
      /\ Cardinality(beyond) = IF StatementPage + 1 > readTerm THEN 0
                               ELSE readTerm - (StatementPage + 1) + 1
  <2>1. StatementPage + 1 \in Int /\ readTerm \in Int
    BY <1>1
  <2>. QED  BY <2>1, FS_Interval
<1>7. Cardinality(missed) <= Cardinality(beyond)
  <2>. HIDE DEF missed, beyond
  <2>. QED  BY <1>5, <1>6, FS_Subset
<1>8. Cardinality(beyond) = Reading!Beyond /\ Reading!Beyond \in Nat
  BY <1>1, <1>6 DEF Reading!Beyond
<1>. HIDE DEF listed, missed, beyond
<1>9. Cardinality(listed) <= StatementPaid
        /\ StatementPaid <= Cardinality(listed) + Reading!Beyond
  BY <1>3, <1>4, <1>7, <1>8
<1>. QED  BY <1>3, <1>9 DEF listed

(* What a request awaits next, by what it is.                              *)
LEMMA StatementAfterIs ==
    /\ \A op \in {"export", "dashboard", "mark"} : Reading!After(op, "begin") = {"head"}
    /\ Reading!After("adminStats", "begin") = {"head", "rows"}
    /\ \A op \in {"export", "dashboard"} : Reading!After(op, "head") = {"rows"}
    /\ Reading!After("adminStats", "head") = {} /\ Reading!After("mark", "head") = {"write"}
    /\ Reading!After("export", "rows") = {"history"}
    /\ \A op \in {"dashboard", "adminStats"} : Reading!After(op, "rows") = {}
BY DEF Reading!After

(* The request of one slot moves, the others stay.                         *)
LEMMA StatementMoves ==
    ASSUME StatementShapes, NEW s \in Slots, NEW r, StatementRequest(r),
           readRequest' = [readRequest EXCEPT ![s] = r],
           UNCHANGED <<readTerm, readPaid, readRepaid, readTorn>>,
           readShocks' \in Nat, readExports' \in Nat, readAnswers' \in Nat
    PROVE  /\ StatementShapes' /\ readRequest'[s] = r
           /\ \A x \in Slots \ {s} : readRequest'[x] = readRequest[x]
BY DEF StatementShapes, StatementRequest, StatementRecords

(* A request that is not a marking, before and after, disturbs none, nor   *)
(* what the other readers know.                                            *)
LEMMA StatementOthersStay ==
    ASSUME StatementIInv, NEW s \in Slots, readRequest[s].op # "mark", readRequest'[s].op # "mark",
           "write" \notin readRequest'[s].todo,
           \A x \in Slots \ {s} : readRequest'[x] = readRequest[x],
           UNCHANGED <<readTerm, readPaid, readRepaid, readTorn>>
    PROVE  /\ StatementMarking'
           /\ StatementPaid' = StatementPaid /\ StatementMarks' = StatementMarks
           /\ Reading!Beyond' = Reading!Beyond
           /\ (readRequest'[s].op \in Reading!Reading => StatementReader(readRequest[s])')
                  => StatementRead'
<1>1. Reading!Marking' = Reading!Marking
  BY DEF Reading!Marking
<1>2. StatementPaid' = StatementPaid /\ StatementMarks' = StatementMarks
        /\ Reading!Beyond' = Reading!Beyond
  BY <1>1 DEF StatementPaid, StatementMarks, Reading!Beyond
<1>3. StatementMarking'
  BY <1>1, <1>2 DEF StatementIInv, StatementMarking
<1>4. ASSUME NEW x \in Slots \ {s}, readRequest'[x].op \in Reading!Reading
      PROVE  StatementReader(readRequest[x])'
  BY <1>2, <1>4 DEF StatementIInv, StatementRead, StatementReader, StatementHasHead,
                    StatementHasRows, StatementSlack
<1>. QED  BY <1>2, <1>3, <1>4 DEF StatementRead

(* The exports that wait, when the request of one slot changes.            *)
LEMMA StatementUnsentStays ==
    ASSUME NEW s \in Slots, s \in StatementUnsent <=> s \in StatementUnsent',
           \A x \in Slots \ {s} : /\ readRequest'[x].op = readRequest[x].op
                                  /\ readRequest'[x].todo = readRequest[x].todo
    PROVE  StatementUnsent' = StatementUnsent
BY DEF StatementUnsent

(* A reading begins, having met the markings in flight.                    *)
LEMMA StatementStartReadingStep ==
    ASSUME StatementPage \in Nat, StatementIInv, NEW s \in Slots,
           NEW op \in Reading!Reading, Reading!StartReading(s, op)
    PROVE  StatementIInv'
<1>. DEFINE todo == Reading!After(op, "begin")
            r == [op |-> op, todo |-> todo, head |-> 0, rows |-> 0, met |-> StatementMarks]
<1>1. /\ readRequest[s].op = "idle"
      /\ readRequest' = [readRequest EXCEPT ![s] = r]
      /\ UNCHANGED <<readTerm, readPaid, readRepaid, readExports, readAnswers, readShocks,
                     readTorn>>
  BY StatementSameSize
     DEF Reading!StartReading, Reading!Begin, Reading!Busy, StatementMarks
<1>2. /\ StatementMarks \in Nat
      /\ op \in {"export", "dashboard", "adminStats"}
      /\ op # "adminStats" => todo = {"head"}
      /\ op = "adminStats" => todo = {"head", "rows"}
  BY StatementNumbers, StatementAfterIs DEF Reading!Reading, StatementIInv, StatementMarking
<1>. HIDE DEF todo
<1>3. /\ r.op = op /\ r.todo = todo /\ r.met = StatementMarks
      /\ StatementRequest(r)
  <2>1. todo \in StatementTodos[op] /\ op \in DOMAIN StatementTodos
    BY <1>2 DEF StatementTodos
  <2>2. todo \in SUBSET {"head", "rows", "history", "write"}
    BY <1>2
  <2>3. r \in StatementRecords
    BY <1>2, <2>1, <2>2 DEF StatementRecords
  <2>. QED  BY <2>1, <2>3 DEF StatementRequest
<1>. HIDE DEF r
<1>4. /\ StatementShapes' /\ readRequest'[s] = r
      /\ \A x \in Slots \ {s} : readRequest'[x] = readRequest[x]
  BY <1>1, <1>3, StatementMoves DEF StatementIInv, StatementShapes
<1>5. /\ StatementMarking'
      /\ StatementPaid' = StatementPaid /\ StatementMarks' = StatementMarks
      /\ StatementReader(readRequest[s])' => StatementRead'
  BY <1>1, <1>2, <1>3, <1>4, StatementOthersStay
<1>6. StatementReader(readRequest[s])'
  BY <1>2, <1>3, <1>4, <1>5
     DEF StatementReader, StatementHasHead, StatementHasRows
<1>7. StatementUnsent' = StatementUnsent
  BY <1>1, <1>2, <1>3, <1>4, StatementUnsentStays DEF StatementUnsent
<1>. QED  BY <1>1, <1>4, <1>5, <1>6, <1>7 DEF StatementIInv, StatementExports

(* The investment is read, by a reader or by a marking.                    *)
LEMMA StatementReadInvestmentStep ==
    ASSUME StatementPage \in Nat, StatementIInv, NEW s \in Slots, Reading!ReadInvestment(s)
    PROVE  StatementIInv'
<1>. DEFINE old == readRequest[s]
            todo == (old.todo \ {"head"}) \cup Reading!After(old.op, "head")
            r == [old EXCEPT !.head = readRepaid, !.todo = todo]
<1>1. /\ "head" \in old.todo
      /\ readRequest' = [readRequest EXCEPT ![s] = r]
      /\ UNCHANGED <<readTerm, readPaid, readRepaid, readExports, readAnswers, readShocks,
                     readTorn>>
  BY DEF Reading!ReadInvestment
<1>2. StatementRequest(old) /\ readRepaid \in Nat
  BY DEF StatementIInv, StatementShapes
<1>3. old.op \in {"export", "dashboard", "adminStats", "mark"}
  BY <1>1, <1>2 DEF StatementRequest, StatementRecords, StatementTodos
<1>4. /\ old.op \in {"export", "dashboard"} => todo = {"rows"}
      /\ old.op = "mark" => todo = {"write"}
      /\ old.op = "adminStats" => todo = old.todo \ {"head"}
                                    /\ old.todo \in SUBSET {"head", "rows"}
  BY <1>1, <1>2, <1>3, StatementAfterIs DEF StatementRequest, StatementRecords, StatementTodos
<1>. HIDE DEF todo
<1>5. /\ r.op = old.op /\ r.todo = todo /\ r.met = old.met /\ r.rows = old.rows
      /\ r.head = readRepaid
  BY <1>2 DEF StatementRequest, StatementRecords
<1>6. StatementRequest(r)
  <2>1. todo \in StatementTodos[old.op] /\ todo \in SUBSET {"head", "rows", "history", "write"}
    BY <1>1, <1>3, <1>4 DEF StatementTodos
  <2>. QED  BY <1>2, <1>5, <2>1 DEF StatementRequest, StatementRecords
<1>. HIDE DEF r
<1>7. /\ StatementShapes' /\ readRequest'[s] = r
      /\ \A x \in Slots \ {s} : readRequest'[x] = readRequest[x]
  BY <1>1, <1>6, StatementMoves DEF StatementIInv, StatementShapes
<1>8. /\ StatementPaid \in Nat /\ StatementMarks \in Nat /\ Reading!Beyond \in Nat
      /\ readRepaid + StatementMarks <= StatementPaid
      /\ ~readTorn => StatementPaid = readRepaid + StatementMarks
      /\ old.head \in Nat /\ old.rows \in Nat /\ old.met \in Nat
  BY <1>2, StatementNumbers
     DEF StatementIInv, StatementMarking, StatementRequest, StatementRecords
<1>9. StatementMarking' /\ StatementRead'
  <2>1. CASE old.op = "mark"
    <3>1. Reading!Marking' = Reading!Marking /\ todo = {"write"}
      BY <1>4, <1>5, <1>7, <2>1 DEF Reading!Marking
    <3>2. StatementPaid' = StatementPaid /\ StatementMarks' = StatementMarks
            /\ Reading!Beyond' = Reading!Beyond
      BY <1>1, <3>1 DEF StatementPaid, StatementMarks, Reading!Beyond
    <3>3. StatementMarking'
      <4>1. ASSUME NEW x \in Slots, "write" \in readRequest'[x].todo
            PROVE  /\ readRequest'[x].head + StatementMarks <= StatementPaid
                   /\ ~readTorn => readRequest'[x].head = readRepaid
        <5>1. CASE x = s
          BY <1>5, <1>7, <1>8, <5>1
        <5>2. CASE x # s
          BY <1>7, <4>1, <5>2 DEF StatementIInv, StatementMarking
        <5>. QED  BY <5>1, <5>2
      <4>. QED  BY <1>1, <3>1, <3>2, <4>1 DEF StatementIInv, StatementMarking
    <3>4. StatementRead'
      <4>1. ASSUME NEW x \in Slots, readRequest'[x].op \in Reading!Reading
            PROVE  StatementReader(readRequest[x])'
        <5>1. x # s
          BY <1>5, <1>7, <2>1, <4>1 DEF Reading!Reading
        <5>2. StatementReader(readRequest[x]) /\ readRequest'[x] = readRequest[x]
          BY <1>7, <4>1, <5>1 DEF StatementIInv, StatementRead
        <5>. QED
          BY <1>1, <3>2, <5>2 DEF StatementReader, StatementHasHead, StatementHasRows,
                                  StatementSlack
      <4>. QED  BY <4>1 DEF StatementRead
    <3>. QED  BY <3>3, <3>4
  <2>2. CASE old.op # "mark"
    <3>1. /\ StatementMarking' /\ Reading!Beyond' = Reading!Beyond
          /\ StatementPaid' = StatementPaid /\ StatementMarks' = StatementMarks
          /\ StatementReader(readRequest[s])' => StatementRead'
      <4>1. "write" \notin todo
        BY <1>3, <1>4, <2>2
      <4>. QED  BY <1>1, <1>5, <1>7, <2>2, <4>1, StatementOthersStay
    <3>2. StatementReader(old)
      BY <1>3, <2>2 DEF StatementIInv, StatementRead, Reading!Reading
    <3>3. /\ StatementMarks <= r.met /\ r.met \in Nat /\ r.rows \in Nat
          /\ r.head = readRepaid /\ readRepaid \in Nat
          /\ r.head <= StatementPaid
          /\ ~readTorn => StatementPaid <= r.head + r.met
      <4>1. StatementMarks <= old.met
        BY <3>2 DEF StatementReader
      <4>2. /\ r.met = old.met /\ r.met \in Nat /\ r.rows \in Nat
            /\ r.head = readRepaid /\ readRepaid \in Nat
        BY <1>2, <1>5, <1>8
      <4>. QED  BY <1>8, <4>1, <4>2
    <3>4. StatementHasRows(r) =>
            /\ r.op = "adminStats" /\ r.rows <= StatementPaid
            /\ StatementPaid <= r.rows + r.met
      BY <1>3, <1>4, <1>5, <2>2, <3>2 DEF StatementReader, StatementHasRows
    <3>5. StatementHasRows(r) =>
            /\ r.head <= r.rows + StatementSlack(r)
            /\ ~readTorn => r.rows <= r.head + r.met
      BY <1>5, <1>8, <3>3, <3>4 DEF StatementSlack
    <3>6. StatementReader(readRequest[s])'
      BY <1>1, <1>7, <3>1, <3>3, <3>4, <3>5
         DEF StatementReader, StatementHasRows, StatementSlack
    <3>. QED  BY <3>1, <3>6
  <2>. QED  BY <2>1, <2>2
<1>10. StatementUnsent' = StatementUnsent
  <2>1. old.op = "export" => old.todo # {} /\ todo # {}
    BY <1>1, <1>4
  <2>. QED  BY <1>5, <1>7, <2>1, StatementUnsentStays DEF StatementUnsent
<1>. QED  BY <1>1, <1>7, <1>9, <1>10 DEF StatementIInv, StatementExports

(* The payments are read: one page of them, or all.                        *)
LEMMA StatementReadPaymentsStep ==
    ASSUME StatementPage \in Nat, StatementIInv, NEW s \in Slots, Reading!ReadPayments(s)
    PROVE  StatementIInv'
<1>. DEFINE old == readRequest[s]
            todo == (old.todo \ {"rows"}) \cup Reading!After(old.op, "rows")
            size == Cardinality(Reading!Listed(old.op))
            r == [old EXCEPT !.rows = size, !.todo = todo]
<1>1. /\ "rows" \in old.todo
      /\ readRequest' = [readRequest EXCEPT ![s] = r]
      /\ UNCHANGED <<readTerm, readPaid, readRepaid, readExports, readAnswers, readShocks,
                     readTorn>>
  BY StatementSameSize DEF Reading!ReadPayments
<1>2. StatementRequest(old) /\ readRepaid \in Nat
  BY DEF StatementIInv, StatementShapes
<1>3. old.op \in {"export", "dashboard", "adminStats"}
  BY <1>1, <1>2 DEF StatementRequest, StatementRecords, StatementTodos
<1>4. /\ old.op = "export" => todo = {"history"} /\ old.todo = {"rows"}
      /\ old.op = "dashboard" => todo = {} /\ old.todo = {"rows"}
      /\ old.op = "adminStats" => todo = old.todo \ {"rows"}
                                    /\ old.todo \in SUBSET {"head", "rows"}
  BY <1>1, <1>2, <1>3, StatementAfterIs DEF StatementRequest, StatementRecords, StatementTodos
<1>5. /\ StatementPaid \in Nat /\ StatementMarks \in Nat /\ Reading!Beyond \in Nat
      /\ old.head \in Nat /\ old.met \in Nat
  BY <1>2, StatementNumbers
     DEF StatementIInv, StatementMarking, StatementRequest, StatementRecords
<1>6. /\ size \in Nat /\ size <= StatementPaid
      /\ old.op = "adminStats" => size = StatementPaid
      /\ old.op # "adminStats" => StatementPaid <= size + Reading!Beyond
  <2>1. CASE old.op = "adminStats"
    BY <1>5, <2>1 DEF Reading!Listed, StatementPaid
  <2>2. CASE old.op # "adminStats"
    BY <2>2, StatementPageMisses DEF Reading!Listed, StatementIInv
  <2>. QED  BY <2>1, <2>2
<1>. HIDE DEF size, todo
<1>7. /\ r.op = old.op /\ r.todo = todo /\ r.met = old.met /\ r.head = old.head
      /\ r.rows = size
  BY <1>2 DEF StatementRequest, StatementRecords
<1>8. StatementRequest(r)
  <2>1. todo \in StatementTodos[old.op] /\ todo \in SUBSET {"head", "rows", "history", "write"}
    BY <1>1, <1>3, <1>4 DEF StatementTodos
  <2>. QED  BY <1>2, <1>6, <1>7, <2>1 DEF StatementRequest, StatementRecords
<1>. HIDE DEF r
<1>9. /\ StatementShapes' /\ readRequest'[s] = r
      /\ \A x \in Slots \ {s} : readRequest'[x] = readRequest[x]
  BY <1>1, <1>8, StatementMoves DEF StatementIInv, StatementShapes
<1>10. /\ StatementMarking' /\ Reading!Beyond' = Reading!Beyond
       /\ StatementPaid' = StatementPaid /\ StatementMarks' = StatementMarks
       /\ StatementReader(readRequest[s])' => StatementRead'
  <2>1. "write" \notin todo /\ old.op # "mark"
    BY <1>3, <1>4
  <2>. QED  BY <1>1, <1>7, <1>9, <2>1, StatementOthersStay
<1>11. StatementReader(readRequest[s])'
  <2>1. StatementReader(old)
    BY <1>3 DEF StatementIInv, StatementRead, Reading!Reading
  <2>2. StatementHasHead(r) <=> StatementHasHead(old)
    BY <1>3, <1>4, <1>7 DEF StatementHasHead
  <2>3. /\ StatementMarks <= r.met /\ r.rows <= StatementPaid
        /\ r.op = "adminStats" => StatementPaid <= r.rows + r.met
        /\ StatementHasHead(r) =>
               /\ r.head <= StatementPaid
               /\ ~readTorn => StatementPaid <= r.head + r.met
    BY <1>5, <1>6, <1>7, <2>1, <2>2 DEF StatementReader
  <2>4. StatementHasHead(r) =>
            /\ r.head <= r.rows + StatementSlack(r)
            /\ ~readTorn => r.rows <= r.head + r.met
    BY <1>5, <1>6, <1>7, <2>3 DEF StatementSlack
  <2>. QED
    BY <1>1, <1>9, <1>10, <2>3, <2>4 DEF StatementReader, StatementHasHead, StatementSlack
<1>12. StatementUnsent' = StatementUnsent
  <2>1. old.op = "export" => old.todo # {} /\ todo # {}
    BY <1>1, <1>4
  <2>. QED  BY <1>7, <1>9, <2>1, StatementUnsentStays DEF StatementUnsent
<1>. QED  BY <1>1, <1>9, <1>10, <1>11, <1>12 DEF StatementIInv, StatementExports

(* The history gets the row of an export, which waits to be sent then.     *)
LEMMA StatementRecordExportStep ==
    ASSUME StatementIInv, NEW s \in Slots, Reading!RecordExport(s)
    PROVE  StatementIInv'
<1>. DEFINE old == readRequest[s]
            r == [old EXCEPT !.todo = {}]
<1>1. StatementRequest(old) /\ readExports \in Nat
  BY DEF StatementIInv, StatementShapes
<1>2. "history" \in old.todo
  BY DEF Reading!RecordExport
<1>3. old.op = "export" /\ old.todo = {"history"}
  BY <1>1, <1>2 DEF StatementRequest, StatementRecords, StatementTodos
<1>4. /\ readRequest' = [readRequest EXCEPT ![s] = r] /\ readExports' = readExports + 1
      /\ UNCHANGED <<readTerm, readPaid, readRepaid, readAnswers, readShocks, readTorn>>
  BY <1>3 DEF Reading!RecordExport, StatementIInv, StatementShapes
<1>5. /\ r.op = old.op /\ r.todo = {} /\ r.met = old.met /\ r.head = old.head
      /\ r.rows = old.rows
  BY <1>1 DEF StatementRequest, StatementRecords
<1>6. StatementRequest(r)
  <2>1. {} \in StatementTodos[old.op]
    BY <1>3 DEF StatementTodos
  <2>. QED  BY <1>1, <1>5, <2>1 DEF StatementRequest, StatementRecords
<1>. HIDE DEF r
<1>7. /\ StatementShapes' /\ readRequest'[s] = r
      /\ \A x \in Slots \ {s} : readRequest'[x] = readRequest[x]
  <2>1. /\ UNCHANGED <<readTerm, readPaid, readRepaid, readTorn>>
        /\ readShocks' \in Nat /\ readExports' \in Nat /\ readAnswers' \in Nat
    BY <1>1, <1>4 DEF StatementIInv, StatementShapes
  <2>. QED  BY <1>4, <1>6, <2>1, StatementMoves DEF StatementIInv
<1>8. /\ StatementMarking' /\ Reading!Beyond' = Reading!Beyond
      /\ StatementPaid' = StatementPaid /\ StatementMarks' = StatementMarks
      /\ StatementReader(readRequest[s])' => StatementRead'
  BY <1>3, <1>4, <1>5, <1>7, StatementOthersStay
<1>9. StatementReader(readRequest[s])'
  <2>1. StatementReader(old)
    BY <1>3 DEF StatementIInv, StatementRead, Reading!Reading
  <2>. QED
    BY <1>3, <1>4, <1>5, <1>7, <1>8, <2>1
       DEF StatementReader, StatementHasHead, StatementHasRows, StatementSlack
<1>10. StatementUnsent' = StatementUnsent \cup {s} /\ s \notin StatementUnsent
  BY <1>3, <1>5, <1>7 DEF StatementUnsent
<1>11. StatementExports'
  <2>1. IsFiniteSet(StatementUnsent) /\ Cardinality(StatementUnsent) \in Nat
    BY FS_CardinalityType DEF StatementIInv, StatementExports
  <2>2. IsFiniteSet(StatementUnsent') /\ Cardinality(StatementUnsent') = Cardinality(StatementUnsent) + 1
    BY <1>10, <2>1, FS_AddElement
  <2>3. readAnswers \in Nat
    BY DEF StatementIInv, StatementShapes
  <2>. QED  BY <1>1, <1>4, <2>1, <2>2, <2>3 DEF StatementIInv, StatementExports
<1>. QED  BY <1>7, <1>8, <1>9, <1>11 DEF StatementIInv

(* The set of waiting exports loses a request that leaves.                 *)
LEMMA StatementLeaves ==
    ASSUME StatementIInv, NEW s \in Slots, Reading!Done(s)
    PROVE  /\ StatementUnsent' = StatementUnsent \ {s}
           /\ StatementRequest(Reading!Idle) /\ Reading!Idle.op = "idle"
           /\ Reading!Idle.todo = {}
           /\ readRequest' = [readRequest EXCEPT ![s] = Reading!Idle]
           /\ readRequest' \in [Slots -> StatementRecords]
           /\ readRequest'[s] = Reading!Idle
           /\ \A x \in Slots \ {s} : readRequest'[x] = readRequest[x]
           /\ \A x \in Slots : StatementRequest(readRequest'[x])
           /\ Cardinality(StatementUnsent) \in Nat
           /\ IsFiniteSet(StatementUnsent')
           /\ Cardinality(StatementUnsent')
                = IF s \in StatementUnsent THEN Cardinality(StatementUnsent) - 1
                  ELSE Cardinality(StatementUnsent)
<1>1. StatementRequest(Reading!Idle) /\ Reading!Idle.op = "idle" /\ Reading!Idle.todo = {}
  BY DEF StatementRequest, StatementRecords, StatementTodos, Reading!Idle
<1>2. /\ readRequest' = [readRequest EXCEPT ![s] = Reading!Idle]
      /\ readRequest' \in [Slots -> StatementRecords]
      /\ readRequest'[s] = Reading!Idle
      /\ \A x \in Slots \ {s} : readRequest'[x] = readRequest[x]
  BY <1>1 DEF StatementIInv, StatementShapes, Reading!Done, StatementRequest
<1>3. \A x \in Slots : StatementRequest(readRequest'[x])
  BY <1>1, <1>2 DEF StatementIInv, StatementShapes
<1>4. StatementUnsent' = StatementUnsent \ {s}
  BY <1>1, <1>2 DEF StatementUnsent
<1>5. IsFiniteSet(StatementUnsent) /\ Cardinality(StatementUnsent) \in Nat
  BY FS_CardinalityType DEF StatementIInv, StatementExports
<1>6. /\ IsFiniteSet(StatementUnsent \ {s})
      /\ Cardinality(StatementUnsent \ {s})
           = IF s \in StatementUnsent THEN Cardinality(StatementUnsent) - 1
             ELSE Cardinality(StatementUnsent)
  BY <1>5, FS_RemoveElement
<1>. QED  BY <1>1, <1>2, <1>3, <1>4, <1>5, <1>6

(* A statement is sent.                                                    *)
LEMMA StatementAnswerStep ==
    ASSUME StatementIInv, NEW s \in Slots, Reading!Answer(s)
    PROVE  StatementIInv'
<1>. DEFINE old == readRequest[s]
<1>1. /\ old.op \in Reading!Reading /\ old.todo = {}
      /\ readAnswers' = IF old.op = "export" THEN readAnswers + 1 ELSE readAnswers
      /\ Reading!Done(s)
      /\ UNCHANGED <<readTerm, readPaid, readRepaid, readExports, readShocks, readTorn>>
  BY DEF Reading!Answer
<1>2. /\ readAnswers \in Nat /\ readExports \in Nat /\ readShocks \in Nat
      /\ old.op \in {"export", "dashboard", "adminStats"}
  BY <1>1 DEF StatementIInv, StatementShapes, Reading!Reading
<1>3. /\ Reading!Idle.op = "idle" /\ Reading!Idle.todo = {}
      /\ readRequest' \in [Slots -> StatementRecords]
      /\ readRequest'[s] = Reading!Idle
      /\ \A x \in Slots \ {s} : readRequest'[x] = readRequest[x]
      /\ \A x \in Slots : StatementRequest(readRequest'[x])
      /\ Cardinality(StatementUnsent) \in Nat
      /\ IsFiniteSet(StatementUnsent')
      /\ Cardinality(StatementUnsent')
           = IF s \in StatementUnsent THEN Cardinality(StatementUnsent) - 1
             ELSE Cardinality(StatementUnsent)
  BY <1>1, StatementLeaves
<1>4. StatementShapes'
  BY <1>1, <1>2, <1>3 DEF StatementIInv, StatementShapes
<1>5. StatementMarking' /\ StatementRead'
  <2>1. StatementMarking' /\ (readRequest'[s].op \in Reading!Reading
            => StatementReader(readRequest[s])') => StatementRead'
    BY <1>1, <1>2, <1>3, StatementOthersStay
  <2>2. readRequest'[s].op \notin Reading!Reading
    BY <1>3 DEF Reading!Reading
  <2>3. StatementMarking'
    BY <1>1, <1>2, <1>3, StatementOthersStay
  <2>. QED  BY <2>1, <2>2, <2>3
<1>6. s \in StatementUnsent <=> old.op = "export"
  BY <1>1 DEF StatementUnsent
<1>7. StatementExports'
  BY <1>1, <1>2, <1>3, <1>6 DEF StatementIInv, StatementExports
<1>. QED  BY <1>4, <1>5, <1>7 DEF StatementIInv

(* A row is marked: whoever is being served meets it.                      *)
LEMMA StatementMarkRowStep ==
    ASSUME StatementPage \in Nat, StatementIInv, NEW s \in Slots, Reading!MarkRow(s)
    PROVE  StatementIInv'
<1>. DEFINE mark == [op |-> "mark", todo |-> Reading!After("mark", "begin"), head |-> 0,
                     rows |-> 0, met |-> 0]
            met(x) == IF readRequest[x].op \in Reading!Reading
                      THEN [readRequest[x] EXCEPT !.met = readRequest[x].met + 1]
                      ELSE readRequest[x]
<1>1. PICK p \in (1 .. readTerm) \ readPaid :
        /\ readRequest[s].op = "idle"
        /\ readPaid' = readPaid \cup {p}
        /\ readRequest' = [x \in Slots |-> IF x = s THEN mark ELSE met(x)]
        /\ readTorn' = (readTorn \/ Reading!Marking # {})
        /\ UNCHANGED <<readTerm, readRepaid, readExports, readAnswers, readShocks>>
  BY DEF Reading!MarkRow, Reading!Begin, Reading!Busy
<1>2. /\ \A x \in Slots : StatementRequest(readRequest[x])
      /\ readRepaid \in Nat /\ readTorn \in BOOLEAN
      /\ IsFiniteSet(Reading!Marking) /\ IsFiniteSet(readPaid)
      /\ StatementPaid \in Nat /\ StatementMarks \in Nat /\ Reading!Beyond \in Nat
  BY StatementNumbers DEF StatementIInv, StatementShapes, StatementMarking
<1>3. /\ mark.op = "mark" /\ mark.todo = {"head"}
      /\ StatementRequest(mark)
  BY StatementAfterIs DEF StatementRequest, StatementRecords, StatementTodos
<1>4. ASSUME NEW x \in Slots
      PROVE  /\ StatementRequest(met(x))
             /\ met(x).op = readRequest[x].op /\ met(x).todo = readRequest[x].todo
             /\ met(x).head = readRequest[x].head /\ met(x).rows = readRequest[x].rows
             /\ readRequest[x].op \in Reading!Reading => met(x).met = readRequest[x].met + 1
             /\ readRequest[x].met \in Nat /\ readRequest[x].head \in Nat
             /\ readRequest[x].rows \in Nat
  BY <1>2 DEF StatementRequest, StatementRecords
<1>. HIDE DEF mark, met
<1>5. /\ readRequest'[s] = mark
      /\ \A x \in Slots \ {s} : readRequest'[x] = met(x)
  BY <1>1
<1>6. /\ IsFiniteSet(readPaid') /\ StatementPaid' = StatementPaid + 1
      /\ Reading!Beyond' = Reading!Beyond
  BY <1>1, <1>2, FS_AddElement DEF StatementPaid, Reading!Beyond
<1>7. /\ Reading!Marking' = Reading!Marking \cup {s} /\ s \notin Reading!Marking
      /\ IsFiniteSet(Reading!Marking') /\ StatementMarks' = StatementMarks + 1
  <2>1. Reading!Marking' = Reading!Marking \cup {s} /\ s \notin Reading!Marking
    BY <1>1, <1>3, <1>4, <1>5 DEF Reading!Marking
  <2>. QED  BY <1>2, <2>1, FS_AddElement DEF StatementMarks
<1>8. StatementShapes'
  <2>1. \A x \in Slots : StatementRequest(readRequest'[x])
    BY <1>3, <1>4, <1>5
  <2>2. readTorn' \in BOOLEAN
    BY <1>1, <1>2
  <2>3. readPaid' \subseteq 1 .. readTerm'
    BY <1>1 DEF StatementIInv, StatementShapes
  <2>. QED
    BY <1>1, <2>1, <2>2, <2>3
       DEF StatementIInv, StatementShapes, StatementRequest, StatementRecords
<1>9. StatementMarking'
  <2>1. readRepaid' + StatementMarks' <= StatementPaid'
    BY <1>1, <1>2, <1>6, <1>7 DEF StatementIInv, StatementMarking
  <2>2. ASSUME NEW x \in Slots, "write" \in readRequest'[x].todo
        PROVE  /\ readRequest'[x].head + StatementMarks' <= StatementPaid'
               /\ x \in Reading!Marking
    <3>1. x # s /\ readRequest'[x].head = readRequest[x].head
          /\ "write" \in readRequest[x].todo /\ readRequest[x].head \in Nat
      BY <1>3, <1>4, <1>5, <2>2
    <3>2. readRequest[x].head + StatementMarks <= StatementPaid
      BY <3>1 DEF StatementIInv, StatementMarking
    <3>3. readRequest[x].op = "mark"
      BY <1>2, <3>1 DEF StatementRequest, StatementRecords, StatementTodos
    <3>. QED  BY <1>2, <1>6, <1>7, <3>1, <3>2, <3>3 DEF Reading!Marking
  <2>3. ASSUME ~readTorn'
        PROVE  /\ \A x, y \in Reading!Marking' : x = y
               /\ \A x \in Slots : "write" \in readRequest'[x].todo =>
                      readRequest'[x].head = readRepaid'
               /\ StatementPaid' = readRepaid' + StatementMarks'
    <3>1. ~readTorn /\ Reading!Marking = {}
      BY <1>1, <2>3
    <3>2. StatementPaid = readRepaid + StatementMarks
      BY <3>1 DEF StatementIInv, StatementMarking
    <3>. QED  BY <1>1, <1>2, <1>6, <1>7, <2>2, <3>1, <3>2
  <2>. QED  BY <1>7, <2>1, <2>2, <2>3 DEF StatementMarking
<1>10. StatementRead'
  <2>. SUFFICES ASSUME NEW x \in Slots, readRequest'[x].op \in Reading!Reading
                PROVE  StatementReader(readRequest[x])'
    BY DEF StatementRead
  <2>. DEFINE r == readRequest[x]
              q == readRequest'[x]
  <2>1. /\ q.op = r.op /\ q.todo = r.todo /\ q.head = r.head /\ q.rows = r.rows
        /\ q.met = r.met + 1
        /\ r.op \in Reading!Reading
        /\ r.met \in Nat /\ r.head \in Nat /\ r.rows \in Nat
    BY <1>3, <1>4, <1>5 DEF Reading!Reading
  <2>2. StatementReader(r)
    BY <2>1 DEF StatementIInv, StatementRead
  <2>3. /\ StatementHasHead(q) <=> StatementHasHead(r)
        /\ StatementHasRows(q) <=> StatementHasRows(r)
    BY <2>1 DEF StatementHasHead, StatementHasRows
  <2>. HIDE DEF r, q
  <2>4. StatementMarks' <= q.met
    BY <1>2, <1>7, <2>1, <2>2 DEF StatementReader
  <2>5. StatementHasRows(q) =>
           /\ q.rows <= StatementPaid'
           /\ q.op = "adminStats" => StatementPaid' <= q.rows + q.met
    BY <1>2, <1>6, <2>1, <2>2, <2>3 DEF StatementReader
  <2>6. StatementHasHead(q) =>
           /\ q.head <= StatementPaid'
           /\ ~readTorn' => StatementPaid' <= q.head + q.met
    BY <1>1, <1>2, <1>6, <2>1, <2>2, <2>3 DEF StatementReader
  <2>7. StatementHasHead(q) /\ StatementHasRows(q) =>
           /\ q.head <= q.rows + (IF q.op = "adminStats" THEN q.met ELSE Reading!Beyond)
           /\ ~readTorn' => q.rows <= q.head + q.met
    BY <1>1, <1>2, <2>1, <2>2, <2>3 DEF StatementReader, StatementSlack
  <2>. QED
    BY <1>6, <2>4, <2>5, <2>6, <2>7
       DEF q, StatementReader, StatementHasHead, StatementHasRows, StatementSlack
<1>11. StatementUnsent' = StatementUnsent
  <2>1. \A x \in Slots \ {s} : /\ readRequest'[x].op = readRequest[x].op
                               /\ readRequest'[x].todo = readRequest[x].todo
    BY <1>4, <1>5
  <2>. QED  BY <1>1, <1>3, <1>5, <2>1, StatementUnsentStays DEF StatementUnsent
<1>. QED  BY <1>1, <1>8, <1>9, <1>10, <1>11 DEF StatementIInv, StatementExports

(* A marking leaves: one fewer is in flight, which readers that met it     *)
(* do not mind.                                                            *)
LEMMA StatementMarkLeaves ==
    ASSUME StatementPage \in Nat, StatementIInv, NEW s \in Reading!Marking, Reading!Done(s),
           UNCHANGED <<readTerm, readPaid>>, readTorn => readTorn'
    PROVE  /\ Reading!Marking' = Reading!Marking \ {s} /\ IsFiniteSet(Reading!Marking')
           /\ StatementPaid' = StatementPaid /\ StatementMarks' = StatementMarks - 1
           /\ StatementPaid \in Nat /\ StatementMarks \in Nat
           /\ StatementRead'
<1>1. /\ s \in Slots /\ readRequest'[s] = Reading!Idle /\ Reading!Idle.op = "idle"
      /\ \A x \in Slots \ {s} : readRequest'[x] = readRequest[x]
  BY StatementLeaves DEF Reading!Marking
<1>2. /\ IsFiniteSet(Reading!Marking)
      /\ StatementPaid \in Nat /\ StatementMarks \in Nat /\ Reading!Beyond \in Nat
  BY StatementNumbers DEF StatementIInv, StatementMarking
<1>3. /\ Reading!Marking' = Reading!Marking \ {s} /\ IsFiniteSet(Reading!Marking')
      /\ StatementMarks' = StatementMarks - 1
  <2>1. Reading!Marking' = Reading!Marking \ {s}
    BY <1>1 DEF Reading!Marking
  <2>. QED  BY <1>2, <2>1, FS_RemoveElement DEF StatementMarks
<1>4. StatementPaid' = StatementPaid /\ Reading!Beyond' = Reading!Beyond
  BY DEF StatementPaid, Reading!Beyond
<1>5. ASSUME NEW x \in Slots, readRequest'[x].op \in Reading!Reading
      PROVE  StatementReader(readRequest[x])'
  <2>1. x # s
    BY <1>1, <1>5 DEF Reading!Reading
  <2>2. StatementReader(readRequest[x]) /\ readRequest'[x] = readRequest[x]
    BY <1>1, <1>5, <2>1 DEF StatementIInv, StatementRead
  <2>3. readRequest[x].met \in Nat
    BY DEF StatementIInv, StatementShapes, StatementRequest, StatementRecords
  <2>4. StatementMarks' <= readRequest'[x].met
    BY <1>2, <1>3, <2>2, <2>3 DEF StatementReader
  <2>. QED
    BY <1>4, <2>2, <2>4 DEF StatementReader, StatementHasHead, StatementHasRows,
                            StatementSlack
<1>. QED  BY <1>2, <1>3, <1>4, <1>5 DEF StatementRead

(* The investment accounts for the row that was marked.                    *)
LEMMA StatementMarkInvestmentStep ==
    ASSUME StatementPage \in Nat, StatementIInv, NEW s \in Slots, Reading!MarkInvestment(s)
    PROVE  StatementIInv'
<1>1. /\ "write" \in readRequest[s].todo /\ readRepaid' = readRequest[s].head + 1
      /\ Reading!Done(s)
      /\ UNCHANGED <<readTerm, readPaid, readExports, readAnswers, readShocks, readTorn>>
  BY DEF Reading!MarkInvestment
<1>2. readRequest[s].op = "mark" /\ readRequest[s].head \in Nat
  BY <1>1 DEF StatementIInv, StatementShapes, StatementRequest, StatementRecords, StatementTodos
<1>3. s \in Reading!Marking
  BY <1>2 DEF Reading!Marking
<1>4. /\ Reading!Marking' = Reading!Marking \ {s} /\ IsFiniteSet(Reading!Marking')
      /\ StatementPaid' = StatementPaid /\ StatementMarks' = StatementMarks - 1
      /\ StatementPaid \in Nat /\ StatementMarks \in Nat
      /\ StatementRead'
  BY <1>1, <1>3, StatementMarkLeaves
<1>5. /\ Reading!Idle.op = "idle" /\ Reading!Idle.todo = {}
      /\ readRequest' \in [Slots -> StatementRecords]
      /\ readRequest'[s] = Reading!Idle
      /\ \A x \in Slots \ {s} : readRequest'[x] = readRequest[x]
      /\ \A x \in Slots : StatementRequest(readRequest'[x])
  BY <1>1, StatementLeaves
<1>6. StatementShapes'
  <2>1. readRepaid' \in Nat
    BY <1>1, <1>2
  <2>. QED  BY <1>1, <1>5, <2>1 DEF StatementIInv, StatementShapes
<1>7. StatementMarking'
  <2>1. readRepaid' + StatementMarks' <= StatementPaid'
    BY <1>1, <1>2, <1>4 DEF StatementIInv, StatementMarking
  <2>2. ASSUME NEW x \in Slots, "write" \in readRequest'[x].todo
        PROVE  /\ readRequest'[x].head + StatementMarks' <= StatementPaid'
               /\ x \in Reading!Marking'
    <3>1. x # s /\ readRequest'[x] = readRequest[x] /\ "write" \in readRequest[x].todo
      BY <1>5, <2>2
    <3>2. readRequest[x].op = "mark" /\ readRequest[x].head \in Nat
      <4>1. StatementRequest(readRequest[x])
        BY DEF StatementIInv, StatementShapes
      <4>. QED  BY <3>1, <4>1 DEF StatementRequest, StatementRecords, StatementTodos
    <3>3. readRequest[x].head + StatementMarks <= StatementPaid
      BY <3>1 DEF StatementIInv, StatementMarking
    <3>. QED  BY <1>4, <3>1, <3>2, <3>3 DEF Reading!Marking
  <2>3. ASSUME ~readTorn'
        PROVE  /\ \A x, y \in Reading!Marking' : x = y
               /\ \A x \in Slots : "write" \in readRequest'[x].todo =>
                      readRequest'[x].head = readRepaid'
               /\ StatementPaid' = readRepaid' + StatementMarks'
    <3>1. /\ \A x, y \in Reading!Marking : x = y
          /\ readRequest[s].head = readRepaid
          /\ StatementPaid = readRepaid + StatementMarks
      BY <1>1, <2>3 DEF StatementIInv, StatementMarking
    <3>2. Reading!Marking' = {}
      BY <1>3, <1>4, <3>1
    <3>. QED  BY <1>1, <1>2, <1>4, <2>2, <3>1, <3>2
  <2>. QED  BY <1>4, <2>1, <2>2, <2>3 DEF StatementMarking
<1>8. StatementUnsent' = StatementUnsent
  BY <1>2, <1>5, StatementUnsentStays DEF StatementUnsent
<1>. QED  BY <1>1, <1>4, <1>6, <1>7, <1>8 DEF StatementIInv, StatementExports

(* A request is cut short: a marking leaves the investment torn.           *)
LEMMA StatementCutShortStep ==
    ASSUME StatementPage \in Nat, StatementIInv, NEW s \in Slots, Reading!CutShort(s)
    PROVE  StatementIInv'
<1>1. /\ readShocks' = readShocks + 1 /\ Reading!Done(s)
      /\ readTorn' = (readTorn \/ readRequest[s].op = "mark")
      /\ UNCHANGED <<readTerm, readPaid, readRepaid, readExports, readAnswers>>
  BY DEF Reading!CutShort
<1>2. /\ readAnswers \in Nat /\ readExports \in Nat /\ readShocks \in Nat
      /\ readTorn \in BOOLEAN /\ readRepaid \in Nat
  BY DEF StatementIInv, StatementShapes
<1>3. /\ Reading!Idle.op = "idle" /\ Reading!Idle.todo = {}
      /\ readRequest' \in [Slots -> StatementRecords]
      /\ readRequest'[s] = Reading!Idle
      /\ \A x \in Slots \ {s} : readRequest'[x] = readRequest[x]
      /\ \A x \in Slots : StatementRequest(readRequest'[x])
      /\ Cardinality(StatementUnsent) \in Nat
      /\ IsFiniteSet(StatementUnsent')
      /\ Cardinality(StatementUnsent')
           = IF s \in StatementUnsent THEN Cardinality(StatementUnsent) - 1
             ELSE Cardinality(StatementUnsent)
  BY <1>1, StatementLeaves
<1>4. StatementShapes'
  BY <1>1, <1>2, <1>3 DEF StatementIInv, StatementShapes
<1>5. StatementMarking' /\ StatementRead'
  <2>1. CASE readRequest[s].op # "mark"
    <3>1. readTorn' = readTorn
      BY <1>1, <1>2, <2>1
    <3>2. StatementMarking' /\ ((readRequest'[s].op \in Reading!Reading
              => StatementReader(readRequest[s])') => StatementRead')
      BY <1>1, <1>3, <2>1, <3>1, StatementOthersStay
    <3>3. readRequest'[s].op \notin Reading!Reading
      BY <1>3 DEF Reading!Reading
    <3>. QED  BY <3>2, <3>3
  <2>2. CASE readRequest[s].op = "mark"
    <3>1. s \in Reading!Marking /\ readTorn'
      BY <1>1, <2>2 DEF Reading!Marking
    <3>2. /\ IsFiniteSet(Reading!Marking')
          /\ StatementPaid' = StatementPaid /\ StatementMarks' = StatementMarks - 1
          /\ StatementPaid \in Nat /\ StatementMarks \in Nat
          /\ StatementRead'
      BY <1>1, <3>1, StatementMarkLeaves
    <3>3. readRepaid' + StatementMarks' <= StatementPaid'
      BY <1>1, <1>2, <3>2 DEF StatementIInv, StatementMarking
    <3>4. ASSUME NEW x \in Slots, "write" \in readRequest'[x].todo
          PROVE  readRequest'[x].head + StatementMarks' <= StatementPaid'
      <4>1. x # s /\ readRequest'[x] = readRequest[x] /\ "write" \in readRequest[x].todo
        BY <1>3, <3>4
      <4>2. readRequest[x].head \in Nat
        BY DEF StatementIInv, StatementShapes, StatementRequest, StatementRecords
      <4>3. readRequest[x].head + StatementMarks <= StatementPaid
        BY <4>1 DEF StatementIInv, StatementMarking
      <4>. QED  BY <3>2, <4>1, <4>2, <4>3
    <3>. QED  BY <3>1, <3>2, <3>3, <3>4 DEF StatementMarking
  <2>. QED  BY <2>1, <2>2
<1>6. StatementExports'
  BY <1>1, <1>2, <1>3 DEF StatementIInv, StatementExports
<1>. QED  BY <1>4, <1>5, <1>6 DEF StatementIInv

(* The first state: nothing was paid, read or exported.                    *)
LEMMA StatementInitStep ==
    ASSUME MaxTerm \in Nat
    PROVE  Reading!Init => StatementIInv
<1>. SUFFICES ASSUME Reading!Init PROVE StatementIInv
  OBVIOUS
<1>1. /\ StatementRequest(Reading!Idle) /\ Reading!Idle.op = "idle"
      /\ Reading!Idle.todo = {}
  BY DEF StatementRequest, StatementRecords, StatementTodos, Reading!Idle
<1>2. \A s \in Slots : readRequest[s] = Reading!Idle
  BY DEF Reading!Init
<1>3. IsFiniteSet({}) /\ Cardinality({}) = 0
  BY FS_EmptySet
<1>4. StatementShapes
  <2>1. readRequest \in [Slots -> StatementRecords]
    BY <1>1 DEF StatementRequest, Reading!Init
  <2>2. \A s \in Slots : StatementRequest(readRequest[s])
    BY <1>1, <1>2
  <2>3. readTerm \in Nat
    BY DEF Reading!Init
  <2>. QED  BY <2>1, <2>2, <2>3 DEF StatementShapes, Reading!Init
<1>5. Reading!Marking = {} /\ StatementUnsent = {} /\ readPaid = {}
  BY <1>1, <1>2 DEF StatementUnsent, Reading!Marking, Reading!Init
<1>6. StatementMarking /\ StatementRead
  BY <1>1, <1>2, <1>3, <1>5
     DEF StatementMarking, StatementRead, StatementPaid, StatementMarks, Reading!Init,
         Reading!Reading
<1>7. StatementExports
  BY <1>3, <1>5 DEF StatementExports, Reading!Init
<1>. QED  BY <1>4, <1>6, <1>7 DEF StatementIInv

(* Every step keeps the invariant.                                         *)
LEMMA StatementNextStep ==
    ASSUME StatementPage \in Nat
    PROVE  StatementIInv /\ [Reading!Next]_(Reading!vars) => StatementIInv'
<1>. SUFFICES ASSUME StatementIInv, [Reading!Next]_(Reading!vars) PROVE StatementIInv'
  OBVIOUS
<1>1. CASE UNCHANGED Reading!vars
  <2>1. UNCHANGED <<readTerm, readPaid, readRepaid, readExports, readAnswers, readRequest,
                    readShocks, readTorn>>
    BY <1>1 DEF Reading!vars
  <2>2. /\ StatementPaid' = StatementPaid /\ Reading!Marking' = Reading!Marking
        /\ StatementMarks' = StatementMarks /\ Reading!Beyond' = Reading!Beyond
        /\ StatementUnsent' = StatementUnsent
    BY <2>1 DEF StatementPaid, StatementMarks, Reading!Marking, Reading!Beyond,
                StatementUnsent
  <2>3. StatementShapes' /\ StatementMarking' /\ StatementExports'
    BY <2>1, <2>2 DEF StatementIInv, StatementShapes, StatementMarking, StatementExports
  <2>4. StatementRead'
    BY <2>1, <2>2 DEF StatementIInv, StatementRead, StatementReader, StatementHasHead,
                      StatementHasRows, StatementSlack
  <2>. QED  BY <2>3, <2>4 DEF StatementIInv
<1>2. ASSUME NEW s \in Slots,
             \/ Reading!ExportInvestmentPayments(s) \/ Reading!InvestorDashboard(s)
             \/ Reading!AdminStats(s)
      PROVE  StatementIInv'
  <2>1. PICK op \in Reading!Reading : Reading!StartReading(s, op)
    BY <1>2 DEF Reading!ExportInvestmentPayments, Reading!InvestorDashboard,
       Reading!AdminStats, Reading!Reading
  <2>. QED  BY <2>1, StatementStartReadingStep
<1>. QED
  BY <1>1, <1>2, StatementReadInvestmentStep, StatementReadPaymentsStep,
     StatementRecordExportStep, StatementAnswerStep, StatementMarkRowStep,
     StatementMarkInvestmentStep, StatementCutShortStep DEF Reading!Next

(* An export claims no repayment its rows do not show but those beyond its *)
(* page, and its rows show none the investment does not account for but    *)
(* those it met; every export that was sent is in the history              *)
(* (document.service.ts, DomainExportService and DashboardService).        *)
THEOREM StatementsAreSound ==
    ASSUME StatementPage \in Nat, MaxTerm \in Nat
    PROVE  Reading!Spec => []Reading!StatementsSound
<1>1. ASSUME StatementIInv PROVE Reading!StatementsSound
  <2>1. Reading!WholeStatements
    <3>. SUFFICES ASSUME NEW s \in Slots, readRequest[s].op \in Reading!Reading,
                         readRequest[s].todo \cap {"head", "rows"} = {}
                  PROVE  /\ readRequest[s].head <= readRequest[s].rows
                              + (IF readRequest[s].op = "adminStats" THEN readRequest[s].met
                                 ELSE Reading!Beyond)
                         /\ ~readTorn =>
                              readRequest[s].rows <= readRequest[s].head + readRequest[s].met
      BY DEF Reading!WholeStatements
    <3>1. StatementReader(readRequest[s])
      BY <1>1 DEF StatementIInv, StatementRead
    <3>2. StatementHasHead(readRequest[s]) /\ StatementHasRows(readRequest[s])
      BY DEF StatementHasHead, StatementHasRows
    <3>. QED  BY <3>1, <3>2 DEF StatementReader, StatementSlack
  <2>2. Reading!ExportsRecorded
    <3>1. IsFiniteSet(StatementUnsent) /\ Cardinality(StatementUnsent) \in Nat
      BY <1>1, FS_CardinalityType DEF StatementIInv, StatementExports
    <3>2. readAnswers \in Nat /\ readExports \in Nat
      BY <1>1 DEF StatementIInv, StatementShapes
    <3>3. ASSUME \A s \in Slots : ~Reading!Busy(s) PROVE Cardinality(StatementUnsent) = 0
      <4>1. StatementUnsent = {}
        BY <3>3 DEF Reading!Busy, StatementUnsent
      <4>. QED  BY <4>1, FS_EmptySet
    <3>. QED
      BY <1>1, <3>1, <3>2, <3>3 DEF Reading!ExportsRecorded, StatementIInv, StatementExports
  <2>. QED  BY <2>1, <2>2 DEF Reading!StatementsSound
<1>2. Reading!Init => StatementIInv
  BY StatementInitStep
<1>3. StatementIInv /\ [Reading!Next]_(Reading!vars) => StatementIInv'
  BY StatementNextStep
<1>. QED  BY <1>1, <1>2, <1>3, PTL DEF Reading!Spec

-----------------------------------------------------------------------------
(***************************************************************************)
(* RecoveryRules of OneTimeCodes, for any number of requests, of codes and *)
(* of attempts.                                                            *)
(*                                                                         *)
(* While the connection does not change one of the two stores is unused    *)
(* (CodeHome), and the other holds nothing or the newest code with as many *)
(* attempts as wrong guesses were answered (CodeCounted) - always in       *)
(* memory, and in Redis while requests do not overlap.  While they do not, *)
(* what the request in flight has read is still so when it writes          *)
(* (CodeAlone), and codes and reset tokens that are stored were never used *)
(* (CodeUnused).                                                           *)
(***************************************************************************)

CodeEntries == [otp : Nat, attempts : Nat]
CodeOps == {"forgot", "verify", "resetByCode", "reset", "idle"}
CodePlaces ==
    {"idle", "generate", "read", "writeBack", "consume", "previous", "storeToken", "readToken",
     "dropToken", "save", "invalidate"}

CodeRecords ==
    [op : CodeOps, at : CodePlaces, guess : Nat, entry : CodeEntries, token : Nat]

(* A request in a slot, when g codes and t reset tokens were issued.       *)
CodeRequestOK(r, g, t) ==
    /\ r \in CodeRecords
    /\ (r.op = "idle") <=> (r.at = "idle")
    /\ r.guess <= g /\ r.token <= t

CodeSteady == ~codeMet /\ ~codeChanged

CodeShapes ==
    /\ codeUp \in BOOLEAN /\ codeChanged \in BOOLEAN /\ codeMet \in BOOLEAN
    /\ codeGenerated \in Nat /\ codeExchanged \in Nat
    /\ codeInRedis \in CodeEntries /\ codeInMemory \in CodeEntries
    /\ codeWrong \in [Recovery!Codes -> Nat] /\ codeAccepted \in [Recovery!Codes -> Nat]
    /\ codeSpent \in [Recovery!Tokens -> Nat]
    /\ codeDead \subseteq 1..codeGenerated /\ codeResetTokens \subseteq 1..codeExchanged
    /\ DOMAIN codeRequest = Slots
    /\ \A s \in Slots : CodeRequestOK(codeRequest[s], codeGenerated, codeExchanged)
    /\ \A c \in Recovery!Codes :
          c > codeGenerated => codeWrong[c] = 0 /\ codeAccepted[c] = 0
    /\ \A t \in Recovery!Tokens : t > codeExchanged => codeSpent[t] = 0

(* The store that is used.                                                 *)
CodeStore == IF codeUp THEN codeInRedis ELSE codeInMemory

CodeHome ==
    ~codeChanged =>
        /\ codeUp => codeInMemory = Recovery!NoEntry
        /\ ~codeUp => /\ codeInRedis = Recovery!NoEntry /\ codeResetTokens = {}
                      /\ \A s \in Slots : codeRequest[s].at # "writeBack"

CodeCounted ==
    ~codeChanged /\ (~codeMet \/ ~codeUp) =>
        /\ CodeStore # Recovery!NoEntry =>
              /\ CodeStore.otp = codeGenerated /\ codeGenerated \in Recovery!Codes
              /\ CodeStore.attempts = codeWrong[codeGenerated]
        /\ \A c \in Recovery!Codes : codeWrong[c] <= MaxAttempts

(* What a request relies on between its awaits.                            *)
CodeHolds(r) ==
    /\ r.at = "writeBack" =>
          /\ codeUp /\ codeInRedis # Recovery!NoEntry /\ codeInRedis.attempts < MaxAttempts
          /\ r.entry.otp = codeInRedis.otp /\ r.entry.attempts = codeInRedis.attempts + 1
    /\ r.at = "consume" => CodeStore # Recovery!NoEntry /\ r.guess = codeGenerated
    /\ r.at = "storeToken" => codeResetTokens = {}
    /\ r.at = "dropToken" => r.token \in codeResetTokens

CodeAlone ==
    CodeSteady =>
        /\ \A s, x \in Slots : Recovery!Busy(s) /\ Recovery!Busy(x) => s = x
        /\ \A s \in Slots : CodeHolds(codeRequest[s])

CodeUnused ==
    CodeSteady =>
        /\ \A c \in Recovery!Codes : codeAccepted[c] <= 1
        /\ \A t \in Recovery!Tokens : codeSpent[t] <= 1
        /\ CodeStore # Recovery!NoEntry =>
              codeAccepted[codeGenerated] = 0 /\ codeGenerated \notin codeDead
        /\ \A t \in Recovery!Tokens : t \in codeResetTokens => codeSpent[t] = 0
        /\ codeResetTokens \subseteq {codePointer} \ {Recovery!None}

CodeIInv == CodeShapes /\ CodeHome /\ CodeCounted /\ CodeAlone /\ CodeUnused

-----------------------------------------------------------------------------
(* The entry of a code is one.                                             *)
LEMMA CodeEntry ==
    ASSUME NEW otp \in Nat, NEW attempts \in Nat
    PROVE  /\ Recovery!Entry(otp, attempts) \in CodeEntries
           /\ Recovery!Entry(otp, attempts).otp = otp
           /\ Recovery!Entry(otp, attempts).attempts = attempts
           /\ otp # 0 => Recovery!Entry(otp, attempts) # Recovery!NoEntry
BY DEF Recovery!Entry, Recovery!NoEntry, Recovery!None, CodeEntries

(* An idle request is one whatever was issued.                             *)
LEMMA CodeIdle ==
    ASSUME NEW g \in Nat, NEW t \in Nat
    PROVE  /\ CodeRequestOK(Recovery!Idle, g, t) /\ CodeHolds(Recovery!Idle)
           /\ Recovery!Idle.op = "idle" /\ Recovery!Idle.at = "idle"
           /\ Recovery!Idle.guess = 0 /\ Recovery!Idle.token = 0
BY DEF Recovery!Idle, Recovery!NoEntry, Recovery!None, CodeRequestOK, CodeRecords, CodeHolds, CodeOps,
   CodePlaces, CodeEntries

(* The request of one slot moves, the others stay.                         *)
LEMMA CodeMoves ==
    ASSUME CodeShapes, NEW s \in Slots, NEW r, codeRequest' = [codeRequest EXCEPT ![s] = r],
           codeGenerated' \in Nat, codeExchanged' \in Nat,
           codeGenerated' >= codeGenerated, codeExchanged' >= codeExchanged,
           CodeRequestOK(r, codeGenerated', codeExchanged')
    PROVE  /\ DOMAIN codeRequest' = Slots /\ codeRequest'[s] = r
           /\ \A x \in Slots \ {s} : codeRequest'[x] = codeRequest[x]
           /\ \A x \in Slots : CodeRequestOK(codeRequest'[x], codeGenerated', codeExchanged')
<1>1. /\ DOMAIN codeRequest' = Slots /\ codeRequest'[s] = r
      /\ \A x \in Slots \ {s} : codeRequest'[x] = codeRequest[x]
  BY DEF CodeShapes
<1>2. ASSUME NEW x \in Slots \ {s} PROVE CodeRequestOK(codeRequest'[x], codeGenerated', codeExchanged')
  <2>1. CodeRequestOK(codeRequest[x], codeGenerated, codeExchanged)
    BY DEF CodeShapes
  <2>2. codeRequest[x].guess \in Nat /\ codeRequest[x].token \in Nat
        /\ codeGenerated \in Nat /\ codeExchanged \in Nat
    BY <2>1 DEF CodeRequestOK, CodeRecords, CodeShapes
  <2>. QED  BY <1>1, <2>1, <2>2 DEF CodeRequestOK
<1>. QED  BY <1>1, <1>2

(* While requests do not overlap the others are idle when one goes on.     *)
LEMMA CodeOthersIdle ==
    ASSUME CodeIInv, CodeSteady, NEW s \in Slots, codeRequest[s].at # "idle",
           NEW x \in Slots \ {s}
    PROVE  codeRequest[x].op = "idle" /\ codeRequest[x].at = "idle"
<1>1. CodeRequestOK(codeRequest[s], codeGenerated, codeExchanged)
      /\ CodeRequestOK(codeRequest[x], codeGenerated, codeExchanged)
  BY DEF CodeIInv, CodeShapes
<1>2. Recovery!Busy(s)
  BY <1>1 DEF CodeRequestOK, Recovery!Busy
<1>3. ~Recovery!Busy(x)
  BY <1>2 DEF CodeIInv, CodeAlone
<1>. QED  BY <1>1, <1>3 DEF CodeRequestOK, Recovery!Busy

(* The request of a slot goes on to r: what is left to show.               *)
CodeGoesOn(s, r) ==
    /\ codeRequest[s].at # "idle" /\ codeRequest' = [codeRequest EXCEPT ![s] = r]
    /\ CodeRequestOK(r, codeGenerated', codeExchanged')
    /\ UNCHANGED <<codeUp, codeChanged, codeMet>>

(* Then the others are as they were, and idle while requests do not        *)
(* overlap.                                                                *)
LEMMA CodeGoesOnAlone ==
    ASSUME CodeIInv, NEW s \in Slots, NEW r, CodeGoesOn(s, r),
           codeGenerated' \in Nat, codeExchanged' \in Nat,
           codeGenerated' >= codeGenerated, codeExchanged' >= codeExchanged,
           CodeSteady => CodeHolds(r)',
           ~codeChanged /\ ~codeUp => r.at # "writeBack"
    PROVE  /\ DOMAIN codeRequest' = Slots /\ codeRequest'[s] = r
           /\ \A x \in Slots \ {s} : codeRequest'[x] = codeRequest[x]
           /\ \A x \in Slots : CodeRequestOK(codeRequest'[x], codeGenerated', codeExchanged')
           /\ ~codeChanged /\ ~codeUp => \A x \in Slots : codeRequest'[x].at # "writeBack"
           /\ CodeAlone'
<1>1. /\ DOMAIN codeRequest' = Slots /\ codeRequest'[s] = r
      /\ \A x \in Slots \ {s} : codeRequest'[x] = codeRequest[x]
      /\ \A x \in Slots : CodeRequestOK(codeRequest'[x], codeGenerated', codeExchanged')
  BY CodeMoves DEF CodeIInv, CodeGoesOn
<1>2. ~codeChanged /\ ~codeUp => \A x \in Slots : codeRequest'[x].at # "writeBack"
  BY <1>1 DEF CodeIInv, CodeHome
<1>3. CodeAlone'
  <2>. SUFFICES ASSUME CodeSteady
                PROVE  /\ \A x, y \in Slots : Recovery!Busy(x)' /\ Recovery!Busy(y)' => x = y
                       /\ \A x \in Slots : CodeHolds(codeRequest[x])'
    BY DEF CodeGoesOn, CodeSteady, CodeAlone
  <2>1. \A x \in Slots \ {s} : codeRequest'[x].op = "idle" /\ codeRequest'[x].at = "idle"
    BY <1>1, CodeOthersIdle DEF CodeGoesOn
  <2>2. \A x \in Slots \ {s} : ~Recovery!Busy(x)' /\ CodeHolds(codeRequest[x])'
    BY <2>1 DEF Recovery!Busy, CodeHolds
  <2>3. CodeHolds(codeRequest[s])'
    BY <1>1 DEF CodeHolds
  <2>. QED  BY <2>2, <2>3
<1>. QED  BY <1>1, <1>2, <1>3

(* A request that waits goes on to another place.                          *)
LEMMA CodeGoto ==
    ASSUME CodeShapes, NEW s \in Slots, NEW place \in CodePlaces \ {"idle"},
           codeRequest[s].at # "idle", Recovery!Goto(s, place)
    PROVE  \E r : /\ codeRequest' = [codeRequest EXCEPT ![s] = r]
                  /\ CodeRequestOK(r, codeGenerated, codeExchanged) /\ r.at = place
                  /\ r.guess = codeRequest[s].guess /\ r.token = codeRequest[s].token
<1>. DEFINE r == [codeRequest[s] EXCEPT !.at = place]
<1>1. codeRequest' = [codeRequest EXCEPT ![s] = r]
  BY DEF Recovery!Goto
<1>2. CodeRequestOK(codeRequest[s], codeGenerated, codeExchanged)
  BY DEF CodeShapes
<1>3. /\ CodeRequestOK(r, codeGenerated, codeExchanged) /\ r.at = place
      /\ r.guess = codeRequest[s].guess /\ r.token = codeRequest[s].token
  BY <1>2 DEF CodeRequestOK, CodeRecords
<1>. QED  BY <1>1, <1>3

(* A step that moves a request and no data.                                *)
LEMMA CodeDataKept ==
    ASSUME CodeIInv, NEW s \in Slots, NEW r, codeRequest[s].at # "idle",
           codeRequest' = [codeRequest EXCEPT ![s] = r],
           CodeRequestOK(r, codeGenerated, codeExchanged),
           CodeSteady => CodeHolds(r), ~codeChanged /\ ~codeUp => r.at # "writeBack",
           UNCHANGED <<codeUp, codeChanged, codeInRedis, codeInMemory, codeGenerated,
                       codeResetTokens, codePointer, codeExchanged, codeMet, codeAccepted,
                       codeWrong, codeSpent, codeDead>>
    PROVE  CodeIInv'
<1>1. codeGenerated \in Nat /\ codeExchanged \in Nat
  BY DEF CodeIInv, CodeShapes
<1>2. CodeGoesOn(s, r)
  BY DEF CodeGoesOn
<1>3. CodeSteady => CodeHolds(r)'
  BY DEF CodeHolds, CodeStore
<1>4. /\ DOMAIN codeRequest' = Slots /\ CodeAlone'
      /\ \A x \in Slots : CodeRequestOK(codeRequest'[x], codeGenerated', codeExchanged')
      /\ ~codeChanged /\ ~codeUp => \A x \in Slots : codeRequest'[x].at # "writeBack"
  BY <1>1, <1>2, <1>3, CodeGoesOnAlone
<1>5. CodeShapes'
  BY <1>4 DEF CodeIInv, CodeShapes
<1>6. CodeHome' /\ CodeCounted' /\ CodeUnused'
  BY <1>4 DEF CodeIInv, CodeHome, CodeCounted, CodeUnused, CodeSteady, CodeStore
<1>. QED  BY <1>4, <1>5, <1>6 DEF CodeIInv

(* A request begins.                                                       *)
LEMMA CodeBegins ==
    ASSUME CodeIInv, NEW s \in Slots, NEW r, Recovery!Begin(s, r),
           CodeRequestOK(r, codeGenerated, codeExchanged),
           r.at \in {"generate", "read", "readToken"},
           UNCHANGED <<codeUp, codeChanged, codeInRedis, codeInMemory, codeGenerated,
                       codeResetTokens, codePointer, codeExchanged, codeAccepted,
                       codeWrong, codeSpent, codeDead>>
    PROVE  CodeIInv'
<1>1. /\ codeRequest' = [codeRequest EXCEPT ![s] = r]
      /\ codeMet' = (codeMet \/ \E x \in Slots : Recovery!Busy(x))
  BY DEF Recovery!Begin
<1>2. codeGenerated \in Nat /\ codeExchanged \in Nat /\ codeMet \in BOOLEAN /\ codeMet' \in BOOLEAN
  BY <1>1 DEF CodeIInv, CodeShapes, Recovery!Busy
<1>3. /\ DOMAIN codeRequest' = Slots /\ codeRequest'[s] = r
      /\ \A x \in Slots \ {s} : codeRequest'[x] = codeRequest[x]
      /\ \A x \in Slots : CodeRequestOK(codeRequest'[x], codeGenerated', codeExchanged')
  <2>1. /\ codeGenerated' \in Nat /\ codeExchanged' \in Nat
        /\ codeGenerated' >= codeGenerated /\ codeExchanged' >= codeExchanged
        /\ CodeRequestOK(r, codeGenerated', codeExchanged')
    BY <1>2
  <2>. QED  BY <1>1, <2>1, CodeMoves DEF CodeIInv
<1>4. CodeShapes'
  BY <1>2, <1>3 DEF CodeIInv, CodeShapes
<1>5. codeMet => codeMet'
  BY <1>1
<1>6. CodeHome' /\ CodeCounted' /\ CodeUnused'
  BY <1>2, <1>3, <1>5 DEF CodeIInv, CodeHome, CodeCounted, CodeUnused, CodeSteady, CodeStore
<1>7. CodeAlone'
  <2>. SUFFICES ASSUME ~codeMet', ~codeChanged
                PROVE  /\ \A x, y \in Slots : Recovery!Busy(x)' /\ Recovery!Busy(y)' => x = y
                       /\ \A x \in Slots : CodeHolds(codeRequest[x])'
    BY DEF CodeSteady, CodeAlone
  <2>1. \A x \in Slots : codeRequest[x].op = "idle"
    BY <1>1 DEF Recovery!Busy
  <2>2. \A x \in Slots : codeRequest[x].at = "idle"
    BY <2>1 DEF CodeIInv, CodeShapes, CodeRequestOK
  <2>3. \A x \in Slots \ {s} : codeRequest'[x].op = "idle" /\ codeRequest'[x].at = "idle"
    BY <1>3, <2>1, <2>2
  <2>4. \A x \in Slots : CodeHolds(codeRequest[x])'
    BY <1>3, <2>3 DEF CodeHolds
  <2>. QED  BY <2>3, <2>4 DEF Recovery!Busy
<1>. QED  BY <1>4, <1>6, <1>7 DEF CodeIInv

(* The record of an idle request.                                          *)
LEMMA CodeIdleRecord == Recovery!Idle \in CodeRecords
<1>1. Recovery!NoEntry \in CodeEntries
  BY DEF Recovery!NoEntry, Recovery!None, CodeEntries
<1>. QED  BY <1>1 DEF Recovery!Idle, Recovery!None, CodeRecords, CodeOps, CodePlaces

(* forgotPassword, verifyPasswordResetOtp and resetPassword begin.         *)
LEMMA CodeStartStep ==
    ASSUME CodeIInv, NEW s \in Slots,
           Recovery!StartForgot(s) \/ Recovery!StartVerify(s) \/ Recovery!StartReset(s)
    PROVE  CodeIInv'
<1>1. codeGenerated \in Nat /\ codeExchanged \in Nat
  BY DEF CodeIInv, CodeShapes
<1>2. PICK r : /\ Recovery!Begin(s, r) /\ CodeRequestOK(r, codeGenerated, codeExchanged)
               /\ r.at \in {"generate", "read", "readToken"}
  <2>1. CASE Recovery!StartForgot(s)
    <3>. DEFINE r == [Recovery!Idle EXCEPT !.op = "forgot", !.at = "generate"]
    <3>1. CodeRequestOK(r, codeGenerated, codeExchanged) /\ r.at = "generate"
      <4>. "forgot" \in CodeOps /\ "generate" \in CodePlaces /\ 0 \in Nat
        BY <1>1 DEF CodeOps, CodePlaces
      <4>1. r \in CodeRecords
        BY CodeIdleRecord DEF CodeRecords
      <4>2. r.op = "forgot" /\ r.at = "generate" /\ r.guess = 0 /\ r.token = 0
        BY DEF Recovery!Idle, Recovery!None
      <4>. HIDE DEF r
      <4>. QED  BY <1>1, <4>1, <4>2 DEF CodeRequestOK
    <3>. QED  BY <2>1, <3>1 DEF Recovery!StartForgot
  <2>2. CASE Recovery!StartVerify(s)
    <3>1. PICK guess \in 0 .. codeGenerated, op \in {"verify", "resetByCode"} :
              Recovery!Begin(s, [Recovery!Idle EXCEPT !.op = op, !.at = "read", !.guess = guess])
      BY <2>2 DEF Recovery!StartVerify
    <3>. DEFINE r == [Recovery!Idle EXCEPT !.op = op, !.at = "read", !.guess = guess]
    <3>2. CodeRequestOK(r, codeGenerated, codeExchanged) /\ r.at = "read"
      <4>. op \in CodeOps /\ "read" \in CodePlaces /\ guess \in Nat
        BY <1>1 DEF CodeOps, CodePlaces
      <4>1. r \in CodeRecords
        BY CodeIdleRecord DEF CodeRecords
      <4>2. r.op = op /\ r.at = "read" /\ r.guess = guess /\ r.token = 0
        BY DEF Recovery!Idle, Recovery!None
      <4>. HIDE DEF r
      <4>. QED  BY <1>1, <4>1, <4>2 DEF CodeRequestOK
    <3>. QED  BY <3>1, <3>2
  <2>3. CASE Recovery!StartReset(s)
    <3>1. PICK t \in 1 .. codeExchanged :
              Recovery!Begin(s, [Recovery!Idle EXCEPT !.op = "reset", !.at = "readToken", !.token = t])
      BY <2>3 DEF Recovery!StartReset
    <3>. DEFINE r == [Recovery!Idle EXCEPT !.op = "reset", !.at = "readToken", !.token = t]
    <3>2. CodeRequestOK(r, codeGenerated, codeExchanged) /\ r.at = "readToken"
      <4>. "reset" \in CodeOps /\ "readToken" \in CodePlaces /\ t \in Nat
        BY <1>1 DEF CodeOps, CodePlaces
      <4>1. r \in CodeRecords
        BY CodeIdleRecord DEF CodeRecords
      <4>2. r.op = "reset" /\ r.at = "readToken" /\ r.guess = 0 /\ r.token = t
        BY DEF Recovery!Idle, Recovery!None
      <4>. HIDE DEF r
      <4>. QED  BY <1>1, <4>1, <4>2 DEF CodeRequestOK
    <3>. QED  BY <3>1, <3>2
  <2>. QED  BY <2>1, <2>2, <2>3
<1>3. UNCHANGED <<codeUp, codeChanged, codeInRedis, codeInMemory, codeGenerated,
                  codeResetTokens, codePointer, codeExchanged, codeAccepted,
                  codeWrong, codeSpent, codeDead>>
  BY DEF Recovery!StartForgot, Recovery!StartVerify, Recovery!StartReset, Recovery!connection,
     Recovery!codes, Recovery!tokens, Recovery!history
<1>. QED  BY <1>2, <1>3, CodeBegins

(* An entry is not found, a code is right, a reset token is read and the   *)
(* password is saved: the request moves, and no data.                      *)
LEMMA CodeReadStep ==
    ASSUME CodeIInv, NEW s \in Slots,
           \/ Recovery!NotFound(s) \/ Recovery!RightCode(s)
           \/ Recovery!ReadResetToken(s) \/ Recovery!SaveNewPassword(s)
    PROVE  CodeIInv'
<1>1. codeRequest[s].at # "idle" /\ codeGenerated \in Nat /\ codeExchanged \in Nat
  BY DEF CodeIInv, CodeShapes, Recovery!NotFound, Recovery!RightCode, Recovery!ReadResetToken,
     Recovery!SaveNewPassword, Recovery!At
<1>2. UNCHANGED <<codeUp, codeChanged, codeInRedis, codeInMemory, codeGenerated,
                  codeResetTokens, codePointer, codeExchanged, codeMet, codeAccepted,
                  codeWrong, codeSpent, codeDead>>
  BY DEF Recovery!NotFound, Recovery!RightCode, Recovery!ReadResetToken, Recovery!SaveNewPassword,
     Recovery!connection, Recovery!codes, Recovery!tokens, Recovery!history
<1>3. CASE Recovery!Done(s)
  <2>1. codeRequest' = [codeRequest EXCEPT ![s] = Recovery!Idle]
    BY <1>3 DEF Recovery!Done
  <2>2. PICK r : r = Recovery!Idle
    OBVIOUS
  <2>3. /\ codeRequest' = [codeRequest EXCEPT ![s] = r] /\ r.at # "writeBack"
        /\ CodeRequestOK(r, codeGenerated, codeExchanged) /\ CodeHolds(r)
    BY <1>1, <2>1, <2>2, CodeIdle
  <2>. QED  BY <1>1, <1>2, <2>3, CodeDataKept
<1>4. CASE Recovery!RightCode(s)
  <2>1. Recovery!Goto(s, "consume") /\ "consume" \in CodePlaces \ {"idle"}
    BY <1>4 DEF Recovery!RightCode, CodePlaces
  <2>2. PICK r : /\ codeRequest' = [codeRequest EXCEPT ![s] = r]
                 /\ CodeRequestOK(r, codeGenerated, codeExchanged) /\ r.at = "consume"
                 /\ r.guess = codeRequest[s].guess
    BY <1>1, <2>1, CodeGoto DEF CodeIInv
  <2>3. CodeSteady => CodeStore # Recovery!NoEntry /\ CodeStore.otp = codeRequest[s].guess
    BY <1>4 DEF Recovery!RightCode, Recovery!Found, CodeIInv, CodeHome, CodeSteady, CodeStore
  <2>4. CodeSteady => CodeHolds(r)
    BY <2>2, <2>3 DEF CodeHolds, CodeIInv, CodeCounted, CodeSteady
  <2>. QED  BY <1>1, <1>2, <2>2, <2>4, CodeDataKept
<1>5. CASE Recovery!ReadResetToken(s) /\ ~Recovery!Done(s)
  <2>1. Recovery!Goto(s, "dropToken") /\ "dropToken" \in CodePlaces \ {"idle"}
        /\ codeRequest[s].token \in codeResetTokens
    BY <1>5 DEF Recovery!ReadResetToken, Recovery!RedisGet, CodePlaces
  <2>2. PICK r : /\ codeRequest' = [codeRequest EXCEPT ![s] = r]
                 /\ CodeRequestOK(r, codeGenerated, codeExchanged) /\ r.at = "dropToken"
                 /\ r.token = codeRequest[s].token
    BY <1>1, <2>1, CodeGoto DEF CodeIInv
  <2>3. CodeHolds(r)
    BY <2>1, <2>2 DEF CodeHolds
  <2>. QED  BY <1>1, <1>2, <2>2, <2>3, CodeDataKept
<1>6. CASE Recovery!SaveNewPassword(s) /\ ~Recovery!Done(s)
  <2>1. Recovery!Goto(s, "invalidate") /\ "invalidate" \in CodePlaces \ {"idle"}
    BY <1>6 DEF Recovery!SaveNewPassword, CodePlaces
  <2>2. PICK r : /\ codeRequest' = [codeRequest EXCEPT ![s] = r]
                 /\ CodeRequestOK(r, codeGenerated, codeExchanged) /\ r.at = "invalidate"
    BY <1>1, <2>1, CodeGoto DEF CodeIInv
  <2>3. CodeHolds(r)
    BY <2>2 DEF CodeHolds
  <2>. QED  BY <1>1, <1>2, <2>2, <2>3, CodeDataKept
<1>. QED  BY <1>3, <1>4, <1>5, <1>6 DEF Recovery!NotFound

-----------------------------------------------------------------------------
(* A request ends and the used store changes, or is emptied: what such a   *)
(* step of the codes has to show.                                          *)
LEMMA CodeStoreStep ==
    ASSUME CodeIInv, NEW s \in Slots, NEW r, codeRequest[s].at # "idle",
           codeRequest' = [codeRequest EXCEPT ![s] = r],
           CodeRequestOK(r, codeGenerated, codeExchanged),
           r.at \in {"idle", "previous", "save"},
           UNCHANGED <<codeUp, codeChanged, codeGenerated, codeResetTokens, codePointer,
                       codeExchanged, codeMet, codeSpent>>,
           codeInRedis' \in CodeEntries, codeInMemory' \in CodeEntries,
           codeUp => codeInMemory' \in {codeInMemory, Recovery!NoEntry},
           ~codeUp => codeInRedis' \in {codeInRedis, Recovery!NoEntry},
           codeWrong' \in [Recovery!Codes -> Nat], codeAccepted' \in [Recovery!Codes -> Nat],
           \A c \in Recovery!Codes :
               c > codeGenerated => codeWrong'[c] = 0 /\ codeAccepted'[c] = 0,
           codeDead' \subseteq 1..codeGenerated,
           CodeCounted',
           CodeSteady =>
               /\ \A c \in Recovery!Codes : codeAccepted'[c] <= 1
               /\ CodeStore' # Recovery!NoEntry =>
                     codeAccepted'[codeGenerated] = 0 /\ codeGenerated \notin codeDead'
    PROVE  CodeIInv'
<1>1. codeGenerated \in Nat /\ codeExchanged \in Nat
  BY DEF CodeIInv, CodeShapes
<1>2. /\ CodeGoesOn(s, r) /\ codeGenerated' \in Nat /\ codeExchanged' \in Nat
      /\ codeGenerated' >= codeGenerated /\ codeExchanged' >= codeExchanged
  BY <1>1 DEF CodeGoesOn
<1>3. CodeSteady => CodeHolds(r)'
  BY DEF CodeHolds
<1>4. r.at # "writeBack"
  OBVIOUS
<1>5. /\ DOMAIN codeRequest' = Slots /\ CodeAlone'
      /\ \A x \in Slots : CodeRequestOK(codeRequest'[x], codeGenerated', codeExchanged')
      /\ ~codeChanged /\ ~codeUp => \A x \in Slots : codeRequest'[x].at # "writeBack"
  BY <1>2, <1>3, <1>4, CodeGoesOnAlone
<1>6. CodeShapes'
  BY <1>5 DEF CodeIInv, CodeShapes
<1>7. CodeHome'
  BY <1>5 DEF CodeIInv, CodeHome
<1>8. CodeUnused'
  BY DEF CodeIInv, CodeUnused, CodeSteady
<1>. QED  BY <1>5, <1>6, <1>7, <1>8 DEF CodeIInv

(* The entries of a store are emptied: too many attempts were made, or the *)
(* reset is done.                                                          *)
LEMMA CodeEmptiedStep ==
    ASSUME CodeIInv, NEW s \in Slots, Recovery!TooMany(s) \/ Recovery!Invalidate(s)
    PROVE  CodeIInv'
<1>1. /\ codeRequest[s].at # "idle" /\ codeRequest' = [codeRequest EXCEPT ![s] = Recovery!Idle]
      /\ codeInMemory' = Recovery!NoEntry
      /\ codeInRedis' = (IF codeUp THEN Recovery!NoEntry ELSE codeInRedis)
      /\ codeDead' \in {codeDead, codeDead \cup 1..codeGenerated}
      /\ UNCHANGED <<codeUp, codeChanged, codeGenerated, codeResetTokens, codePointer,
                     codeExchanged, codeMet, codeSpent, codeWrong, codeAccepted>>
  BY DEF Recovery!TooMany, Recovery!Invalidate, Recovery!At, Recovery!Done, Recovery!connection,
     Recovery!tokens, Recovery!history
<1>2. PICK r : r = Recovery!Idle
  OBVIOUS
<1>3. codeGenerated \in Nat /\ codeExchanged \in Nat
  BY DEF CodeIInv, CodeShapes
<1>4. /\ codeRequest' = [codeRequest EXCEPT ![s] = r] /\ r.at \in {"idle", "previous", "save"}
      /\ CodeRequestOK(r, codeGenerated, codeExchanged)
  BY <1>1, <1>2, <1>3, CodeIdle
<1>5. Recovery!NoEntry \in CodeEntries
  BY DEF Recovery!NoEntry, Recovery!None, CodeEntries
<1>6. /\ codeInRedis' \in CodeEntries /\ codeInMemory' \in CodeEntries
      /\ codeUp => codeInMemory' \in {codeInMemory, Recovery!NoEntry}
      /\ ~codeUp => codeInRedis' \in {codeInRedis, Recovery!NoEntry}
      /\ codeWrong' \in [Recovery!Codes -> Nat] /\ codeAccepted' \in [Recovery!Codes -> Nat]
      /\ codeDead' \subseteq 1..codeGenerated
      /\ \A c \in Recovery!Codes :
            c > codeGenerated => codeWrong'[c] = 0 /\ codeAccepted'[c] = 0
  BY <1>1, <1>5 DEF CodeIInv, CodeShapes
<1>7. CodeStore' = Recovery!NoEntry
  BY <1>1 DEF CodeStore
<1>8. CodeCounted'
  BY <1>1, <1>7 DEF CodeIInv, CodeCounted
<1>9. CodeSteady =>
          /\ \A c \in Recovery!Codes : codeAccepted'[c] <= 1
          /\ CodeStore' # Recovery!NoEntry =>
                codeAccepted'[codeGenerated] = 0 /\ codeGenerated \notin codeDead'
  BY <1>1, <1>7 DEF CodeIInv, CodeUnused
<1>. QED  BY <1>1, <1>4, <1>6, <1>8, <1>9, CodeStoreStep

(* A count goes up by one: of what in S, and to what.                      *)
CodeUpped(f, x) == [f EXCEPT ![x] = f[x] + 1]
CodeCountOK(g, f, S, x) ==
    /\ g \in [S -> Nat]
    /\ \A c \in S : g[c] = (IF c = x THEN f[c] + 1 ELSE f[c])

(* It is a count still.                                                    *)
LEMMA CodeCountUp ==
    ASSUME NEW S, NEW f, f \in [S -> Nat], NEW x
    PROVE  CodeCountOK(CodeUpped(f, x), f, S, x)
<1>1. CASE x \in S
  <2>1. f[x] + 1 \in Nat
    BY <1>1
  <2>. QED  BY <1>1, <2>1 DEF CodeUpped, CodeCountOK
<1>2. CASE x \notin S
  <2>1. CodeUpped(f, x) = f
    BY <1>2 DEF CodeUpped
  <2>. QED  BY <1>2, <2>1 DEF CodeCountOK
<1>. QED  BY <1>1, <1>2

(* The newest code has one wrong guess more.                               *)
LEMMA CodeWrongCounted ==
    ASSUME CodeShapes, Recovery!CountWrong
    PROVE  /\ codeWrong' \in [Recovery!Codes -> Nat]
           /\ \A c \in Recovery!Codes :
                 codeWrong'[c] = (IF c = codeGenerated THEN codeWrong[c] + 1 ELSE codeWrong[c])
<1>1. codeWrong' = CodeUpped(codeWrong, codeGenerated) /\ codeWrong \in [Recovery!Codes -> Nat]
  BY DEF CodeShapes, Recovery!CountWrong, CodeUpped
<1>2. CodeCountOK(codeWrong', codeWrong, Recovery!Codes, codeGenerated)
  BY <1>1, CodeCountUp
<1>. QED  BY <1>2 DEF CodeCountOK

(* A wrong guess at the code in memory.                                    *)
LEMMA CodeWrongInMemoryStep ==
    ASSUME CodeIInv, MaxAttempts \in Nat, NEW s \in Slots, Recovery!WrongInMemory(s)
    PROVE  CodeIInv'
<1>1. /\ codeRequest[s].at # "idle" /\ codeRequest' = [codeRequest EXCEPT ![s] = Recovery!Idle]
      /\ codeInMemory # Recovery!NoEntry /\ codeInMemory.attempts < MaxAttempts
      /\ codeInMemory' = [codeInMemory EXCEPT !.attempts = @ + 1] /\ Recovery!CountWrong
      /\ UNCHANGED <<codeUp, codeChanged, codeInRedis, codeGenerated, codeResetTokens, codePointer,
                     codeExchanged, codeMet, codeSpent, codeAccepted, codeDead>>
  BY DEF Recovery!WrongInMemory, Recovery!At, Recovery!Done, Recovery!connection, Recovery!Found,
     Recovery!FromMemory, Recovery!tokens
<1>2. PICK r : r = Recovery!Idle
  OBVIOUS
<1>3. codeGenerated \in Nat /\ codeExchanged \in Nat /\ codeInMemory \in CodeEntries
  BY DEF CodeIInv, CodeShapes
<1>4. /\ codeRequest' = [codeRequest EXCEPT ![s] = r] /\ r.at \in {"idle", "previous", "save"}
      /\ CodeRequestOK(r, codeGenerated, codeExchanged)
  BY <1>1, <1>2, <1>3, CodeIdle
<1>5. /\ codeInMemory' \in CodeEntries /\ codeInMemory'.otp = codeInMemory.otp
      /\ codeInMemory'.attempts = codeInMemory.attempts + 1 /\ codeInMemory.attempts \in Nat
      /\ codeInMemory'.attempts \in Nat
  BY <1>1, <1>3 DEF CodeEntries
<1>6. /\ codeWrong' \in [Recovery!Codes -> Nat]
      /\ \A c \in Recovery!Codes :
            codeWrong'[c] = (IF c = codeGenerated THEN codeWrong[c] + 1 ELSE codeWrong[c])
  BY <1>1, CodeWrongCounted DEF CodeIInv
<1>7. \A c \in Recovery!Codes : c \in Nat /\ codeWrong[c] \in Nat
  BY DEF CodeIInv, CodeShapes, Recovery!Codes
<1>8. CASE ~codeChanged
  <2>1. ~codeUp
    BY <1>1, <1>8 DEF CodeIInv, CodeHome
  <2>2. /\ codeInMemory.otp = codeGenerated /\ codeGenerated \in Recovery!Codes
        /\ codeInMemory.attempts = codeWrong[codeGenerated]
        /\ \A c \in Recovery!Codes : codeWrong[c] <= MaxAttempts
    BY <1>1, <1>8, <2>1 DEF CodeIInv, CodeCounted, CodeStore
  <2>3. \A c \in Recovery!Codes : codeWrong'[c] <= MaxAttempts
    BY <1>1, <1>5, <1>6, <1>7, <2>2
  <2>4. CodeStore = codeInMemory /\ CodeStore' = codeInMemory'
    BY <1>1, <2>1 DEF CodeStore
  <2>5. CodeCounted'
    BY <1>1, <1>5, <1>6, <2>2, <2>3, <2>4 DEF CodeCounted
  <2>6. CodeSteady =>
          /\ \A c \in Recovery!Codes : codeAccepted'[c] <= 1
          /\ CodeStore' # Recovery!NoEntry =>
                codeAccepted'[codeGenerated] = 0 /\ codeGenerated \notin codeDead'
    BY <1>1, <2>4 DEF CodeIInv, CodeUnused
  <2>7. /\ codeInRedis' \in CodeEntries
        /\ ~codeUp => codeInRedis' \in {codeInRedis, Recovery!NoEntry}
        /\ codeUp => codeInMemory' \in {codeInMemory, Recovery!NoEntry}
        /\ codeAccepted' \in [Recovery!Codes -> Nat] /\ codeDead' \subseteq 1..codeGenerated
        /\ \A c \in Recovery!Codes :
              c > codeGenerated => codeWrong'[c] = 0 /\ codeAccepted'[c] = 0
    BY <1>1, <1>6, <1>3, <1>7, <2>1 DEF CodeIInv, CodeShapes
  <2>. QED  BY <1>1, <1>4, <1>5, <1>6, <2>5, <2>6, <2>7, CodeStoreStep
<1>9. CASE codeChanged
  <2>1. /\ DOMAIN codeRequest' = Slots
        /\ \A x \in Slots : CodeRequestOK(codeRequest'[x], codeGenerated', codeExchanged')
    <3>1. /\ codeGenerated' \in Nat /\ codeExchanged' \in Nat
          /\ codeGenerated' >= codeGenerated /\ codeExchanged' >= codeExchanged
          /\ CodeRequestOK(r, codeGenerated', codeExchanged')
      BY <1>1, <1>3, <1>4
    <3>. QED  BY <1>4, <3>1, CodeMoves DEF CodeIInv
  <2>2. CodeShapes'
    BY <1>1, <1>3, <1>5, <1>6, <1>7, <2>1 DEF CodeIInv, CodeShapes
  <2>. QED  BY <1>1, <1>9, <2>2
       DEF CodeIInv, CodeHome, CodeCounted, CodeAlone, CodeUnused, CodeSteady
<1>. QED  BY <1>8, <1>9 DEF CodeIInv, CodeShapes

(* A wrong guess at the code in Redis: the entry to write back is kept.    *)
LEMMA CodeWrongInRedisStep ==
    ASSUME CodeIInv, NEW s \in Slots, Recovery!WrongInRedis(s)
    PROVE  CodeIInv'
<1>. DEFINE e == [codeInRedis EXCEPT !.attempts = @ + 1]
            r0 == [codeRequest[s] EXCEPT !.at = "writeBack", !.entry = e]
<1>1. /\ codeRequest[s].at = "read" /\ codeUp /\ codeInRedis # Recovery!NoEntry
      /\ codeInRedis.attempts < MaxAttempts
      /\ codeRequest' = [codeRequest EXCEPT ![s] = r0]
      /\ UNCHANGED <<codeUp, codeChanged, codeInRedis, codeInMemory, codeGenerated,
                     codeResetTokens, codePointer, codeExchanged, codeMet, codeAccepted,
                     codeWrong, codeSpent, codeDead>>
  BY DEF Recovery!WrongInRedis, Recovery!At, Recovery!connection, Recovery!Found,
     Recovery!FromMemory, Recovery!tokens, Recovery!codes, Recovery!history
<1>2. codeInRedis \in CodeEntries /\ CodeRequestOK(codeRequest[s], codeGenerated, codeExchanged)
  BY DEF CodeIInv, CodeShapes
<1>3. e \in CodeEntries /\ e.otp = codeInRedis.otp /\ e.attempts = codeInRedis.attempts + 1
  BY <1>2 DEF CodeEntries
<1>. HIDE DEF e
<1>4. r0 \in CodeRecords
  BY <1>2, <1>3 DEF CodeRequestOK, CodeRecords, CodePlaces
<1>5. /\ r0.at = "writeBack" /\ r0.op = codeRequest[s].op /\ r0.entry = e
      /\ r0.guess = codeRequest[s].guess /\ r0.token = codeRequest[s].token
  BY <1>2 DEF CodeRequestOK, CodeRecords
<1>6. CodeRequestOK(r0, codeGenerated, codeExchanged) /\ CodeHolds(r0)
  <2>. HIDE DEF r0
  <2>. QED  BY <1>1, <1>2, <1>3, <1>4, <1>5 DEF CodeRequestOK, CodeHolds
<1>7. PICK r : r = r0
  OBVIOUS
<1>. HIDE DEF r0
<1>8. /\ codeRequest' = [codeRequest EXCEPT ![s] = r] /\ CodeHolds(r)
      /\ CodeRequestOK(r, codeGenerated, codeExchanged) /\ codeRequest[s].at # "idle"
  BY <1>1, <1>6, <1>7
<1>. QED  BY <1>1, <1>8, CodeDataKept

(* The entry with one attempt more is written back.                        *)
LEMMA CodeWriteBackStep ==
    ASSUME CodeIInv, MaxAttempts \in Nat, NEW s \in Slots, Recovery!WriteBack(s)
    PROVE  CodeIInv'
<1>1. /\ codeRequest[s].at = "writeBack" /\ codeRequest' = [codeRequest EXCEPT ![s] = Recovery!Idle]
      /\ codeInRedis' = (IF codeUp THEN codeRequest[s].entry ELSE codeInRedis)
      /\ Recovery!CountWrong
      /\ UNCHANGED <<codeUp, codeChanged, codeInMemory, codeGenerated, codeResetTokens, codePointer,
                     codeExchanged, codeMet, codeSpent, codeAccepted, codeDead>>
  BY DEF Recovery!WriteBack, Recovery!At, Recovery!Done, Recovery!connection, Recovery!tokens
<1>2. PICK r : r = Recovery!Idle
  OBVIOUS
<1>3. /\ codeGenerated \in Nat /\ codeExchanged \in Nat /\ codeInRedis \in CodeEntries
      /\ codeRequest[s].entry \in CodeEntries
  BY DEF CodeIInv, CodeShapes, CodeRequestOK, CodeRecords
<1>4. /\ codeRequest' = [codeRequest EXCEPT ![s] = r] /\ r.at \in {"idle", "previous", "save"}
      /\ CodeRequestOK(r, codeGenerated, codeExchanged)
  BY <1>1, <1>2, <1>3, CodeIdle
<1>5. /\ codeWrong' \in [Recovery!Codes -> Nat]
      /\ \A c \in Recovery!Codes :
            codeWrong'[c] = (IF c = codeGenerated THEN codeWrong[c] + 1 ELSE codeWrong[c])
  BY <1>1, CodeWrongCounted DEF CodeIInv
<1>6. \A c \in Recovery!Codes : c \in Nat /\ codeWrong[c] \in Nat
  BY DEF CodeIInv, CodeShapes, Recovery!Codes
<1>7. ASSUME ~codeChanged, ~codeMet \/ ~codeUp
      PROVE  /\ codeUp /\ CodeHolds(codeRequest[s])
             /\ codeInRedis.otp = codeGenerated /\ codeGenerated \in Recovery!Codes
             /\ codeInRedis.attempts = codeWrong[codeGenerated]
             /\ \A c \in Recovery!Codes : codeWrong[c] <= MaxAttempts
  <2>1. codeUp
    BY <1>1, <1>7 DEF CodeIInv, CodeHome
  <2>2. CodeHolds(codeRequest[s])
    BY <1>7, <2>1 DEF CodeIInv, CodeAlone, CodeSteady
  <2>. QED  BY <1>1, <1>7, <2>1, <2>2 DEF CodeHolds, CodeIInv, CodeCounted, CodeStore
<1>8. CodeCounted'
  <2>. SUFFICES ASSUME ~codeChanged, ~codeMet \/ ~codeUp
                PROVE  /\ codeInRedis'.otp = codeGenerated /\ codeGenerated \in Recovery!Codes
                       /\ codeInRedis'.attempts = codeWrong'[codeGenerated]
                       /\ codeUp /\ \A c \in Recovery!Codes : codeWrong'[c] <= MaxAttempts
    BY <1>1 DEF CodeCounted, CodeStore
  <2>1. /\ codeInRedis'.otp = codeInRedis.otp /\ codeInRedis'.attempts = codeInRedis.attempts + 1
        /\ codeInRedis.attempts < MaxAttempts
    BY <1>1, <1>7 DEF CodeHolds
  <2>2. codeWrong'[codeGenerated] = codeWrong[codeGenerated] + 1
    BY <1>5, <1>7
  <2>3. \A c \in Recovery!Codes : codeWrong'[c] <= MaxAttempts
    BY <1>3, <1>5, <1>6, <1>7, <2>1
  <2>. QED  BY <1>7, <2>1, <2>2, <2>3
<1>9. CodeSteady =>
          /\ \A c \in Recovery!Codes : codeAccepted'[c] <= 1
          /\ CodeStore' # Recovery!NoEntry =>
                codeAccepted'[codeGenerated] = 0 /\ codeGenerated \notin codeDead'
  BY <1>1, <1>7 DEF CodeIInv, CodeUnused, CodeSteady, CodeHolds, CodeStore
<1>10. /\ codeInRedis' \in CodeEntries /\ codeInMemory' \in CodeEntries
       /\ codeUp => codeInMemory' \in {codeInMemory, Recovery!NoEntry}
       /\ ~codeUp => codeInRedis' \in {codeInRedis, Recovery!NoEntry}
       /\ codeAccepted' \in [Recovery!Codes -> Nat] /\ codeDead' \subseteq 1..codeGenerated
       /\ \A c \in Recovery!Codes :
             c > codeGenerated => codeWrong'[c] = 0 /\ codeAccepted'[c] = 0
  BY <1>1, <1>3, <1>5, <1>6 DEF CodeIInv, CodeShapes
<1>11. codeRequest[s].at # "idle"
  BY <1>1
<1>. QED  BY <1>1, <1>4, <1>5, <1>8, <1>9, <1>10, <1>11, CodeStoreStep

(* A right code is consumed.                                               *)
LEMMA CodeConsumeStep ==
    ASSUME CodeIInv, NEW s \in Slots, Recovery!Consume(s)
    PROVE  CodeIInv'
<1>1. /\ codeRequest[s].at = "consume" /\ codeInMemory' = Recovery!NoEntry
      /\ codeInRedis' = (IF codeUp THEN Recovery!NoEntry ELSE codeInRedis)
      /\ codeAccepted' = [codeAccepted EXCEPT ![codeRequest[s].guess]
                              = codeAccepted[codeRequest[s].guess] + 1]
      /\ Recovery!Goto(s, "previous") \/ Recovery!Goto(s, "save")
      /\ UNCHANGED <<codeUp, codeChanged, codeGenerated, codeResetTokens, codePointer,
                     codeExchanged, codeMet, codeSpent, codeWrong, codeDead>>
  BY DEF Recovery!Consume, Recovery!At, Recovery!connection, Recovery!tokens
<1>2. PICK r : /\ codeRequest' = [codeRequest EXCEPT ![s] = r]
               /\ CodeRequestOK(r, codeGenerated, codeExchanged) /\ r.at \in {"idle", "previous", "save"}
  <2>1. {"previous", "save"} \subseteq CodePlaces \ {"idle"} /\ codeRequest[s].at # "idle"
    BY <1>1 DEF CodePlaces
  <2>2. PICK place \in {"previous", "save"} : Recovery!Goto(s, place)
    BY <1>1
  <2>3. PICK r : /\ codeRequest' = [codeRequest EXCEPT ![s] = r]
                 /\ CodeRequestOK(r, codeGenerated, codeExchanged) /\ r.at = place
    BY <2>1, <2>2, CodeGoto DEF CodeIInv
  <2>. QED  BY <2>3
<1>3. /\ codeGenerated \in Nat /\ codeRequest[s].guess \in Nat
      /\ codeRequest[s].guess <= codeGenerated
      /\ codeAccepted \in [Recovery!Codes -> Nat]
  BY DEF CodeIInv, CodeShapes, CodeRequestOK, CodeRecords
<1>4. /\ codeAccepted' \in [Recovery!Codes -> Nat]
      /\ \A c \in Recovery!Codes :
            codeAccepted'[c] = (IF c = codeRequest[s].guess THEN codeAccepted[c] + 1
                                ELSE codeAccepted[c])
  <2>1. codeAccepted' = CodeUpped(codeAccepted, codeRequest[s].guess)
    BY <1>1 DEF CodeUpped
  <2>2. CodeCountOK(codeAccepted', codeAccepted, Recovery!Codes, codeRequest[s].guess)
    BY <1>3, <2>1, CodeCountUp
  <2>. QED  BY <2>2 DEF CodeCountOK
<1>5. Recovery!NoEntry \in CodeEntries
  BY DEF Recovery!NoEntry, Recovery!None, CodeEntries
<1>6. CodeStore' = Recovery!NoEntry
  BY <1>1 DEF CodeStore
<1>7. CodeCounted'
  BY <1>1, <1>6 DEF CodeIInv, CodeCounted
<1>8. ASSUME CodeSteady, NEW c \in Recovery!Codes PROVE codeAccepted'[c] <= 1
  <2>1. CodeStore # Recovery!NoEntry /\ codeRequest[s].guess = codeGenerated
    BY <1>1, <1>8 DEF CodeIInv, CodeAlone, CodeHolds
  <2>2. codeAccepted[codeGenerated] = 0 /\ codeAccepted[c] <= 1
    BY <1>8, <2>1 DEF CodeIInv, CodeUnused
  <2>. QED  BY <1>4, <2>1, <2>2
<1>9. \A c \in Recovery!Codes : c > codeGenerated => codeWrong'[c] = 0 /\ codeAccepted'[c] = 0
  <2>1. \A c \in Recovery!Codes : c \in Nat
    BY DEF Recovery!Codes
  <2>. QED  BY <1>1, <1>3, <1>4, <2>1 DEF CodeIInv, CodeShapes
<1>10. /\ codeInRedis' \in CodeEntries /\ codeInMemory' \in CodeEntries
       /\ codeUp => codeInMemory' \in {codeInMemory, Recovery!NoEntry}
       /\ ~codeUp => codeInRedis' \in {codeInRedis, Recovery!NoEntry}
       /\ codeWrong' \in [Recovery!Codes -> Nat] /\ codeDead' \subseteq 1..codeGenerated
       /\ codeRequest[s].at # "idle"
  BY <1>1, <1>5 DEF CodeIInv, CodeShapes
<1>. QED  BY <1>1, <1>2, <1>4, <1>6, <1>7, <1>8, <1>9, <1>10, CodeStoreStep

(* The newest code replaces the one in the used store.                     *)
LEMMA CodeGenerateStep ==
    ASSUME CodeIInv, MaxCodes \in Nat, NEW s \in Slots, Recovery!Generate(s)
    PROVE  CodeIInv'
<1>1. /\ codeRequest[s].at # "idle" /\ codeRequest' = [codeRequest EXCEPT ![s] = Recovery!Idle]
      /\ codeGenerated < MaxCodes /\ codeGenerated' = codeGenerated + 1
      /\ codeUp => codeInRedis' = Recovery!Entry(codeGenerated + 1, 0) /\ codeInMemory' = codeInMemory
      /\ ~codeUp => codeInMemory' = Recovery!Entry(codeGenerated + 1, 0) /\ codeInRedis' = codeInRedis
      /\ UNCHANGED <<codeUp, codeChanged, codeResetTokens, codePointer, codeExchanged, codeMet,
                     codeSpent, codeWrong, codeAccepted, codeDead>>
  BY DEF Recovery!Generate, Recovery!At, Recovery!Done, Recovery!connection, Recovery!tokens,
     Recovery!history
<1>2. PICK r : r = Recovery!Idle
  OBVIOUS
<1>3. codeGenerated \in Nat /\ codeExchanged \in Nat
  BY DEF CodeIInv, CodeShapes
<1>4. /\ codeGenerated' \in Nat /\ codeGenerated' > codeGenerated /\ codeGenerated' \in Recovery!Codes
      /\ codeGenerated + 1 \in Nat /\ codeGenerated + 1 # 0 /\ 0 \in Nat
  BY <1>1, <1>3 DEF Recovery!Codes
<1>5. /\ CodeGoesOn(s, r) /\ r.at = "idle" /\ codeGenerated' >= codeGenerated
      /\ codeExchanged' \in Nat /\ codeExchanged' >= codeExchanged
  <2>1. CodeRequestOK(r, codeGenerated', codeExchanged') /\ r.at = "idle"
    BY <1>1, <1>2, <1>3, <1>4, CodeIdle
  <2>. QED  BY <1>1, <1>2, <1>3, <1>4, <2>1 DEF CodeGoesOn
<1>6. CodeSteady => CodeHolds(r)'
  BY <1>5 DEF CodeHolds
<1>7. /\ DOMAIN codeRequest' = Slots /\ CodeAlone'
      /\ \A x \in Slots : CodeRequestOK(codeRequest'[x], codeGenerated', codeExchanged')
      /\ ~codeChanged /\ ~codeUp => \A x \in Slots : codeRequest'[x].at # "writeBack"
  BY <1>4, <1>5, <1>6, CodeGoesOnAlone
<1>8. /\ CodeStore' \in CodeEntries /\ CodeStore'.otp = codeGenerated'
      /\ CodeStore'.attempts = 0
  BY <1>1, <1>4, CodeEntry DEF CodeStore
<1>9. /\ codeWrong[codeGenerated'] = 0 /\ codeAccepted[codeGenerated'] = 0
      /\ codeGenerated' \notin codeDead
  BY <1>3, <1>4 DEF CodeIInv, CodeShapes
<1>10. CodeShapes'
  <2>1. codeInRedis' \in CodeEntries /\ codeInMemory' \in CodeEntries
    BY <1>1, <1>8 DEF CodeStore, CodeIInv, CodeShapes
  <2>2. codeDead' \subseteq 1..codeGenerated' /\ codeResetTokens' \subseteq 1..codeExchanged'
    BY <1>1, <1>3 DEF CodeIInv, CodeShapes
  <2>3. \A c \in Recovery!Codes : c > codeGenerated' => codeWrong'[c] = 0 /\ codeAccepted'[c] = 0
    <3>1. \A c \in Recovery!Codes : c \in Nat
      BY DEF Recovery!Codes
    <3>. QED  BY <1>1, <1>3, <3>1 DEF CodeIInv, CodeShapes
  <2>. QED  BY <1>1, <1>4, <1>7, <2>1, <2>2, <2>3 DEF CodeIInv, CodeShapes
<1>11. CodeHome'
  BY <1>1, <1>7 DEF CodeIInv, CodeHome
<1>12. CodeCounted'
  BY <1>1, <1>4, <1>8, <1>9 DEF CodeIInv, CodeCounted
<1>13. CodeUnused'
  BY <1>1, <1>9 DEF CodeIInv, CodeUnused, CodeSteady
<1>. QED  BY <1>7, <1>10, <1>11, <1>12, <1>13 DEF CodeIInv

-----------------------------------------------------------------------------
(* A step of the reset tokens: what it has to show.                        *)
LEMMA CodeTokenStep ==
    ASSUME CodeIInv, NEW s \in Slots, NEW r, codeRequest[s].at # "idle",
           codeRequest' = [codeRequest EXCEPT ![s] = r],
           codeExchanged' \in Nat, codeExchanged' >= codeExchanged,
           CodeRequestOK(r, codeGenerated, codeExchanged'),
           r.at \in {"idle", "storeToken", "save"},
           UNCHANGED <<codeUp, codeChanged, codeInRedis, codeInMemory, codeGenerated, codeMet,
                       codeAccepted, codeWrong, codeDead>>,
           codeResetTokens' \subseteq 1..codeExchanged',
           codeSpent' \in [Recovery!Tokens -> Nat],
           \A t \in Recovery!Tokens : t > codeExchanged' => codeSpent'[t] = 0,
           ~codeChanged /\ ~codeUp => codeResetTokens' = {},
           CodeSteady =>
               /\ r.at = "storeToken" => codeResetTokens' = {}
               /\ \A t \in Recovery!Tokens : codeSpent'[t] <= 1
               /\ \A t \in Recovery!Tokens : t \in codeResetTokens' => codeSpent'[t] = 0
               /\ codeResetTokens' \subseteq {codePointer'} \ {Recovery!None}
    PROVE  CodeIInv'
<1>1. codeGenerated \in Nat
  BY DEF CodeIInv, CodeShapes
<1>2. CodeGoesOn(s, r) /\ codeGenerated' \in Nat /\ codeGenerated' >= codeGenerated
  BY <1>1 DEF CodeGoesOn
<1>3. CodeSteady => CodeHolds(r)'
  BY DEF CodeHolds
<1>4. r.at # "writeBack"
  OBVIOUS
<1>5. /\ DOMAIN codeRequest' = Slots /\ CodeAlone'
      /\ \A x \in Slots : CodeRequestOK(codeRequest'[x], codeGenerated', codeExchanged')
      /\ ~codeChanged /\ ~codeUp => \A x \in Slots : codeRequest'[x].at # "writeBack"
  BY <1>2, <1>3, <1>4, CodeGoesOnAlone
<1>6. CodeShapes'
  BY <1>5 DEF CodeIInv, CodeShapes
<1>7. CodeHome' /\ CodeCounted'
  BY <1>5 DEF CodeIInv, CodeHome, CodeCounted, CodeStore
<1>8. CodeUnused'
  BY DEF CodeIInv, CodeUnused, CodeSteady, CodeStore
<1>. QED  BY <1>5, <1>6, <1>7, <1>8 DEF CodeIInv

(* The reset token issued before is deleted.                               *)
LEMMA CodeDropPreviousStep ==
    ASSUME CodeIInv, NEW s \in Slots, Recovery!DropPrevious(s)
    PROVE  CodeIInv'
<1>1. /\ codeRequest[s].at # "idle" /\ Recovery!Goto(s, "storeToken")
      /\ codeResetTokens' = (IF codeUp THEN codeResetTokens \ {codePointer} ELSE codeResetTokens)
      /\ UNCHANGED <<codeUp, codeChanged, codeInRedis, codeInMemory, codeGenerated, codeMet,
                     codeAccepted, codeWrong, codeDead, codeSpent, codePointer, codeExchanged>>
  BY DEF Recovery!DropPrevious, Recovery!At, Recovery!RedisDel, Recovery!connection,
     Recovery!codes, Recovery!history
<1>2. "storeToken" \in CodePlaces \ {"idle"}
  BY DEF CodePlaces
<1>3. PICK r : /\ codeRequest' = [codeRequest EXCEPT ![s] = r]
               /\ CodeRequestOK(r, codeGenerated, codeExchanged) /\ r.at = "storeToken"
  BY <1>1, <1>2, CodeGoto DEF CodeIInv
<1>4. codeExchanged \in Nat /\ codeSpent \in [Recovery!Tokens -> Nat]
      /\ \A t \in Recovery!Tokens : t > codeExchanged => codeSpent[t] = 0
  BY DEF CodeIInv, CodeShapes
<1>5. ~codeChanged /\ ~codeUp => codeResetTokens' = {}
  BY <1>1 DEF CodeIInv, CodeHome
<1>6. CodeSteady => codeResetTokens' = {} /\ \A t \in Recovery!Tokens : codeSpent[t] <= 1
  BY <1>1, <1>5 DEF CodeIInv, CodeUnused, CodeSteady
<1>7. /\ codeExchanged' \in Nat /\ codeExchanged' >= codeExchanged
      /\ CodeRequestOK(r, codeGenerated, codeExchanged')
      /\ r.at \in {"idle", "storeToken", "save"}
      /\ codeResetTokens' \subseteq 1..codeExchanged'
      /\ codeSpent' \in [Recovery!Tokens -> Nat]
      /\ \A t \in Recovery!Tokens : t > codeExchanged' => codeSpent'[t] = 0
  <2>1. CodeRequestOK(r, codeGenerated, codeExchanged')
    BY <1>1, <1>3
  <2>2. codeResetTokens' \subseteq 1..codeExchanged'
    BY <1>1 DEF CodeIInv, CodeShapes
  <2>. QED  BY <1>1, <1>3, <1>4, <2>1, <2>2
<1>8. CodeSteady =>
          /\ r.at = "storeToken" => codeResetTokens' = {}
          /\ \A t \in Recovery!Tokens : codeSpent'[t] <= 1
          /\ \A t \in Recovery!Tokens : t \in codeResetTokens' => codeSpent'[t] = 0
          /\ codeResetTokens' \subseteq {codePointer'} \ {Recovery!None}
  BY <1>1, <1>6
<1>. QED  BY <1>1, <1>3, <1>5, <1>7, <1>8, CodeTokenStep

(* The new reset token is stored, when Redis takes it.                     *)
LEMMA CodeStoreTokenStep ==
    ASSUME CodeIInv, NEW s \in Slots, Recovery!StoreResetToken(s)
    PROVE  CodeIInv'
<1>1. /\ codeRequest[s].at = "storeToken"
      /\ codeRequest' = [codeRequest EXCEPT ![s] = Recovery!Idle]
      /\ codeExchanged' = codeExchanged + 1
      /\ codeResetTokens' = (IF codeUp THEN codeResetTokens \cup {codeExchanged + 1}
                             ELSE codeResetTokens)
      /\ codePointer' = (IF codeUp THEN codeExchanged + 1 ELSE codePointer)
      /\ UNCHANGED <<codeUp, codeChanged, codeInRedis, codeInMemory, codeGenerated, codeMet,
                     codeAccepted, codeWrong, codeDead, codeSpent>>
  BY DEF Recovery!StoreResetToken, Recovery!At, Recovery!Done, Recovery!RedisSet,
     Recovery!connection, Recovery!codes, Recovery!history
<1>2. PICK r : r = Recovery!Idle
  OBVIOUS
<1>3. /\ codeGenerated \in Nat /\ codeExchanged \in Nat /\ codeSpent \in [Recovery!Tokens -> Nat]
      /\ \A t \in Recovery!Tokens : t > codeExchanged => codeSpent[t] = 0
      /\ codeResetTokens \subseteq 1..codeExchanged
      /\ \A t \in Recovery!Tokens : t \in Nat
  BY DEF CodeIInv, CodeShapes, Recovery!Tokens
<1>4. codeExchanged' \in Nat /\ codeExchanged' >= codeExchanged /\ codeExchanged' # 0
  BY <1>1, <1>3
<1>5. /\ codeRequest' = [codeRequest EXCEPT ![s] = r] /\ r.at = "idle"
      /\ CodeRequestOK(r, codeGenerated, codeExchanged') /\ codeRequest[s].at # "idle"
  BY <1>1, <1>2, <1>3, <1>4, CodeIdle
<1>6. ~codeChanged /\ ~codeUp => codeResetTokens' = {}
  BY <1>1 DEF CodeIInv, CodeHome
<1>7. /\ codeResetTokens' \subseteq 1..codeExchanged' /\ codeSpent' \in [Recovery!Tokens -> Nat]
      /\ \A t \in Recovery!Tokens : t > codeExchanged' => codeSpent'[t] = 0
  BY <1>1, <1>3
<1>8. CodeSteady =>
          /\ r.at = "storeToken" => codeResetTokens' = {}
          /\ \A t \in Recovery!Tokens : codeSpent'[t] <= 1
          /\ \A t \in Recovery!Tokens : t \in codeResetTokens' => codeSpent'[t] = 0
          /\ codeResetTokens' \subseteq {codePointer'} \ {Recovery!None}
  <2>. SUFFICES ASSUME CodeSteady
                PROVE  /\ \A t \in Recovery!Tokens : codeSpent'[t] <= 1
                       /\ \A t \in Recovery!Tokens : t \in codeResetTokens' => codeSpent'[t] = 0
                       /\ codeResetTokens' \subseteq {codePointer'} \ {Recovery!None}
    BY <1>5
  <2>1. codeResetTokens = {}
    BY <1>1 DEF CodeIInv, CodeAlone, CodeHolds
  <2>2. codeResetTokens' \subseteq {codePointer'} \ {Recovery!None}
        /\ codeResetTokens' \subseteq {codeExchanged + 1}
    BY <1>1, <1>4, <2>1 DEF Recovery!None
  <2>3. \A t \in Recovery!Tokens : t \in codeResetTokens' => codeSpent'[t] = 0
    BY <1>1, <1>3, <2>2
  <2>. QED  BY <1>1, <2>2, <2>3 DEF CodeIInv, CodeUnused
<1>. QED  BY <1>1, <1>4, <1>5, <1>6, <1>7, <1>8, CodeTokenStep

(* A reset token that was read is spent.                                   *)
LEMMA CodeDropTokenStep ==
    ASSUME CodeIInv, NEW s \in Slots, Recovery!DropResetToken(s)
    PROVE  CodeIInv'
<1>1. /\ codeRequest[s].at = "dropToken" /\ Recovery!Goto(s, "save")
      /\ codeResetTokens' = (IF codeUp THEN codeResetTokens \ {codeRequest[s].token}
                             ELSE codeResetTokens)
      /\ codePointer' = (IF codeUp THEN Recovery!None ELSE codePointer)
      /\ codeSpent' = CodeUpped(codeSpent, codeRequest[s].token)
      /\ UNCHANGED <<codeUp, codeChanged, codeInRedis, codeInMemory, codeGenerated, codeMet,
                     codeAccepted, codeWrong, codeDead, codeExchanged>>
  BY DEF Recovery!DropResetToken, Recovery!At, Recovery!RedisDel, Recovery!connection,
     Recovery!codes, CodeUpped
<1>2. "save" \in CodePlaces \ {"idle"} /\ codeRequest[s].at # "idle"
  BY <1>1 DEF CodePlaces
<1>3. PICK r : /\ codeRequest' = [codeRequest EXCEPT ![s] = r]
               /\ CodeRequestOK(r, codeGenerated, codeExchanged) /\ r.at = "save"
  BY <1>1, <1>2, CodeGoto DEF CodeIInv
<1>4. /\ codeExchanged \in Nat /\ codeSpent \in [Recovery!Tokens -> Nat]
      /\ \A t \in Recovery!Tokens : t \in Nat /\ (t > codeExchanged => codeSpent[t] = 0)
      /\ codeRequest[s].token \in Nat /\ codeRequest[s].token <= codeExchanged
      /\ codeResetTokens \subseteq 1..codeExchanged
  BY DEF CodeIInv, CodeShapes, CodeRequestOK, CodeRecords, Recovery!Tokens
<1>5. /\ codeSpent' \in [Recovery!Tokens -> Nat]
      /\ \A t \in Recovery!Tokens :
            codeSpent'[t] = (IF t = codeRequest[s].token THEN codeSpent[t] + 1 ELSE codeSpent[t])
  <2>1. CodeCountOK(codeSpent', codeSpent, Recovery!Tokens, codeRequest[s].token)
    BY <1>1, <1>4, CodeCountUp
  <2>. QED  BY <2>1 DEF CodeCountOK
<1>6. ~codeChanged /\ ~codeUp => codeResetTokens' = {}
  BY <1>1 DEF CodeIInv, CodeHome
<1>7. /\ codeExchanged' \in Nat /\ codeExchanged' >= codeExchanged
      /\ CodeRequestOK(r, codeGenerated, codeExchanged')
      /\ r.at \in {"idle", "storeToken", "save"}
      /\ codeResetTokens' \subseteq 1..codeExchanged'
      /\ \A t \in Recovery!Tokens : t > codeExchanged' => codeSpent'[t] = 0
  <2>1. CodeRequestOK(r, codeGenerated, codeExchanged')
    BY <1>1, <1>3
  <2>2. codeResetTokens' \subseteq 1..codeExchanged'
    BY <1>1, <1>4
  <2>3. ASSUME NEW t \in Recovery!Tokens, t > codeExchanged' PROVE codeSpent'[t] = 0
    BY <1>1, <1>4, <1>5, <2>3
  <2>. QED  BY <1>1, <1>3, <1>4, <2>1, <2>2, <2>3
<1>8. CodeSteady =>
          /\ r.at = "storeToken" => codeResetTokens' = {}
          /\ \A t \in Recovery!Tokens : codeSpent'[t] <= 1
          /\ \A t \in Recovery!Tokens : t \in codeResetTokens' => codeSpent'[t] = 0
          /\ codeResetTokens' \subseteq {codePointer'} \ {Recovery!None}
  <2>. SUFFICES ASSUME CodeSteady
                PROVE  codeResetTokens' = {} /\ \A t \in Recovery!Tokens : codeSpent'[t] <= 1
    OBVIOUS
  <2>1. codeRequest[s].token \in codeResetTokens
    BY <1>1 DEF CodeIInv, CodeAlone, CodeHolds
  <2>2. codeUp
    BY <2>1 DEF CodeIInv, CodeHome, CodeSteady
  <2>3. codeResetTokens' = {}
    BY <1>1, <2>1, <2>2 DEF CodeIInv, CodeUnused
  <2>4. \A t \in Recovery!Tokens : codeSpent'[t] <= 1
    BY <1>5, <2>1 DEF CodeIInv, CodeUnused
  <2>. QED  BY <2>3, <2>4
<1>. QED  BY <1>1, <1>2, <1>3, <1>5, <1>6, <1>7, <1>8, CodeTokenStep

-----------------------------------------------------------------------------
(* Redis goes away or comes back: only the shapes count from then on.      *)
LEMMA CodeShockStep ==
    ASSUME CodeIInv, Recovery!RedisLost \/ Recovery!RedisBack
    PROVE  CodeIInv'
<1>1. /\ codeUp' \in BOOLEAN /\ codeChanged' = TRUE
      /\ UNCHANGED <<codeInRedis, codeInMemory, codeGenerated, codeResetTokens, codePointer,
                     codeExchanged, codeRequest, codeMet, codeAccepted, codeWrong, codeSpent,
                     codeDead>>
  BY DEF Recovery!RedisLost, Recovery!RedisBack, Recovery!codes, Recovery!tokens, Recovery!history
<1>2. CodeShapes'
  BY <1>1 DEF CodeIInv, CodeShapes
<1>3. CodeHome' /\ CodeCounted' /\ CodeAlone' /\ CodeUnused'
  BY <1>1 DEF CodeHome, CodeCounted, CodeAlone, CodeUnused, CodeSteady
<1>. QED  BY <1>2, <1>3 DEF CodeIInv

(* Every step keeps the invariant.                                         *)
LEMMA CodeNextStep ==
    ASSUME CodeIInv, MaxAttempts \in Nat, MaxCodes \in Nat, [Recovery!Next]_(Recovery!vars)
    PROVE  CodeIInv'
<1>1. ASSUME NEW s \in Slots,
             \/ Recovery!StartForgot(s) \/ Recovery!Generate(s) \/ Recovery!StartVerify(s)
             \/ Recovery!NotFound(s) \/ Recovery!TooMany(s) \/ Recovery!WrongInMemory(s)
             \/ Recovery!WrongInRedis(s) \/ Recovery!WriteBack(s) \/ Recovery!RightCode(s)
             \/ Recovery!Consume(s) \/ Recovery!DropPrevious(s) \/ Recovery!StoreResetToken(s)
             \/ Recovery!StartReset(s) \/ Recovery!ReadResetToken(s)
             \/ Recovery!DropResetToken(s) \/ Recovery!SaveNewPassword(s)
             \/ Recovery!Invalidate(s)
      PROVE  CodeIInv'
  BY <1>1, CodeStartStep, CodeGenerateStep, CodeReadStep, CodeEmptiedStep, CodeWrongInMemoryStep,
     CodeWrongInRedisStep, CodeWriteBackStep, CodeConsumeStep, CodeDropPreviousStep,
     CodeStoreTokenStep, CodeDropTokenStep
<1>2. CASE UNCHANGED Recovery!vars
  <2>1. UNCHANGED <<codeUp, codeChanged, codeInRedis, codeInMemory, codeGenerated, codeResetTokens,
                    codePointer, codeExchanged, codeRequest, codeMet, codeAccepted, codeWrong,
                    codeSpent, codeDead>>
    BY <1>2 DEF Recovery!vars, Recovery!connection, Recovery!codes, Recovery!tokens,
       Recovery!history
  <2>2. CodeShapes' /\ CodeHome' /\ CodeCounted'
    BY <2>1 DEF CodeIInv, CodeShapes, CodeHome, CodeCounted, CodeStore
  <2>3. CodeAlone' /\ CodeUnused'
    BY <2>1 DEF CodeIInv, CodeAlone, CodeUnused, CodeSteady, CodeStore, CodeHolds, Recovery!Busy
  <2>. QED  BY <2>2, <2>3 DEF CodeIInv
<1>. QED  BY <1>1, <1>2, CodeShockStep DEF Recovery!Next

(* The invariant holds at the start.                                       *)
LEMMA CodeInitStep ==
    ASSUME MaxAttempts \in Nat, Recovery!Init
    PROVE  CodeIInv
<1>1. /\ codeUp \in BOOLEAN /\ codeChanged = FALSE /\ codeMet = FALSE
      /\ codeInRedis = Recovery!NoEntry /\ codeInMemory = Recovery!NoEntry
      /\ codeGenerated = 0 /\ codeResetTokens = {} /\ codeExchanged = 0 /\ codeDead = {}
      /\ codeRequest = [s \in Slots |-> Recovery!Idle]
      /\ codeAccepted = [c \in Recovery!Codes |-> 0] /\ codeWrong = [c \in Recovery!Codes |-> 0]
      /\ codeSpent = [t \in Recovery!Tokens |-> 0]
  BY DEF Recovery!Init
<1>2. /\ DOMAIN codeRequest = Slots /\ 0 \in Nat
      /\ \A s \in Slots : codeRequest[s] = Recovery!Idle
  BY <1>1
<1>3. PICK r : r = Recovery!Idle
  OBVIOUS
<1>4. CodeRequestOK(r, 0, 0) /\ CodeHolds(r) /\ r.op = "idle" /\ r.at = "idle"
  BY <1>2, <1>3, CodeIdle
<1>5. Recovery!NoEntry \in CodeEntries
  BY DEF Recovery!NoEntry, Recovery!None, CodeEntries
<1>6. CodeShapes
  BY <1>1, <1>2, <1>3, <1>4, <1>5 DEF CodeShapes
<1>7. CodeHome /\ CodeCounted
  BY <1>1, <1>2, <1>3, <1>4 DEF CodeHome, CodeCounted, CodeStore
<1>8. CodeAlone /\ CodeUnused
  BY <1>1, <1>2, <1>3, <1>4 DEF CodeAlone, CodeUnused, CodeStore, Recovery!Busy
<1>. QED  BY <1>6, <1>7, <1>8 DEF CodeIInv

(* What the recovery of a password promises follows from it.               *)
LEMMA CodeRules ==
    ASSUME CodeIInv
    PROVE  Recovery!RecoveryRules
<1>1. Recovery!Steady => CodeSteady
  BY DEF Recovery!Steady, CodeSteady
<1>2. Recovery!CodesAndTokensUsedOnce /\ Recovery!OneResetToken
  BY <1>1 DEF CodeIInv, CodeUnused, Recovery!CodesAndTokensUsedOnce, Recovery!OneResetToken
<1>3. Recovery!GuessesBounded
  BY DEF CodeIInv, CodeCounted, Recovery!GuessesBounded, Recovery!Steady
<1>4. ASSUME Recovery!Steady
      PROVE  /\ {codeInRedis.otp, codeInMemory.otp} \subseteq {Recovery!None, codeGenerated}
             /\ CodeStore # Recovery!NoEntry => CodeStore.otp \notin codeDead
             /\ Recovery!None \notin codeDead
             /\ {codeInRedis.otp, codeInMemory.otp} \subseteq {Recovery!None, CodeStore.otp}
  <2>1. Recovery!NoEntry.otp = Recovery!None
    BY DEF Recovery!NoEntry
  <2>2. CodeStore # Recovery!NoEntry => CodeStore.otp = codeGenerated /\ codeGenerated \notin codeDead
    BY <1>1, <1>4 DEF CodeIInv, CodeCounted, CodeUnused, Recovery!Steady
  <2>3. {codeInRedis.otp, codeInMemory.otp} \subseteq {Recovery!None, CodeStore.otp}
    BY <1>4, <2>1 DEF CodeIInv, CodeHome, CodeStore, Recovery!Steady
  <2>4. Recovery!None \notin codeDead
    BY DEF CodeIInv, CodeShapes, Recovery!None
  <2>. QED  BY <2>1, <2>2, <2>3, <2>4
<1>5. Recovery!OnlyNewestCode
  BY <1>4 DEF Recovery!OnlyNewestCode
<1>6. Recovery!CodesDieWithTheReset
  BY <1>4 DEF Recovery!CodesDieWithTheReset, Recovery!NoEntry
<1>. QED  BY <1>2, <1>3, <1>5, <1>6 DEF Recovery!RecoveryRules

(* The recovery of a password keeps its promises for any number of         *)
(* requests, of codes and of attempts (otp.service.ts, token.service.ts).  *)
THEOREM RecoveryAlwaysRules ==
    ASSUME MaxAttempts \in Nat, MaxCodes \in Nat
    PROVE  Recovery!Spec => []Recovery!RecoveryRules
<1>1. Recovery!Init => CodeIInv
  BY CodeInitStep
<1>2. CodeIInv /\ [Recovery!Next]_(Recovery!vars) => CodeIInv'
  BY CodeNextStep
<1>3. CodeIInv => Recovery!RecoveryRules
  BY CodeRules
<1>. QED  BY <1>1, <1>2, <1>3, PTL DEF Recovery!Spec

-----------------------------------------------------------------------------
(***************************************************************************)
(* AccountsConsistent of UserDirectory, for any number of requests and     *)
(* accounts.                                                               *)
(*                                                                         *)
(* Of an e-mail that never had a deleted account beside a new one, and     *)
(* that no two requests created accounts for at once, there is at most one *)
(* account that is not purged, live or deleted (UserUnique): this is what  *)
(* findOne without a sort needs for the check before a creation to mean    *)
(* that no live account exists until the account is created (UserChecked). *)
(* An account has at most one profile, and a live profile whose account is *)
(* deleted is one that a request is removing (UserPaired).                 *)
(***************************************************************************)

UserDocs ==
    [email : Emails, role : {"admin", "investor"}, active : BOOLEAN, deleted : BOOLEAN,
     purged : BOOLEAN]
ProfileDocs == [email : Emails, user : Nat, deleted : BOOLEAN, purged : BOOLEAN]
UserPlaces ==
    {"idle", "accounts", "profiles", "create", "profile", "restore", "promote", "account"}
UserRecords ==
    [op : Directory!Creating \cup {"idle", "remove"}, at : UserPlaces, email : Emails \cup {""},
     user : Nat]

(* At most one element.                                                    *)
UserAtMostOne(S) == \A i, j \in S : i = j

UserShapes ==
    /\ userUniqueIndex \in BOOLEAN
    /\ userUsers \in Seq(UserDocs) /\ userInvestors \in Seq(ProfileDocs)
    /\ DOMAIN userRequest = Slots
    /\ \A s \in Slots : userRequest[s] \in UserRecords

UserUnique ==
    /\ userUniqueIndex => \A e \in Emails : UserAtMostOne(Directory!LiveMatches(userUsers, e))
    /\ \A e \in Emails \ (userMixed \cup userCrossed) :
           UserAtMostOne(Directory!Matches(userUsers, e))

UserCrossing ==
    \A s, x \in Slots :
        /\ s # x /\ userRequest[s].email = userRequest[x].email
        /\ userRequest[s].op \in Directory!Creating /\ userRequest[x].op \in Directory!Creating
        => userRequest[s].email \in userCrossed

(* What the request r knows of the accounts between two of its awaits.     *)
UserKnows(r) ==
    /\ r.op \in Directory!Creating => r.email \in Emails
    /\ r.at = "create" =>
          /\ r.op \in Directory!Creating
          /\ r.email \notin userMixed \cup userCrossed => Directory!LiveMatches(userUsers, r.email) = {}
    /\ r.at \in {"profile", "restore", "promote", "account"} =>
          r.user \in DOMAIN userUsers /\ userUsers[r.user].email = r.email
    /\ r.at = "profile" =>
          /\ \A i \in DOMAIN userInvestors : userInvestors[i].user # r.user
          /\ r.user \notin userDetached => ~userUsers[r.user].deleted
    /\ r.at = "account" => r.op = "remove" /\ \E i \in DOMAIN userInvestors : userInvestors[i].user = r.user

UserChecked ==
    /\ \A s \in Slots : UserKnows(userRequest[s])
    /\ \A s, x \in Slots :
          /\ userRequest[s].at = "profile" /\ userRequest[x].at = "profile"
          /\ userRequest[s].user = userRequest[x].user
          => s = x

(* A request is removing the account u.                                    *)
UserRemoving(u) == \E s \in Slots : userRequest[s].at = "account" /\ userRequest[s].user = u

UserPaired ==
    /\ \A i \in DOMAIN userInvestors :
          /\ userInvestors[i].user \in DOMAIN userUsers
          /\ userUsers[userInvestors[i].user].email = userInvestors[i].email
          /\ userInvestors[i].email \notin userBroken /\ userInvestors[i].user \notin userDetached
             => (userInvestors[i].deleted
                    <=> userUsers[userInvestors[i].user].deleted
                        \/ UserRemoving(userInvestors[i].user))
    /\ \A i, j \in DOMAIN userInvestors : userInvestors[i].user = userInvestors[j].user => i = j

UserIInv == UserShapes /\ UserUnique /\ UserCrossing /\ UserChecked /\ UserPaired

-----------------------------------------------------------------------------
(* The documents with the one at i replaced.                               *)
UserPut(docs, i, v) == [docs EXCEPT ![i] = v]

(* What is so of the documents d that replace docs then.                   *)
UserPutOK(d, docs, i, v, S) ==
    /\ d \in Seq(S) /\ DOMAIN d = DOMAIN docs /\ Len(d) = Len(docs)
    /\ d[i] = v /\ \A j \in DOMAIN docs : j # i => d[j] = docs[j]

(* They are documents still, and only that one differs.                    *)
LEMMA UserPutSeq ==
    ASSUME NEW S, NEW docs, docs \in Seq(S), NEW i, i \in DOMAIN docs, NEW v, v \in S
    PROVE  UserPutOK(UserPut(docs, i, v), docs, i, v, S)
<1>1. DOMAIN docs = 1..Len(docs) /\ Len(docs) \in Nat /\ \A j \in DOMAIN docs : docs[j] \in S
  OBVIOUS
<1>2. UserPut(docs, i, v) \in [1..Len(docs) -> S]
  BY <1>1 DEF UserPut
<1>3. UserPut(docs, i, v) \in Seq(S) /\ Len(UserPut(docs, i, v)) = Len(docs)
  BY <1>1, <1>2
<1>. QED  BY <1>1, <1>2, <1>3 DEF UserPut, UserPutOK

(* The requests with the one of a slot replaced.                           *)
LEMMA UserMoves ==
    ASSUME UserShapes, NEW s \in Slots, NEW r \in UserRecords,
           userRequest' = [userRequest EXCEPT ![s] = r]
    PROVE  /\ DOMAIN userRequest' = Slots /\ userRequest'[s] = r
           /\ \A x \in Slots : userRequest'[x] \in UserRecords
           /\ \A x \in Slots : x # s => userRequest'[x] = userRequest[x]
BY DEF UserShapes

(* The record of an idle request, which knows nothing.                     *)
LEMMA UserIdle ==
    /\ Directory!Idle \in UserRecords
    /\ Directory!Idle.op = "idle" /\ Directory!Idle.at = "idle"
BY DEF Directory!Idle, UserRecords, UserPlaces

(* A request moves to r and the documents stay: what is left to show.      *)
LEMMA UserRequestStep ==
    ASSUME UserIInv, NEW s \in Slots, NEW r \in UserRecords,
           userRequest' = [userRequest EXCEPT ![s] = r],
           UNCHANGED <<userUniqueIndex, userUsers, userInvestors, userMixed, userDetached>>,
           userCrossed \subseteq userCrossed', userBroken \subseteq userBroken',
           UserKnows(r)', r.at \notin {"profile", "account"},
           userRequest[s].at = "account" => userRequest[s].email \in userBroken',
           \A x \in Slots \ {s} :
               /\ r.op \in Directory!Creating /\ userRequest[x].op \in Directory!Creating
               /\ userRequest[x].email = r.email
               => r.email \in userCrossed'
    PROVE  UserIInv'
<1>1. /\ DOMAIN userRequest' = Slots /\ userRequest'[s] = r
      /\ \A x \in Slots : userRequest'[x] \in UserRecords
      /\ \A x \in Slots : x # s => userRequest'[x] = userRequest[x]
  BY UserMoves DEF UserIInv
<1>2. UserShapes'
  BY <1>1 DEF UserIInv, UserShapes
<1>3. UserUnique'
  BY DEF UserIInv, UserUnique, Directory!LiveMatches, Directory!Matches
<1>4. UserCrossing'
  BY <1>1 DEF UserIInv, UserCrossing
<1>5. UserChecked'
  <2>1. ASSUME NEW x \in Slots, x # s PROVE UserKnows(userRequest[x])'
    <3>1. UserKnows(userRequest[x]) /\ userRequest'[x] = userRequest[x]
      BY <1>1, <2>1 DEF UserIInv, UserChecked
    <3>2. PICK q : q = userRequest[x]
      OBVIOUS
    <3>3. UserKnows(q)'
      BY <3>1, <3>2 DEF UserKnows, Directory!LiveMatches, Directory!Matches
    <3>. QED  BY <3>1, <3>2, <3>3 DEF UserKnows
  <2>2. UserKnows(userRequest[s])'
    BY <1>1 DEF UserKnows
  <2>. QED  BY <1>1, <2>1, <2>2 DEF UserIInv, UserChecked
<1>6. UserPaired'
  <2>1. ASSUME NEW i \in DOMAIN userInvestors,
               userInvestors[i].email \notin userBroken', userInvestors[i].user \notin userDetached
        PROVE  UserRemoving(userInvestors[i].user)' <=> UserRemoving(userInvestors[i].user)
    <3>1. ~(userRequest[s].at = "account" /\ userRequest[s].user = userInvestors[i].user)
      BY <2>1 DEF UserIInv, UserChecked, UserKnows, UserPaired
    <3>. QED  BY <1>1, <3>1 DEF UserRemoving
  <2>. QED  BY <2>1 DEF UserIInv, UserPaired
<1>. QED  BY <1>2, <1>3, <1>4, <1>5, <1>6 DEF UserIInv

(* Requests to create an account begin.                                    *)
LEMMA UserStartStep ==
    ASSUME UserIInv, NEW s \in Slots,
           \/ Directory!StartRegister(s) \/ Directory!StartInvestor(s) \/ Directory!StartSeed(s)
    PROVE  UserIInv'
<1>1. PICK op \in Directory!Creating, at \in {"accounts", "profiles"}, e \in Emails :
          /\ Directory!Begin(s, op, at, e, 0)
          /\ userCrossed' = IF \E x \in Slots : userRequest[x].op \in Directory!Creating
                                                /\ userRequest[x].email = e
                            THEN userCrossed \cup {e} ELSE userCrossed
          /\ UNCHANGED <<Directory!database, userShocks, userMixed, userDetached, userBroken>>
  BY DEF Directory!StartRegister, Directory!StartInvestor, Directory!StartSeed, Directory!Creates,
     Directory!Creating
<1>2. PICK r : r = [op |-> op, at |-> at, email |-> e, user |-> 0]
  OBVIOUS
<1>3. /\ r \in UserRecords /\ r.op = op /\ r.at = at /\ r.email = e
      /\ userRequest' = [userRequest EXCEPT ![s] = r] /\ userRequest[s].op = "idle"
  BY <1>1, <1>2 DEF Directory!Begin, Directory!Busy, UserRecords, UserPlaces
<1>4. UserKnows(r)'
  BY <1>3 DEF UserKnows
<1>5. userRequest[s].at # "account"
  BY <1>3 DEF UserIInv, UserChecked, UserKnows
<1>6. /\ UNCHANGED <<userUniqueIndex, userUsers, userInvestors, userMixed, userDetached>>
      /\ userCrossed \subseteq userCrossed' /\ userBroken \subseteq userBroken'
  BY <1>1 DEF Directory!database
<1>. QED  BY <1>1, <1>3, <1>4, <1>5, <1>6, UserRequestStep

(* A request goes on to another place with what it knows.                  *)
LEMMA UserGoto ==
    ASSUME UserShapes, NEW s \in Slots, NEW place \in UserPlaces, Directory!Goto(s, place)
    PROVE  \E r \in UserRecords :
              /\ userRequest' = [userRequest EXCEPT ![s] = r]
              /\ r.op = userRequest[s].op /\ r.at = place
              /\ r.email = userRequest[s].email /\ r.user = userRequest[s].user
<1>. DEFINE r == [userRequest[s] EXCEPT !.at = place]
<1>1. userRequest[s] \in UserRecords
  BY DEF UserShapes
<1>2. /\ r \in UserRecords /\ r.op = userRequest[s].op /\ r.at = place
      /\ r.email = userRequest[s].email /\ r.user = userRequest[s].user
  BY <1>1 DEF UserRecords
<1>3. userRequest' = [userRequest EXCEPT ![s] = r]
  BY DEF Directory!Goto
<1>. QED  BY <1>2, <1>3

(* A request that ends without a write.                                    *)
LEMMA UserDoneStep ==
    ASSUME UserIInv, NEW s \in Slots, Directory!Done(s),
           UNCHANGED <<userUniqueIndex, userUsers, userInvestors, userMixed, userCrossed,
                       userDetached>>,
           userBroken \subseteq userBroken',
           userRequest[s].at = "account" => userRequest[s].email \in userBroken'
    PROVE  UserIInv'
<1>1. PICK r : r = Directory!Idle
  OBVIOUS
<1>2. /\ r \in UserRecords /\ r.op = "idle" /\ r.at = "idle"
      /\ userRequest' = [userRequest EXCEPT ![s] = r]
  BY <1>1, UserIdle DEF Directory!Done
<1>3. UserKnows(r)' /\ r.op \notin Directory!Creating
  BY <1>2 DEF UserKnows, Directory!Creating
<1>. QED  BY <1>2, <1>3, UserRequestStep

(* The check that finds no live account, or profile, goes on.              *)
LEMMA UserGoesOn ==
    ASSUME UserIInv, NEW s \in Slots, NEW r \in UserRecords,
           userRequest[s].at \in {"accounts", "profiles"},
           userRequest' = [userRequest EXCEPT ![s] = r],
           r.op = userRequest[s].op, r.email = userRequest[s].email,
           UNCHANGED <<userUniqueIndex, userUsers, userInvestors, userMixed, userCrossed,
                       userDetached, userBroken>>,
           UserKnows(r), r.at \notin {"profile", "account"}
    PROVE  UserIInv'
<1>1. UserKnows(r)'
  BY DEF UserKnows, Directory!LiveMatches, Directory!Matches
<1>2. \A x \in Slots \ {s} :
               /\ r.op \in Directory!Creating /\ userRequest[x].op \in Directory!Creating
               /\ userRequest[x].email = r.email
               => r.email \in userCrossed'
  BY DEF UserIInv, UserCrossing
<1>. QED  BY <1>1, <1>2, UserRequestStep

(* What findOne answers: nothing, or a deleted account, says that there is *)
(* no live one, while at most one account of the e-mail is not purged.     *)
LEMMA UserFound ==
    ASSUME UserIInv, NEW e \in Emails, e \notin userMixed \cup userCrossed,
           NEW i \in Directory!FindAny(userUsers, e), ~Directory!Refused(userUsers, i)
    PROVE  Directory!LiveMatches(userUsers, e) = {}
<1>1. UserAtMostOne(Directory!Matches(userUsers, e))
  BY DEF UserIInv, UserUnique
<1>2. 0 \notin DOMAIN userUsers
  BY DEF UserIInv, UserShapes
<1>. QED  BY <1>1, <1>2
       DEF UserAtMostOne, Directory!FindAny, Directory!Refused, Directory!Matches, Directory!LiveMatches

(* The checks before a creation.                                           *)
LEMMA UserCheckStep ==
    ASSUME UserIInv, NEW s \in Slots,
           Directory!CheckProfiles(s) \/ Directory!CheckAccounts(s)
    PROVE  UserIInv'
<1>1. UNCHANGED <<userUniqueIndex, userUsers, userInvestors, userMixed, userCrossed, userDetached,
                  userBroken>>
  BY DEF Directory!CheckProfiles, Directory!CheckAccounts, Directory!database, Directory!history
<1>2. /\ userRequest[s].at \in {"accounts", "profiles"}
      /\ userRequest[s].op \in Directory!Creating /\ userRequest[s].email \in Emails
  <2>1. userRequest[s].op \in Directory!Creating /\ userRequest[s].at \in {"accounts", "profiles"}
    BY DEF Directory!CheckProfiles, Directory!CheckAccounts, Directory!At, Directory!Creating
  <2>. QED  BY <2>1 DEF UserIInv, UserChecked, UserKnows
<1>3. CASE Directory!Done(s)
  BY <1>1, <1>2, <1>3, UserDoneStep
<1>4. CASE Directory!Goto(s, "accounts")
  <2>1. "accounts" \in UserPlaces
    BY DEF UserPlaces
  <2>2. PICK r \in UserRecords :
            /\ userRequest' = [userRequest EXCEPT ![s] = r]
            /\ r.op = userRequest[s].op /\ r.at = "accounts" /\ r.email = userRequest[s].email
    BY <1>4, <2>1, UserGoto DEF UserIInv
  <2>3. UserKnows(r)
    BY <1>2, <2>2 DEF UserKnows
  <2>. QED  BY <1>1, <1>2, <2>2, <2>3, UserGoesOn
<1>5. CASE Directory!CheckAccounts(s) /\ ~Directory!Done(s)
  <2>1. "create" \in UserPlaces
    BY DEF UserPlaces
  <2>2. PICK i \in Directory!FindAny(userUsers, userRequest[s].email) :
            ~Directory!Refused(userUsers, i) /\ Directory!Goto(s, "create")
    BY <1>5 DEF Directory!CheckAccounts
  <2>3. PICK r \in UserRecords :
            /\ userRequest' = [userRequest EXCEPT ![s] = r]
            /\ r.op = userRequest[s].op /\ r.at = "create" /\ r.email = userRequest[s].email
    BY <2>1, <2>2, UserGoto DEF UserIInv
  <2>4. r.email \notin userMixed \cup userCrossed => Directory!LiveMatches(userUsers, r.email) = {}
    BY <1>2, <2>2, <2>3, UserFound
  <2>5. UserKnows(r)
    BY <1>2, <2>3, <2>4 DEF UserKnows
  <2>. QED  BY <1>1, <1>2, <2>3, <2>5, UserGoesOn
<1>. QED  BY <1>3, <1>4, <1>5 DEF Directory!CheckProfiles

(* seedAdmin looks for the account.                                        *)
LEMMA UserSeedStep ==
    ASSUME UserIInv, NEW s \in Slots, Directory!SeedAdmin(s)
    PROVE  UserIInv'
<1>1. UNCHANGED <<userUniqueIndex, userUsers, userInvestors, userMixed, userCrossed, userDetached,
                  userBroken>>
  BY DEF Directory!SeedAdmin, Directory!database, Directory!history
<1>2. /\ userRequest[s].at = "accounts" /\ userRequest[s].op = "seed"
      /\ userRequest[s].op \in Directory!Creating /\ userRequest[s].email \in Emails
  BY DEF Directory!SeedAdmin, Directory!At, Directory!Creating, UserIInv, UserChecked, UserKnows
<1>3. PICK i \in Directory!FindAny(userUsers, userRequest[s].email) :
          IF i = 0 THEN Directory!Goto(s, "create")
          ELSE IF Directory!Refused(userUsers, i) THEN Directory!Done(s)
          ELSE userRequest' = [userRequest EXCEPT ![s].at = "restore", ![s].user = i]
  BY DEF Directory!SeedAdmin
<1>4. CASE Directory!Done(s)
  BY <1>1, <1>2, <1>4, UserDoneStep
<1>5. CASE i = 0
  <2>1. "create" \in UserPlaces
    BY DEF UserPlaces
  <2>2. PICK r \in UserRecords :
            /\ userRequest' = [userRequest EXCEPT ![s] = r]
            /\ r.op = userRequest[s].op /\ r.at = "create" /\ r.email = userRequest[s].email
    BY <1>3, <1>5, <2>1, UserGoto DEF UserIInv
  <2>3. ~Directory!Refused(userUsers, i)
    BY <1>5 DEF Directory!Refused
  <2>4. r.email \notin userMixed \cup userCrossed => Directory!LiveMatches(userUsers, r.email) = {}
    BY <1>2, <2>2, <2>3, UserFound
  <2>5. UserKnows(r)
    BY <1>2, <2>2, <2>4 DEF UserKnows
  <2>. QED  BY <1>1, <1>2, <2>2, <2>5, UserGoesOn
<1>6. CASE i # 0 /\ ~Directory!Done(s)
  <2>1. i \in DOMAIN userUsers /\ userUsers[i].email = userRequest[s].email
    BY <1>3, <1>6 DEF Directory!FindAny, Directory!Matches
  <2>2. i \in Nat
    BY <2>1 DEF UserIInv, UserShapes
  <2>3. PICK r : r = [userRequest[s] EXCEPT !.at = "restore", !.user = i]
    OBVIOUS
  <2>4. /\ r \in UserRecords /\ r.op = userRequest[s].op /\ r.at = "restore"
        /\ r.email = userRequest[s].email /\ r.user = i
    BY <2>2, <2>3 DEF UserIInv, UserShapes, UserRecords, UserPlaces
  <2>5. userRequest' = [userRequest EXCEPT ![s] = r]
    BY <1>3, <1>6, <2>3
  <2>6. UserKnows(r)
    BY <1>2, <2>1, <2>4 DEF UserKnows
  <2>. QED  BY <1>1, <1>2, <2>4, <2>5, <2>6, UserGoesOn
<1>. QED  BY <1>3, <1>4, <1>5, <1>6

(* A request is cut short.                                                 *)
LEMMA UserCutStep ==
    ASSUME UserIInv, NEW s \in Slots, Directory!CutShort(s)
    PROVE  UserIInv'
<1>1. /\ Directory!Done(s) /\ userBroken' = userBroken \cup {userRequest[s].email}
      /\ UNCHANGED <<userUniqueIndex, userUsers, userInvestors, userMixed, userCrossed,
                     userDetached>>
  BY DEF Directory!CutShort, Directory!database
<1>. QED  BY <1>1, UserDoneStep

-----------------------------------------------------------------------------
(* Accounts are deleted, purged or otherwise changed, and some requests    *)
(* end: what such a step has to show.                                      *)
LEMMA UserDocsStep ==
    ASSUME UserIInv, userUsers' \in Seq(UserDocs), DOMAIN userUsers' = DOMAIN userUsers,
           \A i \in DOMAIN userUsers :
               /\ userUsers'[i].email = userUsers[i].email
               /\ userUsers[i].purged => userUsers'[i].purged
               /\ userUsers[i].deleted => userUsers'[i].deleted
               /\ userUsers'[i].deleted /\ ~userUsers[i].deleted
                     => i \in userDetached' \/ UserRemoving(i),
           UNCHANGED <<userUniqueIndex, userInvestors, userMixed, userCrossed, userBroken>>,
           userDetached \subseteq userDetached', DOMAIN userRequest' = Slots,
           \A s \in Slots :
               \/ userRequest'[s] = userRequest[s]
               \/ /\ userRequest'[s] = Directory!Idle
                  /\ userRequest[s].at = "account" => userUsers'[userRequest[s].user].deleted
    PROVE  UserIInv'
<1>1. \A i \in DOMAIN userUsers : userUsers[i] \in UserDocs /\ userUsers'[i] \in UserDocs
  BY DEF UserIInv, UserShapes
<1>2. \A e : /\ Directory!Matches(userUsers', e) \subseteq Directory!Matches(userUsers, e)
             /\ Directory!LiveMatches(userUsers', e) \subseteq Directory!LiveMatches(userUsers, e)
  BY DEF Directory!Matches, Directory!LiveMatches
<1>3. UserShapes'
  BY UserIdle DEF UserIInv, UserShapes
<1>4. UserUnique'
  <2>1. /\ \A e : Directory!Matches(userUsers, e)' \subseteq Directory!Matches(userUsers, e)
        /\ \A e : Directory!LiveMatches(userUsers, e)' \subseteq Directory!LiveMatches(userUsers, e)
    BY <1>2 DEF Directory!Matches, Directory!LiveMatches
  <2>. QED  BY <2>1 DEF UserIInv, UserUnique, UserAtMostOne
<1>5. UserCrossing'
  BY UserIdle DEF UserIInv, UserCrossing, Directory!Creating
<1>6. ASSUME NEW s \in Slots PROVE UserKnows(userRequest[s])'
  <2>1. CASE userRequest'[s] = Directory!Idle
    BY <2>1, UserIdle DEF UserKnows, Directory!Creating
  <2>2. CASE userRequest'[s] = userRequest[s]
    <3>1. PICK q : q = userRequest[s]
      OBVIOUS
    <3>2. UserKnows(q)
      BY <3>1 DEF UserIInv, UserChecked
    <3>3. q.at = "create" => /\ q.op \in Directory!Creating
                             /\ q.email \notin userMixed \cup userCrossed
                                   => Directory!LiveMatches(userUsers', q.email) = {}
      BY <1>2, <3>2 DEF UserKnows
    <3>4. q.at \in {"profile", "restore", "promote", "account"} =>
             q.user \in DOMAIN userUsers' /\ userUsers'[q.user].email = q.email
      BY <3>2 DEF UserKnows
    <3>5. q.at = "profile" =>
            /\ \A i \in DOMAIN userInvestors' : userInvestors'[i].user # q.user
            /\ q.user \notin userDetached' => ~userUsers'[q.user].deleted
      <4>1. q.at = "profile" => ~UserRemoving(q.user)
        BY <3>2 DEF UserRemoving, UserKnows, UserIInv, UserChecked
      <4>. QED  BY <3>2, <4>1 DEF UserKnows
    <3>6. q.at = "account" => q.op = "remove"
                              /\ \E i \in DOMAIN userInvestors' : userInvestors'[i].user = q.user
      BY <3>2 DEF UserKnows
    <3>7. UserKnows(q)'
      BY <3>2, <3>3, <3>4, <3>5, <3>6
         DEF UserKnows, Directory!LiveMatches, Directory!Matches
    <3>. QED  BY <2>2, <3>1, <3>7 DEF UserKnows
  <2>. QED  BY <2>1, <2>2
<1>7. UserChecked'
  BY <1>6, UserIdle DEF UserIInv, UserChecked
<1>8. UserPaired'
  <2>1. ASSUME NEW i \in DOMAIN userInvestors
        PROVE  /\ userInvestors[i].user \in DOMAIN userUsers'
               /\ userUsers'[userInvestors[i].user].email = userInvestors[i].email
    BY DEF UserIInv, UserPaired
  <2>2. ASSUME NEW i \in DOMAIN userInvestors, userInvestors[i].email \notin userBroken,
               userInvestors[i].user \notin userDetached'
        PROVE  userInvestors[i].deleted
                 <=> userUsers'[userInvestors[i].user].deleted
                     \/ UserRemoving(userInvestors[i].user)'
    <3>. DEFINE u == userInvestors[i].user
    <3>1. /\ userInvestors[i].deleted <=> userUsers[u].deleted \/ UserRemoving(u)
          /\ u \in DOMAIN userUsers
      BY <2>2 DEF UserIInv, UserPaired
    <3>2. UserRemoving(u)' => UserRemoving(u)
      BY UserIdle DEF UserRemoving
    <3>3. UserRemoving(u) => UserRemoving(u)' \/ userUsers'[u].deleted
      BY DEF UserRemoving
    <3>4. userInvestors[i].deleted \in BOOLEAN /\ userUsers[u].deleted \in BOOLEAN
          /\ userUsers'[u].deleted \in BOOLEAN
      <4>1. userInvestors[i] \in ProfileDocs
        BY DEF UserIInv, UserShapes
      <4>2. userUsers[u] \in UserDocs /\ userUsers'[u] \in UserDocs
        BY <1>1, <3>1
      <4>. QED  BY <4>1, <4>2 DEF UserDocs, ProfileDocs
    <3>. QED  BY <2>2, <3>1, <3>2, <3>3, <3>4
  <2>. QED  BY <2>1, <2>2 DEF UserIInv, UserPaired
<1>. QED  BY <1>3, <1>4, <1>5, <1>7, <1>8 DEF UserIInv

(* user.save() of an account found by the seeder.                          *)
LEMMA UserPromoteStep ==
    ASSUME UserIInv, NEW s \in Slots, Directory!PromoteAccount(s)
    PROVE  UserIInv'
<1>. DEFINE u == userRequest[s].user
            v == [userUsers[u] EXCEPT !.role = "admin", !.active = TRUE]
<1>1. /\ userRequest[s].at = "promote" /\ userRequest' = [userRequest EXCEPT ![s] = Directory!Idle]
      /\ userUsers' \in {userUsers, UserPut(userUsers, u, v)}
      /\ UNCHANGED <<userUniqueIndex, userInvestors, userMixed, userCrossed, userDetached, userBroken>>
  BY DEF Directory!PromoteAccount, Directory!At, Directory!Done, Directory!history, UserPut
<1>2. u \in DOMAIN userUsers /\ userUsers \in Seq(UserDocs) /\ userUsers[u] \in UserDocs
      /\ DOMAIN userRequest = Slots
  BY <1>1 DEF UserIInv, UserShapes, UserChecked, UserKnows
<1>3. /\ v \in UserDocs /\ v.email = userUsers[u].email /\ v.deleted = userUsers[u].deleted
      /\ v.purged = userUsers[u].purged
  BY <1>2 DEF UserDocs
<1>. HIDE DEF u, v
<1>4. /\ userUsers' \in Seq(UserDocs) /\ DOMAIN userUsers' = DOMAIN userUsers
      /\ \A i \in DOMAIN userUsers :
            /\ userUsers'[i].email = userUsers[i].email
            /\ userUsers'[i].purged = userUsers[i].purged
            /\ userUsers'[i].deleted = userUsers[i].deleted
  <2>1. CASE userUsers' = userUsers
    BY <1>2, <2>1
  <2>2. CASE userUsers' = UserPut(userUsers, u, v)
    <3>1. UserPutOK(userUsers', userUsers, u, v, UserDocs)
      BY <1>2, <1>3, <2>2, UserPutSeq
    <3>. QED  BY <1>3, <3>1 DEF UserPutOK
  <2>. QED  BY <1>1, <2>1, <2>2
<1>5. DOMAIN userRequest' = Slots
      /\ \A x \in Slots : \/ userRequest'[x] = userRequest[x]
                          \/ /\ userRequest'[x] = Directory!Idle
                             /\ userRequest[x].at # "account"
  BY <1>1, <1>2
<1>. QED  BY <1>1, <1>4, <1>5, UserDocsStep

(* adminUpdateUser, softDeleteUser and the rest of a removal.              *)
LEMMA UserChangeStep ==
    ASSUME UserIInv, NEW s \in Slots,
           Directory!AdminUpdateUser(s) \/ Directory!SoftDeleteUser(s) \/ Directory!RemoveAccount(s)
    PROVE  UserIInv'
<1>. userUsers \in Seq(UserDocs) /\ DOMAIN userRequest = Slots
  BY DEF UserIInv, UserShapes
<1>1. CASE Directory!AdminUpdateUser(s)
  <2>1. PICK u \in DOMAIN userUsers, v \in UserDocs :
            /\ v.email = userUsers[u].email /\ v.deleted = userUsers[u].deleted
            /\ v.purged = userUsers[u].purged
            /\ userUsers' = UserPut(userUsers, u, v)
    <3>1. PICK u \in DOMAIN userUsers :
              \/ userUsers' = [userUsers EXCEPT ![u].active = ~@]
              \/ \E r \in {"admin", "investor"} : userUsers' = [userUsers EXCEPT ![u].role = r]
      BY <1>1 DEF Directory!AdminUpdateUser
    <3>2. userUsers[u] \in UserDocs
      OBVIOUS
    <3>3. CASE userUsers' = [userUsers EXCEPT ![u].active = ~@]
      <4>. DEFINE v == [userUsers[u] EXCEPT !.active = ~@]
      <4>1. /\ v \in UserDocs /\ v.email = userUsers[u].email
            /\ v.deleted = userUsers[u].deleted /\ v.purged = userUsers[u].purged
        BY <3>2 DEF UserDocs
      <4>2. userUsers' = UserPut(userUsers, u, v)
        BY <3>3 DEF UserPut
      <4>. QED  BY <4>1, <4>2
    <3>4. ASSUME NEW r \in {"admin", "investor"}, userUsers' = [userUsers EXCEPT ![u].role = r]
          PROVE  \E v : /\ v \in UserDocs /\ v.email = userUsers[u].email
                        /\ v.deleted = userUsers[u].deleted /\ v.purged = userUsers[u].purged
                        /\ userUsers' = UserPut(userUsers, u, v)
      <4>. DEFINE v == [userUsers[u] EXCEPT !.role = r]
      <4>1. /\ v \in UserDocs /\ v.email = userUsers[u].email
            /\ v.deleted = userUsers[u].deleted /\ v.purged = userUsers[u].purged
        BY <3>2 DEF UserDocs
      <4>2. userUsers' = UserPut(userUsers, u, v)
        BY <3>4 DEF UserPut
      <4>. QED  BY <4>1, <4>2
    <3>. QED  BY <3>1, <3>3, <3>4
  <2>2. /\ userUsers' \in Seq(UserDocs) /\ DOMAIN userUsers' = DOMAIN userUsers
        /\ \A i \in DOMAIN userUsers :
              /\ userUsers'[i].email = userUsers[i].email
              /\ userUsers'[i].purged = userUsers[i].purged
              /\ userUsers'[i].deleted = userUsers[i].deleted
    <3>1. UserPutOK(userUsers', userUsers, u, v, UserDocs)
      BY <2>1, UserPutSeq
    <3>. QED  BY <2>1, <3>1 DEF UserPutOK
  <2>3. UNCHANGED <<userUniqueIndex, userInvestors, userMixed, userCrossed, userDetached, userBroken,
                    userRequest>>
    BY <1>1 DEF Directory!AdminUpdateUser, Directory!history
  <2>. QED  BY <2>2, <2>3, UserDocsStep
<1>2. CASE Directory!SoftDeleteUser(s) \/ Directory!RemoveAccount(s)
  <2>1. PICK u \in DOMAIN userUsers, v \in UserDocs :
            /\ v = [userUsers[u] EXCEPT !.deleted = TRUE]
            /\ userUsers' = UserPut(userUsers, u, v)
            /\ userDetached \subseteq userDetached' /\ (u \in userDetached' \/ UserRemoving(u))
            /\ \/ UNCHANGED userRequest
               \/ /\ userRequest' = [userRequest EXCEPT ![s] = Directory!Idle]
                  /\ userRequest[s].user = u
    <3>1. CASE Directory!SoftDeleteUser(s)
      <4>1. PICK u \in DOMAIN userUsers :
                /\ userUsers' = Directory!SoftDelete(userUsers, u)
                /\ userDetached' = userDetached \cup {u} /\ UNCHANGED userRequest
        BY <3>1 DEF Directory!SoftDeleteUser
      <4>2. PICK v \in UserDocs : v = [userUsers[u] EXCEPT !.deleted = TRUE]
        <5>1. userUsers[u] \in UserDocs
          OBVIOUS
        <5>. QED  BY <5>1 DEF UserDocs
      <4>3. userUsers' = UserPut(userUsers, u, v)
        BY <4>1, <4>2 DEF Directory!SoftDelete, UserPut
      <4>. QED  BY <4>1, <4>2, <4>3
    <3>2. CASE Directory!RemoveAccount(s)
      <4>. DEFINE u == userRequest[s].user
      <4>1. /\ userRequest[s].at = "account" /\ userUsers' = Directory!SoftDelete(userUsers, u)
            /\ userRequest' = [userRequest EXCEPT ![s] = Directory!Idle] /\ UNCHANGED userDetached
        BY <3>2 DEF Directory!RemoveAccount, Directory!At, Directory!Done, Directory!history
      <4>2. u \in DOMAIN userUsers /\ UserRemoving(u)
        BY <4>1 DEF UserIInv, UserChecked, UserKnows, UserRemoving
      <4>3. PICK v \in UserDocs : v = [userUsers[u] EXCEPT !.deleted = TRUE]
        <5>1. userUsers[u] \in UserDocs
          BY <4>2
        <5>. QED  BY <5>1 DEF UserDocs
      <4>4. userUsers' = UserPut(userUsers, u, v)
        BY <4>1, <4>3 DEF Directory!SoftDelete, UserPut
      <4>. QED  BY <4>1, <4>2, <4>3, <4>4
    <3>. QED  BY <1>2, <3>1, <3>2
  <2>2. /\ v \in UserDocs /\ v.email = userUsers[u].email /\ v.deleted
        /\ v.purged = userUsers[u].purged
    <3>1. userUsers[u] \in UserDocs
      OBVIOUS
    <3>. QED  BY <2>1, <3>1 DEF UserDocs
  <2>3. /\ userUsers' \in Seq(UserDocs) /\ DOMAIN userUsers' = DOMAIN userUsers
        /\ userUsers'[u] = v /\ \A i \in DOMAIN userUsers : i # u => userUsers'[i] = userUsers[i]
    <3>1. UserPutOK(userUsers', userUsers, u, v, UserDocs)
      BY <2>1, <2>2, UserPutSeq
    <3>. QED  BY <3>1 DEF UserPutOK
  <2>4. UNCHANGED <<userUniqueIndex, userInvestors, userMixed, userCrossed, userBroken>>
    BY <1>2 DEF Directory!SoftDeleteUser, Directory!RemoveAccount, Directory!history
  <2>5. DOMAIN userRequest' = Slots
        /\ \A x \in Slots : \/ userRequest'[x] = userRequest[x]
                            \/ /\ userRequest'[x] = Directory!Idle
                               /\ userUsers'[userRequest[x].user].deleted
    <3>1. CASE UNCHANGED userRequest
      BY <3>1
    <3>2. CASE userRequest' = [userRequest EXCEPT ![s] = Directory!Idle] /\ userRequest[s].user = u
      <4>1. userUsers'[userRequest[s].user].deleted
        BY <2>2, <2>3, <3>2
      <4>. QED  BY <3>2, <4>1
    <3>. QED  BY <2>1, <3>1, <3>2
  <2>6. \A i \in DOMAIN userUsers :
               /\ userUsers'[i].email = userUsers[i].email
               /\ userUsers[i].purged => userUsers'[i].purged
               /\ userUsers[i].deleted => userUsers'[i].deleted
               /\ userUsers'[i].deleted /\ ~userUsers[i].deleted
                     => i \in userDetached' \/ UserRemoving(i)
    BY <2>1, <2>2, <2>3
  <2>. QED  BY <2>1, <2>3, <2>4, <2>5, <2>6, UserDocsStep
<1>. QED  BY <1>1, <1>2

(* The nightly purge of accounts that are deleted.                         *)
LEMMA UserCleanupStep ==
    ASSUME UserIInv, Directory!CleanupSoftDeletedUsers
    PROVE  UserIInv'
<1>1. PICK U \in SUBSET {u \in DOMAIN userUsers : userUsers[u].deleted /\ ~userUsers[u].purged} :
          userUsers' = [u \in DOMAIN userUsers |->
              IF u \in U THEN [userUsers[u] EXCEPT !.purged = TRUE] ELSE userUsers[u]]
  BY DEF Directory!CleanupSoftDeletedUsers
<1>2. DOMAIN userUsers = 1..Len(userUsers) /\ Len(userUsers) \in Nat
      /\ (\A u \in DOMAIN userUsers : userUsers[u] \in UserDocs) /\ DOMAIN userRequest = Slots
  BY DEF UserIInv, UserShapes
<1>3. ASSUME NEW u \in DOMAIN userUsers
      PROVE  /\ userUsers'[u] \in UserDocs /\ userUsers'[u].email = userUsers[u].email
             /\ userUsers[u].purged => userUsers'[u].purged
             /\ userUsers'[u].deleted = userUsers[u].deleted
  BY <1>1, <1>2 DEF UserDocs
<1>4. userUsers' \in Seq(UserDocs) /\ DOMAIN userUsers' = DOMAIN userUsers
  <2>1. userUsers' \in [1..Len(userUsers) -> UserDocs]
    BY <1>1, <1>2, <1>3
  <2>. QED  BY <1>2, <2>1
<1>5. UNCHANGED <<userUniqueIndex, userInvestors, userMixed, userCrossed, userDetached, userBroken,
                  userRequest>>
  BY DEF Directory!CleanupSoftDeletedUsers, Directory!history
<1>. QED  BY <1>2, <1>3, <1>4, <1>5, UserDocsStep

-----------------------------------------------------------------------------
(* An account is created, unless the unique index refuses it.              *)
LEMMA UserCreateStep ==
    ASSUME UserIInv, NEW s \in Slots, Directory!CreateAccount(s)
    PROVE  UserIInv'
<1>. DEFINE e == userRequest[s].email
            n == Len(userUsers) + 1
<1>1. /\ userRequest[s].at = "create"
      /\ UNCHANGED <<userUniqueIndex, userInvestors, userCrossed, userDetached, userBroken>>
  BY DEF Directory!CreateAccount
<1>2. userRequest[s].op \in Directory!Creating /\ e \in Emails
      /\ (e \notin userMixed \cup userCrossed => Directory!LiveMatches(userUsers, e) = {})
  BY <1>1 DEF UserIInv, UserChecked, UserKnows
<1>3. CASE ~Directory!Accepts(e)
  BY <1>1, <1>3, UserDoneStep DEF Directory!CreateAccount
<1>4. CASE Directory!Accepts(e)
  <2>1. PICK d : /\ d \in UserDocs /\ d.email = e /\ ~d.deleted /\ ~d.purged
                 /\ userUsers' = Append(userUsers, d)
    <3>1. PICK role \in {"admin", "investor"} : userUsers' = Directory!NewUser(e, role)
      BY <1>4 DEF Directory!CreateAccount
    <3>. DEFINE d == [email |-> e, role |-> role, active |-> TRUE, deleted |-> FALSE, purged |-> FALSE]
    <3>2. d \in UserDocs /\ d.email = e /\ ~d.deleted /\ ~d.purged
      BY <1>2 DEF UserDocs
    <3>. QED  BY <3>1, <3>2 DEF Directory!NewUser
  <2>2. /\ userUsers \in Seq(UserDocs) /\ userUsers' \in Seq(UserDocs) /\ n \in Nat
        /\ n \notin DOMAIN userUsers /\ DOMAIN userUsers' = DOMAIN userUsers \cup {n}
        /\ userUsers'[n] = d /\ \A i \in DOMAIN userUsers : userUsers'[i] = userUsers[i]
    <3>1. userUsers \in Seq(UserDocs) /\ Len(userUsers) \in Nat
          /\ DOMAIN userUsers = 1..Len(userUsers)
      BY DEF UserIInv, UserShapes
    <3>. QED  BY <2>1, <3>1
  <2>3. PICK r \in UserRecords :
            /\ userRequest' = [userRequest EXCEPT ![s] = r]
            /\ \/ r.op = "idle" /\ r.at = "idle"
               \/ r.op \in Directory!Creating /\ r.at = "profile" /\ r.email = e /\ r.user = n
    <3>1. CASE userRequest' = [userRequest EXCEPT ![s] = Directory!Idle]
      BY <3>1, UserIdle
    <3>2. CASE userRequest' = [userRequest EXCEPT ![s] = [@ EXCEPT !.at = "profile", !.user = n]]
      <4>. DEFINE r == [userRequest[s] EXCEPT !.at = "profile", !.user = n]
      <4>1. /\ r \in UserRecords /\ r.op = userRequest[s].op /\ r.at = "profile" /\ r.email = e
            /\ r.user = n
        <5>1. userRequest[s] \in UserRecords
          BY DEF UserIInv, UserShapes
        <5>. QED  BY <2>2, <5>1 DEF UserRecords, UserPlaces
      <4>2. userRequest' = [userRequest EXCEPT ![s] = r]
        BY <3>2
      <4>. HIDE DEF r
      <4>. QED  BY <1>2, <4>1, <4>2
    <3>. QED  BY <1>4, <3>1, <3>2 DEF Directory!CreateAccount
  <2>4. /\ DOMAIN userRequest' = Slots /\ userRequest'[s] = r
        /\ \A x \in Slots : userRequest'[x] \in UserRecords
        /\ \A x \in Slots : x # s => userRequest'[x] = userRequest[x]
    BY <2>3, UserMoves DEF UserIInv
  <2>5. /\ userMixed \subseteq userMixed'
        /\ e \notin userMixed' => Directory!Matches(userUsers, e) = Directory!LiveMatches(userUsers, e)
    BY <1>4 DEF Directory!CreateAccount
  <2>6. /\ \A f : f # e => /\ Directory!Matches(userUsers', f) = Directory!Matches(userUsers, f)
                           /\ Directory!LiveMatches(userUsers', f) = Directory!LiveMatches(userUsers, f)
        /\ Directory!Matches(userUsers', e) = Directory!Matches(userUsers, e) \cup {n}
        /\ Directory!LiveMatches(userUsers', e) = Directory!LiveMatches(userUsers, e) \cup {n}
    BY <2>1, <2>2 DEF Directory!Matches, Directory!LiveMatches
  <2>. HIDE DEF n, e
  <2>7. UserShapes'
    BY <1>1, <2>2, <2>4 DEF UserIInv, UserShapes
  <2>8. UserUnique'
    <3>1. ASSUME userUniqueIndex, NEW f \in Emails
          PROVE  UserAtMostOne(Directory!LiveMatches(userUsers', f))
      <4>1. CASE f = e
        BY <1>4, <2>6, <3>1, <4>1 DEF Directory!Accepts, UserAtMostOne
      <4>2. CASE f # e
        BY <2>6, <3>1, <4>2 DEF UserIInv, UserUnique
      <4>. QED  BY <4>1, <4>2
    <3>2. ASSUME NEW f \in Emails \ (userMixed' \cup userCrossed)
          PROVE  UserAtMostOne(Directory!Matches(userUsers', f))
      <4>1. CASE f = e
        BY <1>2, <2>5, <2>6, <4>1 DEF UserAtMostOne
      <4>2. CASE f # e
        BY <2>5, <2>6, <4>2 DEF UserIInv, UserUnique
      <4>. QED  BY <4>1, <4>2
    <3>3. \A f : /\ Directory!Matches(userUsers, f)' = Directory!Matches(userUsers', f)
                 /\ Directory!LiveMatches(userUsers, f)' = Directory!LiveMatches(userUsers', f)
      BY DEF Directory!Matches, Directory!LiveMatches
    <3>. QED  BY <1>1, <3>1, <3>2, <3>3 DEF UserUnique, UserAtMostOne
  <2>9. UserCrossing'
    <3>1. r.op \in Directory!Creating => r.op \in Directory!Creating /\ r.email = userRequest[s].email
      BY <2>3 DEF Directory!Creating, e
    <3>. QED  BY <1>1, <1>2, <2>4, <3>1 DEF UserIInv, UserCrossing
  <2>10. UserChecked'
    <3>1. ASSUME NEW x \in Slots, x # s PROVE UserKnows(userRequest[x])'
      <4>1. PICK q : q = userRequest[x]
        OBVIOUS
      <4>2. UserKnows(q)
        BY <4>1 DEF UserIInv, UserChecked
      <4>3. /\ q.op \in Directory!Creating /\ q.email = e => e \in userCrossed
        BY <1>2, <3>1, <4>1 DEF UserIInv, UserCrossing, e
      <4>4. q.at = "create" =>
              /\ q.op \in Directory!Creating
              /\ q.email \notin userMixed' \cup userCrossed
                    => Directory!LiveMatches(userUsers', q.email) = {}
        BY <2>5, <2>6, <4>2, <4>3 DEF UserKnows
      <4>5. q.at \in {"profile", "restore", "promote", "account"} =>
              /\ q.user \in DOMAIN userUsers' /\ userUsers'[q.user].email = q.email
              /\ userUsers'[q.user] = userUsers[q.user]
        BY <2>2, <4>2 DEF UserKnows
      <4>6. UserKnows(q)'
        BY <1>1, <4>2, <4>4, <4>5 DEF UserKnows, Directory!LiveMatches, Directory!Matches
      <4>. QED  BY <2>4, <3>1, <4>1, <4>6 DEF UserKnows
    <3>2. UserKnows(userRequest[s])'
      <4>1. \A i \in DOMAIN userInvestors : userInvestors[i].user # n
        BY <2>2 DEF UserIInv, UserPaired
      <4>2. UserKnows(r)'
        BY <1>1, <1>2, <2>1, <2>2, <2>3, <4>1 DEF UserKnows, Directory!Creating
      <4>. QED  BY <2>4, <4>2 DEF UserKnows
    <3>3. \A x \in Slots : userRequest[x].at = "profile" => userRequest[x].user # n
      BY <2>2 DEF UserIInv, UserChecked, UserKnows
    <3>. QED  BY <2>3, <2>4, <3>1, <3>2, <3>3 DEF UserIInv, UserChecked
  <2>11. UserPaired'
    <3>1. \A u : UserRemoving(u)' <=> UserRemoving(u)
      BY <1>1, <2>3, <2>4 DEF UserRemoving
    <3>2. \A i \in DOMAIN userInvestors :
             /\ userInvestors[i].user \in DOMAIN userUsers
             /\ userUsers'[userInvestors[i].user] = userUsers[userInvestors[i].user]
      BY <2>2 DEF UserIInv, UserPaired
    <3>. QED  BY <1>1, <2>2, <3>1, <3>2 DEF UserIInv, UserPaired
  <2>. QED  BY <2>7, <2>8, <2>9, <2>10, <2>11 DEF UserIInv
<1>. QED  BY <1>3, <1>4

(* The profile of a new account is created.                                *)
LEMMA UserProfileStep ==
    ASSUME UserIInv, NEW s \in Slots, Directory!CreateProfile(s)
    PROVE  UserIInv'
<1>. DEFINE u == userRequest[s].user
            m == Len(userInvestors) + 1
            d == [email |-> userRequest[s].email, user |-> u, deleted |-> FALSE, purged |-> FALSE]
<1>1. /\ userRequest[s].at = "profile" /\ userInvestors' = Append(userInvestors, d)
      /\ userRequest' = [userRequest EXCEPT ![s] = Directory!Idle]
      /\ UNCHANGED <<userUniqueIndex, userUsers, userMixed, userCrossed, userDetached, userBroken>>
  BY DEF Directory!CreateProfile, Directory!At, Directory!Done, Directory!history
<1>2. /\ u \in DOMAIN userUsers /\ userUsers[u].email = userRequest[s].email
      /\ \A i \in DOMAIN userInvestors : userInvestors[i].user # u
      /\ u \notin userDetached => ~userUsers[u].deleted
      /\ ~UserRemoving(u)
  BY <1>1 DEF UserIInv, UserChecked, UserKnows, UserRemoving
<1>3. d \in ProfileDocs /\ d.email = userRequest[s].email /\ d.user = u /\ ~d.deleted
  <2>1. userUsers[u] \in UserDocs /\ u \in Nat
    BY <1>2 DEF UserIInv, UserShapes
  <2>. QED  BY <1>2, <2>1 DEF UserDocs, ProfileDocs
<1>4. /\ userInvestors' \in Seq(ProfileDocs) /\ m \notin DOMAIN userInvestors
      /\ DOMAIN userInvestors' = DOMAIN userInvestors \cup {m} /\ userInvestors'[m] = d
      /\ \A i \in DOMAIN userInvestors : userInvestors'[i] = userInvestors[i]
  <2>1. userInvestors \in Seq(ProfileDocs) /\ Len(userInvestors) \in Nat
        /\ DOMAIN userInvestors = 1..Len(userInvestors)
    BY DEF UserIInv, UserShapes
  <2>. HIDE DEF d
  <2>. QED  BY <1>1, <1>3, <2>1
<1>5. PICK r : r = Directory!Idle
  OBVIOUS
<1>6. /\ DOMAIN userRequest' = Slots /\ userRequest'[s] = r /\ r.at = "idle" /\ r.op = "idle"
      /\ \A x \in Slots : userRequest'[x] \in UserRecords
      /\ \A x \in Slots : x # s => userRequest'[x] = userRequest[x]
  BY <1>1, <1>5, UserIdle, UserMoves DEF UserIInv
<1>. HIDE DEF d, m, u
<1>7. UserShapes'
  BY <1>1, <1>4, <1>6 DEF UserIInv, UserShapes
<1>8. UserUnique'
  BY <1>1 DEF UserIInv, UserUnique, Directory!LiveMatches, Directory!Matches
<1>9. UserCrossing'
  BY <1>1, <1>6 DEF UserIInv, UserCrossing, Directory!Creating
<1>10. UserChecked'
  <2>1. ASSUME NEW x \in Slots, x # s PROVE UserKnows(userRequest[x])'
    <3>1. PICK q : q = userRequest[x]
      OBVIOUS
    <3>2. UserKnows(q) /\ (q.at = "profile" => q.user # u)
      BY <1>1, <2>1, <3>1 DEF UserIInv, UserChecked, u
    <3>3. /\ q.at = "profile" => \A i \in DOMAIN userInvestors' : userInvestors'[i].user # q.user
          /\ q.at = "account" => q.op = "remove"
                /\ \E i \in DOMAIN userInvestors' : userInvestors'[i].user = q.user
      BY <1>3, <1>4, <3>2 DEF UserKnows
    <3>4. UserKnows(q)'
      BY <1>1, <3>2, <3>3 DEF UserKnows, Directory!LiveMatches, Directory!Matches
    <3>. QED  BY <1>6, <2>1, <3>1, <3>4 DEF UserKnows
  <2>2. UserKnows(userRequest[s])'
    BY <1>6 DEF UserKnows, Directory!Creating
  <2>. QED  BY <1>6, <2>1, <2>2 DEF UserIInv, UserChecked
<1>11. UserPaired'
  <2>1. \A w : UserRemoving(w)' <=> UserRemoving(w)
    BY <1>1, <1>6 DEF UserRemoving
  <2>2. ASSUME NEW i \in DOMAIN userInvestors'
        PROVE  /\ userInvestors'[i].user \in DOMAIN userUsers
               /\ userUsers[userInvestors'[i].user].email = userInvestors'[i].email
               /\ userInvestors'[i].email \notin userBroken /\ userInvestors'[i].user \notin userDetached
                   => (userInvestors'[i].deleted
                         <=> userUsers[userInvestors'[i].user].deleted
                             \/ UserRemoving(userInvestors'[i].user))
    <3>1. CASE i = m
      BY <1>2, <1>3, <1>4, <3>1
    <3>2. CASE i \in DOMAIN userInvestors
      BY <1>4, <3>2 DEF UserIInv, UserPaired
    <3>. QED  BY <1>4, <3>1, <3>2
  <2>3. \A i, j \in DOMAIN userInvestors' : userInvestors'[i].user = userInvestors'[j].user => i = j
    BY <1>2, <1>3, <1>4 DEF UserIInv, UserPaired
  <2>. QED  BY <1>1, <2>1, <2>2, <2>3 DEF UserPaired
<1>. QED  BY <1>7, <1>8, <1>9, <1>10, <1>11 DEF UserIInv

(* A deleted account is restored, unless the unique index refuses it.      *)
LEMMA UserRestoreStep ==
    ASSUME UserIInv, NEW s \in Slots, Directory!RestoreAccount(s)
    PROVE  UserIInv'
<1>. DEFINE u == userRequest[s].user
            e == userRequest[s].email
            v == [userUsers[u] EXCEPT !.deleted = FALSE]
<1>1. /\ userRequest[s].at = "restore"
      /\ UNCHANGED <<userUniqueIndex, userInvestors, userCrossed, userBroken>>
  BY DEF Directory!RestoreAccount, Directory!At
<1>2. CASE Directory!Done(s) /\ UNCHANGED <<userUsers, userMixed, userDetached>>
  BY <1>1, <1>2, UserDoneStep
<1>3. CASE /\ Directory!Accepts(e) /\ userUsers' = Directory!Restore(userUsers, u)
           /\ userMixed' = userMixed \cup {e} /\ userDetached' = userDetached \cup {u}
           /\ Directory!Goto(s, "promote")
  <2>1. u \in DOMAIN userUsers /\ userUsers[u].email = e
    BY <1>1 DEF UserIInv, UserChecked, UserKnows
  <2>2. v \in UserDocs /\ v.email = e /\ v.purged = userUsers[u].purged
    <3>1. userUsers[u] \in UserDocs
      BY <2>1 DEF UserIInv, UserShapes
    <3>. QED  BY <2>1, <3>1 DEF UserDocs
  <2>3. userUsers' = UserPut(userUsers, u, v) /\ userUsers \in Seq(UserDocs)
    BY <1>3 DEF Directory!Restore, UserPut, UserIInv, UserShapes
  <2>. HIDE DEF v
  <2>4. UserPutOK(userUsers', userUsers, u, v, UserDocs)
    BY <2>1, <2>2, <2>3, UserPutSeq
  <2>5. /\ userUsers' \in Seq(UserDocs) /\ DOMAIN userUsers' = DOMAIN userUsers
        /\ userUsers'[u] = v /\ \A i \in DOMAIN userUsers : i # u => userUsers'[i] = userUsers[i]
    BY <2>4 DEF UserPutOK
  <2>6. "promote" \in UserPlaces
    BY DEF UserPlaces
  <2>7. PICK r \in UserRecords :
            /\ userRequest' = [userRequest EXCEPT ![s] = r]
            /\ r.op = userRequest[s].op /\ r.at = "promote" /\ r.email = e /\ r.user = u
    BY <1>3, <2>6, UserGoto DEF UserIInv
  <2>8. /\ DOMAIN userRequest' = Slots /\ userRequest'[s] = r
        /\ \A x \in Slots : userRequest'[x] \in UserRecords
        /\ \A x \in Slots : x # s => userRequest'[x] = userRequest[x]
    BY <2>7, UserMoves DEF UserIInv
  <2>9. /\ \A f : Directory!Matches(userUsers', f) = Directory!Matches(userUsers, f)
        /\ \A f : f # e => Directory!LiveMatches(userUsers', f) = Directory!LiveMatches(userUsers, f)
        /\ Directory!LiveMatches(userUsers', e) \subseteq Directory!LiveMatches(userUsers, e) \cup {u}
    BY <2>1, <2>2, <2>5 DEF Directory!Matches, Directory!LiveMatches
  <2>. HIDE DEF u, e
  <2>10. UserShapes'
    BY <1>1, <2>5, <2>8 DEF UserIInv, UserShapes
  <2>11. UserUnique'
    <3>1. ASSUME userUniqueIndex, NEW f \in Emails
          PROVE  UserAtMostOne(Directory!LiveMatches(userUsers', f))
      <4>1. CASE f = e
        BY <1>3, <2>9, <3>1, <4>1 DEF Directory!Accepts, UserAtMostOne, e
      <4>2. CASE f # e
        BY <2>9, <3>1, <4>2 DEF UserIInv, UserUnique
      <4>. QED  BY <4>1, <4>2
    <3>2. ASSUME NEW f \in Emails \ (userMixed' \cup userCrossed)
          PROVE  UserAtMostOne(Directory!Matches(userUsers', f))
      BY <1>3, <2>9 DEF UserIInv, UserUnique
    <3>3. \A f : /\ Directory!Matches(userUsers, f)' = Directory!Matches(userUsers', f)
                 /\ Directory!LiveMatches(userUsers, f)' = Directory!LiveMatches(userUsers', f)
      BY DEF Directory!Matches, Directory!LiveMatches
    <3>. QED  BY <1>1, <3>1, <3>2, <3>3 DEF UserUnique, UserAtMostOne
  <2>12. UserCrossing'
    BY <1>1, <2>7, <2>8 DEF UserIInv, UserCrossing, e
  <2>13. UserChecked'
    <3>1. ASSUME NEW q, UserKnows(q), q.at # "idle"
          PROVE  UserKnows(q)'
      <4>1. q.at = "create" =>
              /\ q.op \in Directory!Creating
              /\ q.email \notin userMixed' \cup userCrossed
                    => Directory!LiveMatches(userUsers', q.email) = {}
        BY <1>3, <2>9, <3>1 DEF UserKnows, e
      <4>2. q.at \in {"profile", "restore", "promote", "account"} =>
              q.user \in DOMAIN userUsers' /\ userUsers'[q.user].email = q.email
        BY <2>1, <2>2, <2>5, <3>1 DEF UserKnows
      <4>3. q.at = "profile" => (q.user \notin userDetached' => ~userUsers'[q.user].deleted)
        BY <1>3, <2>5, <3>1 DEF UserKnows, u
      <4>. QED  BY <1>1, <3>1, <4>1, <4>2, <4>3
                DEF UserKnows, Directory!LiveMatches, Directory!Matches
    <3>2. ASSUME NEW x \in Slots, x # s PROVE UserKnows(userRequest[x])'
      <4>1. PICK q : q = userRequest[x]
        OBVIOUS
      <4>2. UserKnows(q)
        BY <4>1 DEF UserIInv, UserChecked
      <4>3. UserKnows(q)'
        <5>1. CASE q.at = "idle"
          BY <4>2, <5>1 DEF UserKnows
        <5>. QED  BY <3>1, <4>2, <5>1
      <4>. QED  BY <2>8, <3>2, <4>1, <4>3 DEF UserKnows
    <3>3. UserKnows(userRequest[s])'
      <4>1. UserKnows(userRequest[s])
        BY DEF UserIInv, UserChecked
      <4>2. UserKnows(r)'
        BY <2>1, <2>2, <2>5, <2>7, <4>1 DEF UserKnows, e
      <4>. QED  BY <2>8, <4>2 DEF UserKnows
    <3>. QED  BY <2>7, <2>8, <3>2, <3>3 DEF UserIInv, UserChecked
  <2>14. UserPaired'
    <3>1. \A w : UserRemoving(w)' <=> UserRemoving(w)
      BY <1>1, <2>7, <2>8 DEF UserRemoving
    <3>2. ASSUME NEW i \in DOMAIN userInvestors
          PROVE  /\ userInvestors[i].user \in DOMAIN userUsers'
                 /\ userUsers'[userInvestors[i].user].email = userInvestors[i].email
                 /\ userInvestors[i].user \notin userDetached' =>
                       userUsers'[userInvestors[i].user] = userUsers[userInvestors[i].user]
      BY <1>3, <2>1, <2>2, <2>5 DEF UserIInv, UserPaired, u
    <3>. QED  BY <1>1, <1>3, <3>1, <3>2 DEF UserIInv, UserPaired
  <2>. QED  BY <2>10, <2>11, <2>12, <2>13, <2>14 DEF UserIInv
<1>. QED  BY <1>2, <1>3 DEF Directory!RestoreAccount

(* The profile of an investor is removed; the account follows.             *)
LEMMA UserRemoveStep ==
    ASSUME UserIInv, NEW s \in Slots, Directory!RemoveInvestor(s)
    PROVE  UserIInv'
<1>1. PICK i \in DOMAIN userInvestors :
          /\ ~userInvestors[i].deleted
          /\ Directory!Begin(s, "remove", "account", userInvestors[i].email, userInvestors[i].user)
          /\ userInvestors' = Directory!SoftDelete(userInvestors, i)
          /\ UNCHANGED <<userUniqueIndex, userUsers, userMixed, userCrossed, userDetached, userBroken>>
  BY DEF Directory!RemoveInvestor, Directory!history
<1>2. userInvestors \in Seq(ProfileDocs) /\ userInvestors[i] \in ProfileDocs
  BY DEF UserIInv, UserShapes
<1>3. PICK v : v = [userInvestors[i] EXCEPT !.deleted = TRUE]
  OBVIOUS
<1>4. /\ v \in ProfileDocs /\ v.email = userInvestors[i].email /\ v.user = userInvestors[i].user
      /\ v.deleted /\ userInvestors' = UserPut(userInvestors, i, v)
  BY <1>1, <1>2, <1>3 DEF ProfileDocs, Directory!SoftDelete, UserPut
<1>5. UserPutOK(userInvestors', userInvestors, i, v, ProfileDocs)
  BY <1>2, <1>4, UserPutSeq
<1>6. /\ userInvestors' \in Seq(ProfileDocs) /\ DOMAIN userInvestors' = DOMAIN userInvestors
      /\ userInvestors'[i] = v
      /\ \A j \in DOMAIN userInvestors : j # i => userInvestors'[j] = userInvestors[j]
  BY <1>5 DEF UserPutOK
<1>7. PICK r : r = [op |-> "remove", at |-> "account", email |-> userInvestors[i].email,
                    user |-> userInvestors[i].user]
  OBVIOUS
<1>8. /\ r \in UserRecords /\ r.op = "remove" /\ r.at = "account"
      /\ r.email = userInvestors[i].email /\ r.user = userInvestors[i].user
  BY <1>2, <1>7 DEF UserRecords, UserPlaces, ProfileDocs
<1>9. userRequest' = [userRequest EXCEPT ![s] = r] /\ userRequest[s].op = "idle"
  BY <1>1, <1>7 DEF Directory!Begin, Directory!Busy
<1>10. /\ DOMAIN userRequest' = Slots /\ userRequest'[s] = r
       /\ \A x \in Slots : userRequest'[x] \in UserRecords
       /\ \A x \in Slots : x # s => userRequest'[x] = userRequest[x]
  BY <1>8, <1>9, UserMoves DEF UserIInv
<1>11. \A j \in DOMAIN userInvestors : userInvestors'[j].user = userInvestors[j].user
                                       /\ userInvestors'[j].email = userInvestors[j].email
  BY <1>4, <1>6
<1>12. UserShapes'
  BY <1>1, <1>6, <1>10 DEF UserIInv, UserShapes
<1>13. UserUnique'
  BY <1>1 DEF UserIInv, UserUnique, Directory!LiveMatches, Directory!Matches
<1>14. UserCrossing'
  BY <1>1, <1>8, <1>10 DEF UserIInv, UserCrossing, Directory!Creating
<1>15. UserChecked'
  <2>1. ASSUME NEW x \in Slots, x # s PROVE UserKnows(userRequest[x])'
    <3>1. PICK q : q = userRequest[x]
      OBVIOUS
    <3>2. UserKnows(q)
      BY <3>1 DEF UserIInv, UserChecked
    <3>3. UserKnows(q)'
      BY <1>1, <1>6, <1>11, <3>2 DEF UserKnows, Directory!LiveMatches, Directory!Matches
    <3>. QED  BY <1>10, <2>1, <3>1, <3>3 DEF UserKnows
  <2>2. UserKnows(userRequest[s])'
    <3>1. UserKnows(r)'
      BY <1>1, <1>6, <1>8, <1>11 DEF UserKnows, Directory!Creating, UserIInv, UserPaired
    <3>. QED  BY <1>10, <3>1 DEF UserKnows
  <2>. QED  BY <1>8, <1>10, <2>1, <2>2 DEF UserIInv, UserChecked
<1>16. UserPaired'
  <2>1. ~(userRequest[s].at = "account")
    BY <1>9 DEF UserIInv, UserChecked, UserKnows
  <2>2. \A w : UserRemoving(w)' <=> UserRemoving(w) \/ w = userInvestors[i].user
    BY <1>8, <1>10, <2>1 DEF UserRemoving
  <2>3. ASSUME NEW j \in DOMAIN userInvestors, userInvestors[j].email \notin userBroken,
               userInvestors[j].user \notin userDetached
        PROVE  userInvestors'[j].deleted
                  <=> userUsers[userInvestors[j].user].deleted
                      \/ UserRemoving(userInvestors[j].user)'
    <3>1. CASE j = i
      BY <1>4, <1>6, <2>2, <3>1
    <3>2. CASE j # i
      BY <1>6, <2>2, <2>3, <3>2 DEF UserIInv, UserPaired
    <3>. QED  BY <3>1, <3>2
  <2>. QED  BY <1>1, <1>6, <1>11, <2>3 DEF UserIInv, UserPaired
<1>. QED  BY <1>12, <1>13, <1>14, <1>15, <1>16 DEF UserIInv

-----------------------------------------------------------------------------
(* Every step keeps the invariant.                                         *)
LEMMA UserNextStep ==
    ASSUME UserIInv, [Directory!Next]_(Directory!vars)
    PROVE  UserIInv'
<1>1. ASSUME NEW s \in Slots, Directory!Handle(s) PROVE UserIInv'
  BY <1>1, UserStartStep, UserCheckStep, UserCreateStep, UserProfileStep, UserSeedStep,
     UserRestoreStep, UserPromoteStep, UserRemoveStep, UserChangeStep, UserCutStep
     DEF Directory!Handle
<1>2. CASE UNCHANGED Directory!vars
  <2>1. UNCHANGED <<userUniqueIndex, userUsers, userInvestors, userRequest, userMixed, userCrossed,
                    userDetached, userBroken>>
    BY <1>2 DEF Directory!vars, Directory!database, Directory!history
  <2>2. UserShapes' /\ UserUnique' /\ UserCrossing'
    BY <2>1 DEF UserIInv, UserShapes, UserUnique, UserCrossing, Directory!Matches,
       Directory!LiveMatches
  <2>3. UserChecked' /\ UserPaired'
    BY <2>1 DEF UserIInv, UserChecked, UserKnows, UserPaired, UserRemoving, Directory!Matches,
       Directory!LiveMatches
  <2>. QED  BY <2>2, <2>3 DEF UserIInv
<1>. QED  BY <1>1, <1>2, UserCleanupStep DEF Directory!Next

(* The invariant holds at the start.                                       *)
LEMMA UserInitStep ==
    ASSUME Directory!Init
    PROVE  UserIInv
<1>1. /\ userUniqueIndex \in BOOLEAN /\ userUsers = <<>> /\ userInvestors = <<>>
      /\ userRequest = [s \in Slots |-> Directory!Idle] /\ userCrossed = {}
  BY DEF Directory!Init
<1>2. PICK r : r = Directory!Idle
  OBVIOUS
<1>3. /\ DOMAIN userRequest = Slots /\ \A s \in Slots : userRequest[s] = r
      /\ r \in UserRecords /\ r.op = "idle" /\ r.at = "idle"
  BY <1>1, <1>2, UserIdle
<1>4. UserShapes
  BY <1>1, <1>3 DEF UserShapes
<1>5. UserUnique
  BY <1>1 DEF UserUnique, UserAtMostOne, Directory!LiveMatches, Directory!Matches
<1>6. UserCrossing /\ UserChecked
  BY <1>3 DEF UserCrossing, UserChecked, UserKnows, Directory!Creating
<1>7. UserPaired
  BY <1>1 DEF UserPaired
<1>. QED  BY <1>4, <1>5, <1>6, <1>7 DEF UserIInv

(* At most one element: no more is counted.                                *)
LEMMA UserCountOne ==
    ASSUME NEW S, UserAtMostOne(S)
    PROVE  Directory!Cardinality(S) <= 1
<1>1. Cardinality(S) <= 1
  <2>1. CASE S = {}
    BY <2>1, FS_EmptySet
  <2>2. CASE S # {}
    <3>1. \E x : S = {x}
      BY <2>2 DEF UserAtMostOne
    <3>2. Cardinality(S) = 1
      BY <3>1, FS_Singleton
    <3>. QED  BY <3>2
  <2>. QED  BY <2>1, <2>2
<1>2. Directory!Cardinality(S) = Cardinality(S)
  BY DEF Directory!Cardinality, Cardinality
<1>. QED  BY <1>1, <1>2

(* What the accounts promise follows from the invariant.                   *)
LEMMA UserConsistent ==
    ASSUME UserIInv
    PROVE  Directory!AccountsConsistent
<1>1. Directory!OneAccountPerEmail
  <2>1. ASSUME NEW e \in Emails, userUniqueIndex \/ e \notin userMixed \cup userCrossed
        PROVE  Directory!Cardinality(Directory!LiveMatches(userUsers, e)) <= 1
    <3>1. UserAtMostOne(Directory!LiveMatches(userUsers, e))
      BY <2>1 DEF UserIInv, UserUnique, UserAtMostOne, Directory!LiveMatches
    <3>. QED  BY <3>1, UserCountOne
  <2>. QED  BY <2>1 DEF Directory!OneAccountPerEmail
<1>2. Directory!ProfileAndAccountTogether
  <2>1. ASSUME NEW i \in DOMAIN userInvestors,
               \A s \in Slots : userRequest[s].email # userInvestors[i].email
        PROVE  ~UserRemoving(userInvestors[i].user)
    BY <2>1 DEF UserIInv, UserPaired, UserChecked, UserKnows, UserRemoving
  <2>. QED  BY <2>1 DEF UserIInv, UserPaired, Directory!ProfileAndAccountTogether
<1>. QED  BY <1>1, <1>2 DEF Directory!AccountsConsistent

(* Checks before a write, and writes in order, keep the accounts           *)
(* consistent with no transaction around them (auth.service.ts,            *)
(* investor.service.ts, user.service.ts).                                  *)
THEOREM AccountsAlwaysConsistent == Directory!Spec => []Directory!AccountsConsistent
<1>. QED  BY UserInitStep, UserNextStep, UserConsistent, PTL DEF Directory!Spec

-----------------------------------------------------------------------------
(***************************************************************************)
(* WalkFaithful of PagedLists, for any number of documents, keys, page     *)
(* size and writes.                                                        *)
(*                                                                         *)
(* Whatever order a query answers in, a document whose key no other shares *)
(* comes right after those with a smaller key (WalkPosition).  How many    *)
(* these are only grows while no document leaves its place, and only       *)
(* shrinks while none comes to one (WalkPlacedGrows).  So while nothing    *)
(* leaves, what the client has not been given stays ahead of where it has  *)
(* read to (WalkNoneLost), and while nothing comes, what it was given      *)
(* stays behind (WalkOnce).                                                *)
(***************************************************************************)

\* The documents of the list that come before one whose key no other shares.
WalkBelow(docs, d) == {e \in Walk!Visible(docs) : docs[e].key < docs[d].key}
WalkRank(docs, d) == Cardinality(WalkBelow(docs, d))
WalkSize(docs) == Cardinality(Walk!Visible(docs))

\* A collection that a list can be read from.
WalkCollection(docs) ==
    /\ IsFiniteSet(DOMAIN docs) /\ DOMAIN docs \subseteq Nat
    /\ \A d \in DOMAIN docs : docs[d] \in Walk!Documents

\* Documents up to this position have been read.
WalkReached ==
    IF "find" \in listTodo THEN (listPage - 1) * listLimit ELSE listPage * listLimit
WalkGiven == Walk!ToSet(listShown) \cup Walk!ToSet(listData)
WalkLeast(a, b) == IF a <= b THEN a ELSE b

WalkShapes ==
    /\ WalkCollection(listDocuments) /\ listCreated \in Nat
    /\ listLimit \in Nat /\ listPage \in Nat /\ listTotal \in Nat
    /\ listShown \in Seq(Nat) /\ listData \in Seq(Nat)
    /\ listTodo \in {{}, {"find"}, {"countDocuments"}, {"find", "countDocuments"}, {"answer"}}
    /\ listTodo = {} \/ "find" \in listTodo => listData = <<>>
    /\ listTodo # {} => listPage > 0 /\ ~listDone
    /\ listPage = 0 => listShown = <<>> /\ ~listDone
    /\ listPage > 0 => Walk!Ties(listDocuments) \subseteq listTied

\* What was there at the beginning is given to the client or ahead of it.
WalkNoneLost ==
    ~listRemovals /\ listPage > 0 =>
        \A d \in listExpected \ listTied :
            /\ d \in Walk!Visible(listDocuments)
            /\ d \in WalkGiven \/ WalkReached <= WalkRank(listDocuments, d)

\* A number that was counted is no less than that of the documents the page is
\* taken from: nothing is ahead of a page that seems to be the last.
WalkCounted ==
    ~listRemovals /\ ~listSplit =>
        /\ listTodo = {"find"} => WalkSize(listDocuments) <= listTotal
        /\ listTodo = {"answer"} /\ listTotal <= listPage * listLimit =>
               listExpected \ listTied \subseteq WalkGiven
        /\ listDone => listExpected \ listTied \subseteq Walk!ToSet(listShown)

\* What was given is behind the client, and was given once.
WalkNoTwice(s) == \A i, j \in DOMAIN s : s[i] = s[j] => i = j \/ s[i] \in listTied
WalkOnce ==
    ~listInsertions =>
        /\ WalkNoTwice(listShown) /\ WalkNoTwice(listData)
        /\ Walk!ToSet(listShown) \cap Walk!ToSet(listData) \subseteq listTied
        /\ \A d \in (WalkGiven \cap Walk!Visible(listDocuments)) \ listTied :
               WalkRank(listDocuments, d) < WalkReached

\* Of a list nobody writes to, as many rows are given as were read.
WalkNumbered ==
    ~listRemovals /\ ~listInsertions /\ listPage > 0 =>
        /\ listExpected = Walk!Visible(listDocuments)
        /\ Len(listShown) + Len(listData) = WalkLeast(WalkReached, WalkSize(listDocuments))
        /\ listTodo \in {{"find"}, {"answer"}} => listTotal = WalkSize(listDocuments)
        /\ listDone => WalkSize(listDocuments) <= WalkReached

WalkIInv == WalkShapes /\ WalkNoneLost /\ WalkCounted /\ WalkOnce /\ WalkNumbered

-----------------------------------------------------------------------------
(* The size of a set is the same in the part and here.                     *)
LEMMA WalkSameSize == \A S : Walk!Cardinality(S) = Cardinality(S)
BY DEF Walk!Cardinality, Cardinality

(* The sizes the invariant compares are numbers.                           *)
LEMMA WalkSizes ==
    ASSUME NEW docs, WalkCollection(docs)
    PROVE  /\ IsFiniteSet(Walk!Visible(docs)) /\ WalkSize(docs) \in Nat
           /\ \A d : IsFiniteSet(WalkBelow(docs, d)) /\ WalkRank(docs, d) \in Nat
<1>1. /\ IsFiniteSet(DOMAIN docs) /\ Walk!Visible(docs) \subseteq DOMAIN docs
      /\ \A d : WalkBelow(docs, d) \subseteq DOMAIN docs
  BY DEF WalkCollection, WalkBelow, Walk!Visible
<1>2. \A S \in SUBSET (DOMAIN docs) : IsFiniteSet(S) /\ Cardinality(S) \in Nat
  BY <1>1, FS_Subset, FS_CardinalityType
<1>. QED  BY <1>1, <1>2 DEF WalkSize, WalkRank

(* Whoever is in the list ranks below its size.                            *)
LEMMA WalkRankBelowSize ==
    ASSUME Keys \subseteq Int, NEW docs, WalkCollection(docs), NEW d \in Walk!Visible(docs)
    PROVE  WalkRank(docs, d) < WalkSize(docs)
<1>1. docs[d].key \in Int
  BY DEF WalkCollection, Walk!Visible, Walk!Documents
<1>2. WalkBelow(docs, d) \subseteq Walk!Visible(docs) \ {d}
  BY <1>1 DEF WalkBelow
<1>3. /\ IsFiniteSet(Walk!Visible(docs)) /\ WalkSize(docs) \in Nat
      /\ WalkRank(docs, d) \in Nat
  BY WalkSizes
<1>4. /\ IsFiniteSet(Walk!Visible(docs) \ {d})
      /\ Cardinality(Walk!Visible(docs) \ {d}) = WalkSize(docs) - 1
  BY <1>3, FS_RemoveElement DEF WalkSize
<1>5. WalkRank(docs, d) <= WalkSize(docs) - 1
  BY <1>2, <1>4, FS_Subset DEF WalkRank
<1>. QED  BY <1>3, <1>5

(* If no document left its place, none lost its rank.                      *)
LEMMA WalkPlacedGrows ==
    ASSUME NEW a, NEW b, WalkCollection(b), Walk!Placed(a) \subseteq Walk!Placed(b)
    PROVE  /\ Walk!Visible(a) \subseteq Walk!Visible(b)
           /\ WalkSize(a) <= WalkSize(b)
           /\ \A d \in Walk!Visible(a) : WalkRank(a, d) <= WalkRank(b, d)
<1>1. ASSUME NEW d \in Walk!Visible(a) PROVE d \in Walk!Visible(b) /\ b[d].key = a[d].key
  <2>1. <<d, a[d].key>> \in Walk!Placed(b)
    BY DEF Walk!Placed
  <2>2. PICK e \in Walk!Visible(b) : <<d, a[d].key>> = <<e, b[e].key>>
    BY <2>1 DEF Walk!Placed
  <2>. QED  BY <2>2
<1>2. IsFiniteSet(Walk!Visible(b)) /\ \A d : IsFiniteSet(WalkBelow(b, d))
  BY WalkSizes
<1>3. Walk!Visible(a) \subseteq Walk!Visible(b)
  BY <1>1
<1>4. WalkSize(a) <= WalkSize(b)
  BY <1>2, <1>3, FS_Subset DEF WalkSize
<1>5. ASSUME NEW d \in Walk!Visible(a) PROVE WalkRank(a, d) <= WalkRank(b, d)
  <2>1. WalkBelow(a, d) \subseteq WalkBelow(b, d)
    BY <1>1 DEF WalkBelow
  <2>. QED  BY <1>2, <2>1, FS_Subset DEF WalkRank
<1>. QED  BY <1>3, <1>4, <1>5

(* In every order a document that shares its key with no other stands      *)
(* right after those with a smaller key.                                   *)
LEMMA WalkPosition ==
    ASSUME Keys \subseteq Int, NEW docs, WalkCollection(docs), NEW q \in Walk!Orders(docs)
    PROVE  /\ q \in Seq(Nat) /\ Len(q) = WalkSize(docs)
           /\ \A i, j \in 1 .. Len(q) : q[i] = q[j] => i = j
           /\ \A d \in Walk!Visible(docs) : \E i \in 1 .. Len(q) : q[i] = d
           /\ \A i \in 1 .. Len(q) : /\ q[i] \in Walk!Visible(docs)
                                     /\ q[i] \notin Walk!Ties(docs) =>
                                            WalkRank(docs, q[i]) = i - 1
<1>. DEFINE n == WalkSize(docs)
            V == Walk!Visible(docs)
<1>1. /\ IsFiniteSet(V) /\ n \in Nat /\ V \subseteq Nat
      /\ \A d \in V : docs[d].key \in Int
  BY WalkSizes DEF WalkCollection, Walk!Visible, Walk!Documents
<1>2. /\ q \in [1 .. n -> V] /\ Walk!IsInjective(q)
      /\ \A i, j \in DOMAIN q : i < j => docs[q[i]].key <= docs[q[j]].key
  BY WalkSameSize DEF Walk!Orders, WalkSize
<1>. HIDE DEF n, V
<1>3. q \in Seq(Nat) /\ Len(q) = n
  <2>1. q \in [1 .. n -> Nat]
    BY <1>1, <1>2
  <2>. QED  BY <1>1, <2>1, LenProperties, IsASeq
<1>4. \A i, j \in 1 .. n : q[i] = q[j] => i = j
  BY <1>2 DEF Walk!IsInjective
<1>5. \A d \in V : \E i \in 1 .. n : q[i] = d
  <2>1. q \in Injection(1 .. n, V)
    BY <1>2, <1>4 DEF Injection, IsInjective
  <2>2. IsFiniteSet(1 .. n) /\ Cardinality(1 .. n) = n
    BY <1>1, FS_Interval
  <2>3. Cardinality(1 .. n) = Cardinality(V)
    BY <2>2 DEF n, V, WalkSize
  <2>4. q \in Surjection(1 .. n, V)
    BY <1>1, <2>1, <2>3, FS_Injection
  <2>. QED  BY <2>4 DEF Surjection
<1>6. ASSUME NEW i \in 1 .. n, q[i] \notin Walk!Ties(docs)
      PROVE  WalkRank(docs, q[i]) = i - 1
  <2>. DEFINE B == WalkBelow(docs, q[i])
              g == [j \in 1 .. (i - 1) |-> q[j]]
  <2>1. \A j \in 1 .. n : j # i => docs[q[j]].key # docs[q[i]].key
    BY <1>2, <1>4, <1>6 DEF Walk!Ties, V
  <2>2. \A j \in 1 .. n : docs[q[j]].key < docs[q[i]].key <=> j < i
    <3>. SUFFICES ASSUME NEW j \in 1 .. n
                  PROVE  docs[q[j]].key < docs[q[i]].key <=> j < i
      OBVIOUS
    <3>1. docs[q[j]].key \in Int /\ docs[q[i]].key \in Int
      BY <1>1, <1>2
    <3>2. j < i => docs[q[j]].key <= docs[q[i]].key
      BY <1>2
    <3>3. i < j => docs[q[i]].key <= docs[q[j]].key
      BY <1>2
    <3>. QED  BY <1>1, <2>1, <3>1, <3>2, <3>3
  <2>3. /\ 1 .. (i - 1) \subseteq 1 .. n /\ i - 1 \in Nat
        /\ \A j \in 1 .. n : j < i <=> j \in 1 .. (i - 1)
    BY <1>1
  <2>4. g \in Bijection(1 .. (i - 1), B)
    <3>1. \A j \in 1 .. (i - 1) : q[j] \in B
      BY <1>2, <2>2, <2>3 DEF WalkBelow, V
    <3>2. \A e \in B : \E j \in 1 .. (i - 1) : q[j] = e
      BY <1>5, <2>2, <2>3 DEF WalkBelow, V
    <3>3. \A j, k \in 1 .. (i - 1) : q[j] = q[k] => j = k
      BY <1>4, <2>3
    <3>. HIDE DEF B
    <3>. QED  BY <3>1, <3>2, <3>3 DEF Bijection, Injection, Surjection, IsInjective
  <2>5. ExistsBijection(1 .. (i - 1), B)
    BY <2>4 DEF ExistsBijection
  <2>. HIDE DEF B
  <2>6. Cardinality(B) = i - 1
    BY <2>3, <2>5, FS_CountingElements
  <2>. QED  BY <2>6 DEF B, WalkRank
<1>7. \A i \in 1 .. n : q[i] \in V
  BY <1>2
<1>. QED  BY <1>3, <1>4, <1>5, <1>6, <1>7 DEF n, V

(* Where a page begins and ends.                                           *)
LEMMA WalkPageEnds ==
    ASSUME NEW p \in Nat, p > 0, NEW l \in Nat
    PROVE  (p - 1) * l \in Nat /\ p * l \in Nat /\ p * l = (p - 1) * l + l
<1>1. p - 1 \in Nat /\ p = (p - 1) + 1
  OBVIOUS
<1>2. ASSUME NEW m \in Nat PROVE m * l \in Nat /\ (m + 1) * l = m * l + l
  OBVIOUS
<1>3. (p - 1) * l \in Nat /\ ((p - 1) + 1) * l = (p - 1) * l + l
  BY <1>1, <1>2
<1>. QED  BY <1>1, <1>3

(* A part of a list has the documents of the list in its order.            *)
LEMMA WalkPart ==
    ASSUME NEW v \in Seq(Nat), NEW low \in Nat \ {0}, NEW to \in Nat,
           low <= to, to <= Len(v)
    PROVE  /\ SubSeq(v, low, to) \in Seq(Nat)
           /\ Len(SubSeq(v, low, to)) = to - low + 1
           /\ \A i \in 1..(to - low + 1) : SubSeq(v, low, to)[i] = v[low + i - 1]
BY SubSeqProperties

(* A page is the part of the list between the two.                         *)
LEMMA WalkWindow ==
    ASSUME NEW v \in Seq(Nat), listPage \in Nat, listPage > 0, listLimit \in Nat
    PROVE  LET w == Walk!Window(v)
               r == (listPage - 1) * listLimit
               q == listPage * listLimit
           IN  /\ w \in Seq(Nat) /\ r \in Nat /\ q \in Nat
               /\ \A k \in 1..Len(v) : r < k /\ k <= q => v[k] \in Walk!ToSet(w)
               /\ \A i \in 1..Len(w) : r + i \in 1..Len(v) /\ r + i <= q /\ w[i] = v[r + i]
               /\ WalkLeast(r, Len(v)) + Len(w) = WalkLeast(q, Len(v))
<1>. DEFINE r == (listPage - 1) * listLimit
            q == listPage * listLimit
            to == IF q < Len(v) THEN q ELSE Len(v)
            w == SubSeq(v, r + 1, to)
<1>1. r \in Nat /\ q \in Nat /\ r <= q
  <2>1. r \in Nat /\ q \in Nat /\ q = r + listLimit
    BY WalkPageEnds
  <2>. HIDE DEF r, q
  <2>. QED  BY <2>1
<1>2. Walk!Window(v) = w
  BY DEF Walk!Window
<1>. HIDE DEF r, q
<1>3. Len(v) \in Nat /\ to \in Nat /\ to <= Len(v) /\ to <= q
  BY <1>1
<1>4. \A k \in 1..Len(v) : k <= q => k <= to
  BY <1>1
<1>5. to = WalkLeast(q, Len(v))
  BY <1>1, <1>3 DEF WalkLeast
<1>. HIDE DEF to
<1>6. CASE r + 1 <= to
  <2>1. w \in Seq(Nat) /\ Len(w) = to - r /\ \A i \in 1..(to - r) : w[i] = v[r + i]
    <3>1. PICK low : low = r + 1
      OBVIOUS
    <3>2. low \in Nat \ {0} /\ low <= to /\ to - low + 1 = to - r
      BY <1>1, <1>3, <1>6, <3>1
    <3>3. w = SubSeq(v, low, to)
      BY <3>1
    <3>. HIDE DEF w
    <3>4. w \in Seq(Nat) /\ Len(w) = to - r /\ \A i \in 1..(to - r) : w[i] = v[low + i - 1]
      <4>1. /\ w \in Seq(Nat) /\ Len(w) = to - low + 1
            /\ \A i \in 1..(to - low + 1) : w[i] = v[low + i - 1]
        BY <1>3, <3>2, <3>3, WalkPart
      <4>. QED  BY <3>2, <4>1
    <3>5. \A i \in 1..(to - r) : low + i - 1 = r + i
      BY <1>1, <1>3, <3>1
    <3>. QED  BY <3>4, <3>5
  <2>. HIDE DEF w
  <2>2. ASSUME NEW k \in 1..Len(v), r < k, k <= q PROVE v[k] \in Walk!ToSet(w)
    <3>1. k - r \in 1..(to - r) /\ r + (k - r) = k
      BY <1>1, <1>3, <1>4, <2>2
    <3>2. w[k - r] = v[k] /\ k - r \in DOMAIN w
      BY <2>1, <3>1
    <3>. QED  BY <3>2 DEF Walk!ToSet
  <2>3. ASSUME NEW i \in 1..Len(w)
        PROVE  r + i \in 1..Len(v) /\ r + i <= q /\ w[i] = v[r + i]
    <3>1. i \in 1..(to - r)
      BY <2>1
    <3>2. w[i] = v[r + i]
      BY <2>1, <3>1
    <3>3. r + i \in 1..Len(v) /\ r + i <= q
      BY <1>1, <1>3, <3>1
    <3>. QED  BY <3>2, <3>3
  <2>4. WalkLeast(r, Len(v)) + Len(w) = WalkLeast(q, Len(v))
    <3>1. WalkLeast(r, Len(v)) = r
      BY <1>1, <1>3, <1>6 DEF WalkLeast
    <3>2. r + (to - r) = to
      BY <1>1, <1>3
    <3>. QED  BY <1>5, <2>1, <3>1, <3>2
  <2>. QED  BY <1>1, <1>2, <2>1, <2>2, <2>3, <2>4 DEF r, q
<1>7. CASE ~(r + 1 <= to)
  <2>1. w = << >>
    BY <1>1, <1>3, <1>7
  <2>2. \A k \in 1..Len(v) : ~(r < k /\ k <= q)
    BY <1>1, <1>3, <1>4, <1>7
  <2>3. WalkLeast(r, Len(v)) = WalkLeast(q, Len(v))
    BY <1>1, <1>3, <1>5, <1>7 DEF WalkLeast
  <2>. HIDE DEF w
  <2>4. w \in Seq(Nat) /\ Len(w) = 0
    BY <2>1
  <2>5. WalkLeast(r, Len(v)) + Len(w) = WalkLeast(q, Len(v))
    BY <1>1, <1>3, <2>3, <2>4 DEF WalkLeast
  <2>6. 1 .. Len(w) = {}
    BY <2>4
  <2>. QED  BY <1>1, <1>2, <2>2, <2>4, <2>5, <2>6 DEF r, q
<1>. QED  BY <1>6, <1>7

-----------------------------------------------------------------------------
(* The first documents, and a client that has asked for nothing.           *)
LEMMA WalkInitStep ==
    ASSUME Asked \subseteq Nat, ListPage \in Nat, AtStart \in Nat, Walk!Init
    PROVE  WalkIInv
<1>1. listLimit \in Nat
  <2>1. PICK asked \in Asked : listLimit = Walk!LimitOf(asked)
    BY DEF Walk!Init
  <2>. QED  BY <2>1 DEF Walk!LimitOf
<1>2. WalkCollection(listDocuments) /\ listCreated \in Nat
  <2>1. PICK n \in 0 .. AtStart :
            listDocuments \in [1 .. n -> Walk!Documents] /\ listCreated = n
    BY DEF Walk!Init
  <2>2. n \in Nat /\ 1 .. n \subseteq Nat /\ IsFiniteSet(1 .. n)
    BY FS_Interval
  <2>. QED  BY <2>1, <2>2 DEF WalkCollection
<1>3. /\ listPage = 0 /\ listTodo = {} /\ listData = <<>> /\ listTotal = 0
      /\ listShown = <<>> /\ listDone = FALSE /\ listExpected = {}
  BY DEF Walk!Init
<1>4. DOMAIN listShown = {} /\ DOMAIN listData = {} /\ WalkGiven = {}
  BY <1>3 DEF WalkGiven, Walk!ToSet
<1>5. WalkShapes
  BY <1>1, <1>2, <1>3 DEF WalkShapes
<1>6. WalkNoneLost /\ WalkCounted /\ WalkNumbered
  BY <1>3 DEF WalkNoneLost, WalkCounted, WalkNumbered
<1>7. WalkOnce
  BY <1>4 DEF WalkOnce, WalkNoTwice, Walk!ToSet
<1>. QED  BY <1>5, <1>6, <1>7 DEF WalkIInv

(* The next page is asked for: what was read ends where it begins.         *)
LEMMA WalkAskStep ==
    ASSUME WalkIInv, Walk!Ask
    PROVE  WalkIInv'
<1>1. /\ listTodo = {} /\ ~listDone /\ listPage' = listPage + 1
      /\ listTodo' = {"find", "countDocuments"} /\ listDocuments' = listDocuments
      /\ listCreated' = listCreated /\ listLimit' = listLimit /\ listData' = listData
      /\ listTotal' = listTotal /\ listShown' = listShown /\ listDone' = listDone
      /\ listRemovals' = listRemovals /\ listInsertions' = listInsertions
      /\ listSplit' = listSplit
  BY DEF Walk!Ask, Walk!answer
<1>2. WalkShapes
  BY DEF WalkIInv
<1>3. /\ listPage \in Nat /\ listLimit \in Nat /\ listData = <<>>
      /\ listPage' \in Nat /\ listPage' > 0 /\ listPage' - 1 = listPage
  BY <1>1, <1>2 DEF WalkShapes
<1>4. WalkReached' = WalkReached /\ WalkGiven' = WalkGiven
  BY <1>1, <1>3 DEF WalkReached, WalkGiven
<1>5. \A d : WalkRank(listDocuments, d) \in Nat
  BY <1>2, WalkSizes DEF WalkShapes
<1>6. WalkSize(listDocuments) \in Nat
  BY <1>2, WalkSizes DEF WalkShapes
<1>7. CASE listPage = 0
  <2>1. /\ listExpected' = Walk!Visible(listDocuments) /\ listTied' = Walk!Ties(listDocuments)
        /\ listShown = <<>>
    BY <1>2, <1>7 DEF Walk!Ask, WalkShapes
  <2>2. WalkReached = 0
    BY <1>1, <1>3, <1>7 DEF WalkReached
  <2>3. DOMAIN listShown = {} /\ DOMAIN listData = {} /\ WalkGiven = {}
    BY <1>3, <2>1 DEF WalkGiven, Walk!ToSet
  <2>4. WalkShapes'
    BY <1>1, <1>2, <1>3, <2>1 DEF WalkShapes
  <2>5. WalkNoneLost'
    BY <1>1, <1>4, <1>5, <2>1, <2>2 DEF WalkNoneLost
  <2>6. WalkCounted'
    BY <1>1 DEF WalkCounted
  <2>7. WalkOnce'
    BY <1>1, <1>4, <2>3 DEF WalkOnce, WalkNoTwice, Walk!ToSet
  <2>8. WalkNumbered'
    <3>1. Len(listShown) + Len(listData) = WalkLeast(0, WalkSize(listDocuments))
      BY <1>3, <1>6, <2>1 DEF WalkLeast
    <3>2. {"find", "countDocuments"} \notin {{"find"}, {"answer"}}
      OBVIOUS
    <3>. QED  BY <1>1, <1>4, <2>1, <2>2, <3>1, <3>2 DEF WalkNumbered
  <2>. QED  BY <2>4, <2>5, <2>6, <2>7, <2>8 DEF WalkIInv
<1>8. CASE listPage > 0
  <2>1. listExpected' = listExpected /\ listTied' = listTied
    BY <1>3, <1>8 DEF Walk!Ask
  <2>2. WalkShapes'
    BY <1>1, <1>2, <1>3, <1>8, <2>1 DEF WalkShapes
  <2>3. WalkNoneLost'
    BY <1>1, <1>4, <1>8, <2>1 DEF WalkIInv, WalkNoneLost
  <2>4. WalkCounted'
    BY <1>1 DEF WalkCounted
  <2>5. WalkOnce'
    BY <1>1, <1>4, <2>1 DEF WalkIInv, WalkOnce, WalkNoTwice
  <2>6. WalkNumbered'
    <3>1. {"find", "countDocuments"} \notin {{"find"}, {"answer"}}
      OBVIOUS
    <3>. QED  BY <1>1, <1>4, <1>8, <2>1, <3>1 DEF WalkIInv, WalkNumbered
  <2>. QED  BY <2>2, <2>3, <2>4, <2>5, <2>6 DEF WalkIInv
<1>. QED  BY <1>3, <1>7, <1>8

(* A page: what had not been given and stands on it is given now.          *)
LEMMA WalkFindStep ==
    ASSUME Keys \subseteq Int, WalkIInv, Walk!Find
    PROVE  WalkIInv'
<1>. DEFINE docs == listDocuments
            low == (listPage - 1) * listLimit
            high == listPage * listLimit
<1>1. /\ "find" \in listTodo /\ listDocuments' = docs /\ listCreated' = listCreated
      /\ listTodo' = IF listTodo = {"find"} THEN {"answer"} ELSE {"countDocuments"}
      /\ listLimit' = listLimit /\ listPage' = listPage /\ listTotal' = listTotal
      /\ listShown' = listShown /\ listDone' = listDone
      /\ listExpected' = listExpected /\ listTied' = listTied
      /\ listRemovals' = listRemovals /\ listInsertions' = listInsertions
      /\ listSplit' = listSplit
  BY DEF Walk!Find, Walk!history
<1>2. PICK q \in Walk!Orders(docs) : listData' = Walk!Window(q)
  BY DEF Walk!Find
<1>3. WalkShapes
  BY DEF WalkIInv
<1>4. /\ WalkCollection(docs) /\ listPage \in Nat /\ listLimit \in Nat /\ listPage > 0
      /\ listData = <<>> /\ ~listDone /\ Walk!Ties(docs) \subseteq listTied
  BY <1>1, <1>3 DEF WalkShapes
<1>5. WalkReached = low /\ WalkReached' = high
  BY <1>1 DEF WalkReached
<1>6. /\ q \in Seq(Nat) /\ Len(q) = WalkSize(docs)
      /\ \A i, j \in 1 .. Len(q) : q[i] = q[j] => i = j
      /\ \A d \in Walk!Visible(docs) : \E i \in 1 .. Len(q) : q[i] = d
      /\ \A i \in 1 .. Len(q) : /\ q[i] \in Walk!Visible(docs)
                                /\ q[i] \notin Walk!Ties(docs) =>
                                       WalkRank(docs, q[i]) = i - 1
  BY <1>4, WalkPosition
<1>7. /\ listData' \in Seq(Nat) /\ low \in Nat /\ high \in Nat
      /\ \A k \in 1 .. Len(q) : low < k /\ k <= high => q[k] \in Walk!ToSet(listData')
      /\ \A i \in 1 .. Len(listData') :
             low + i \in 1 .. Len(q) /\ low + i <= high /\ listData'[i] = q[low + i]
      /\ WalkLeast(low, Len(q)) + Len(listData') = WalkLeast(high, Len(q))
  BY <1>2, <1>4, <1>6, WalkWindow
<1>8. low <= high
  BY <1>4, <1>7, WalkPageEnds
<1>9. WalkSize(docs) \in Nat /\ \A d : WalkRank(docs, d) \in Nat
  BY <1>4, WalkSizes
<1>10. /\ DOMAIN listData' = 1 .. Len(listData')
       /\ \A d \in Walk!ToSet(listData') : \E i \in 1 .. Len(listData') : d = listData'[i]
  BY <1>7, LenProperties DEF Walk!ToSet
<1>11. WalkGiven = Walk!ToSet(listShown)
  BY <1>4 DEF WalkGiven, Walk!ToSet
<1>12. WalkGiven' = Walk!ToSet(listShown) \cup Walk!ToSet(listData')
  BY <1>1 DEF WalkGiven
<1>13. \A d \in Walk!ToSet(listData') \ listTied :
           low <= WalkRank(docs, d) /\ WalkRank(docs, d) < high
  <2>. SUFFICES ASSUME NEW d \in Walk!ToSet(listData') \ listTied
                PROVE  low <= WalkRank(docs, d) /\ WalkRank(docs, d) < high
    OBVIOUS
  <2>1. PICK i \in 1 .. Len(listData') : d = listData'[i]
    BY <1>10
  <2>2. low + i \in 1 .. Len(q) /\ low + i <= high /\ d = q[low + i]
    BY <1>7, <2>1
  <2>3. WalkRank(docs, d) = (low + i) - 1
    BY <1>4, <1>6, <2>2
  <2>. HIDE DEF low, high
  <2>4. i \in Nat /\ i >= 1
    BY <1>7
  <2>. QED  BY <1>7, <1>9, <2>2, <2>3, <2>4
<1>14. Walk!ToSet(listData') \subseteq Walk!Visible(docs)
  BY <1>6, <1>7, <1>10
<1>. HIDE DEF low, high, docs
<1>15. WalkShapes'
  BY <1>1, <1>3, <1>4, <1>7 DEF WalkShapes, docs
<1>16. WalkNoneLost'
  <2>. SUFFICES ASSUME ~listRemovals, NEW d \in listExpected \ listTied
                PROVE  /\ d \in Walk!Visible(docs)
                       /\ d \in WalkGiven' \/ high <= WalkRank(docs, d)
    BY <1>1, <1>5 DEF WalkNoneLost
  <2>1. d \in Walk!Visible(docs) /\ (d \in WalkGiven \/ low <= WalkRank(docs, d))
    BY <1>4, <1>5 DEF WalkIInv, WalkNoneLost, docs
  <2>2. ASSUME low <= WalkRank(docs, d) PROVE d \in WalkGiven' \/ high <= WalkRank(docs, d)
    <3>1. PICK i \in 1 .. Len(q) : q[i] = d
      BY <1>6, <2>1
    <3>2. WalkRank(docs, d) = i - 1 /\ i \in Nat
      BY <1>4, <1>6, <3>1
    <3>3. i <= high => d \in Walk!ToSet(listData')
      BY <1>7, <2>2, <3>1, <3>2
    <3>4. i <= high \/ high <= i - 1
      BY <1>7, <3>2
    <3>. QED  BY <1>12, <3>2, <3>3, <3>4
  <2>. QED  BY <1>11, <1>12, <2>1, <2>2
<1>17. WalkCounted'
  <2>1. ~listDone' /\ listTodo' # {"find"}
    BY <1>1, <1>4
  <2>2. ASSUME ~listRemovals, ~listSplit, listTodo' = {"answer"}, listTotal <= high,
               NEW d \in listExpected \ listTied
        PROVE  d \in WalkGiven'
    <3>1. listTodo = {"find"}
      BY <1>1, <2>2
    <3>2. WalkSize(docs) <= listTotal /\ listTotal \in Nat
      BY <1>3, <2>2, <3>1 DEF WalkIInv, WalkCounted, WalkShapes, docs
    <3>3. d \in Walk!Visible(docs) /\ (d \in WalkGiven' \/ high <= WalkRank(docs, d))
      BY <1>1, <1>4, <1>5, <1>16, <2>2 DEF WalkNoneLost
    <3>4. WalkRank(docs, d) < WalkSize(docs)
      BY <1>4, <3>3, WalkRankBelowSize
    <3>. QED  BY <1>7, <1>9, <2>2, <3>2, <3>3, <3>4
  <2>3. high = listPage * listLimit
    BY DEF high
  <2>. QED  BY <1>1, <2>1, <2>2, <2>3 DEF WalkCounted
<1>18. WalkOnce'
  <2>. SUFFICES ASSUME ~listInsertions
                PROVE  /\ WalkNoTwice(listShown') /\ WalkNoTwice(listData')
                       /\ Walk!ToSet(listShown) \cap Walk!ToSet(listData') \subseteq listTied
                       /\ \A d \in (WalkGiven' \cap Walk!Visible(docs)) \ listTied :
                              WalkRank(docs, d) < high
    BY <1>1, <1>5 DEF WalkOnce, WalkNoTwice
  <2>1. /\ WalkNoTwice(listShown)
        /\ \A d \in (WalkGiven \cap Walk!Visible(docs)) \ listTied :
               WalkRank(docs, d) < low
    BY <1>5 DEF WalkIInv, WalkOnce, docs
  <2>2. ASSUME NEW i \in DOMAIN listData', NEW j \in DOMAIN listData',
               listData'[i] = listData'[j]
        PROVE  i = j
    <3>1. i \in 1 .. Len(listData') /\ j \in 1 .. Len(listData')
      BY <1>10
    <3>2. /\ low + i \in 1 .. Len(q) /\ listData'[i] = q[low + i]
          /\ low + j \in 1 .. Len(q) /\ listData'[j] = q[low + j]
      BY <1>7, <3>1
    <3>3. low + i = low + j
      BY <1>6, <2>2, <3>2
    <3>4. i \in Nat /\ j \in Nat
      BY <3>1
    <3>5. low \in Nat
      BY <1>7
    <3>. QED  BY <3>3, <3>4, <3>5
  <2>3. WalkNoTwice(listShown') /\ WalkNoTwice(listData')
    BY <1>1, <2>1, <2>2 DEF WalkNoTwice
  <2>4. ASSUME NEW d \in Walk!ToSet(listShown) \cap Walk!ToSet(listData')
        PROVE  d \in listTied
    <3>. SUFFICES ASSUME d \notin listTied PROVE FALSE
      OBVIOUS
    <3>1. low <= WalkRank(docs, d)
      BY <1>13
    <3>2. WalkRank(docs, d) < low
      BY <1>11, <1>14, <2>1
    <3>. QED  BY <1>7, <1>9, <3>1, <3>2
  <2>5. ASSUME NEW d \in (WalkGiven' \cap Walk!Visible(docs)) \ listTied
        PROVE  WalkRank(docs, d) < high
    <3>1. CASE d \in Walk!ToSet(listShown)
      <4>1. WalkRank(docs, d) < low
        BY <1>11, <2>1, <3>1
      <4>. QED  BY <1>7, <1>8, <1>9, <4>1 DEF low, high
    <3>2. CASE d \in Walk!ToSet(listData')
      BY <1>13, <3>2
    <3>. QED  BY <1>12, <3>1, <3>2
  <2>. QED  BY <2>3, <2>4, <2>5
<1>19. WalkNumbered'
  <2>. SUFFICES ASSUME ~listRemovals, ~listInsertions
                PROVE  /\ listExpected = Walk!Visible(docs)
                       /\ Len(listShown) + Len(listData') = WalkLeast(high, WalkSize(docs))
                       /\ listTodo' \in {{"find"}, {"answer"}} => listTotal = WalkSize(docs)
    BY <1>1, <1>4, <1>5 DEF WalkNumbered
  <2>1. /\ listExpected = Walk!Visible(docs)
        /\ Len(listShown) + Len(listData) = WalkLeast(low, WalkSize(docs))
        /\ listTodo \in {{"find"}, {"answer"}} => listTotal = WalkSize(docs)
    BY <1>4, <1>5 DEF WalkIInv, WalkNumbered, docs
  <2>2. Len(listData) = 0 /\ Len(listShown) \in Nat
    BY <1>3, <1>4 DEF WalkShapes
  <2>3. Len(listShown) = WalkLeast(low, Len(q))
    BY <1>6, <2>1, <2>2
  <2>4. listTodo' \in {{"find"}, {"answer"}} => listTodo = {"find"}
    BY <1>1
  <2>. QED  BY <1>6, <1>7, <2>1, <2>3, <2>4
<1>. QED  BY <1>15, <1>16, <1>17, <1>18, <1>19 DEF WalkIInv

(* The number is counted: it is that of the documents there are.           *)
LEMMA WalkCountStep ==
    ASSUME Keys \subseteq Int, WalkIInv, Walk!CountDocuments
    PROVE  WalkIInv'
<1>1. /\ "countDocuments" \in listTodo /\ listDocuments' = listDocuments
      /\ listCreated' = listCreated /\ listTotal' = WalkSize(listDocuments)
      /\ listTodo' = IF listTodo = {"countDocuments"} THEN {"answer"} ELSE {"find"}
      /\ listLimit' = listLimit /\ listPage' = listPage /\ listData' = listData
      /\ listShown' = listShown /\ listDone' = listDone
      /\ listExpected' = listExpected /\ listTied' = listTied
      /\ listRemovals' = listRemovals /\ listInsertions' = listInsertions
      /\ listSplit' = listSplit
  BY WalkSameSize DEF Walk!CountDocuments, Walk!history, WalkSize
<1>2. WalkShapes
  BY DEF WalkIInv
<1>3. /\ WalkCollection(listDocuments) /\ listPage \in Nat /\ listLimit \in Nat
      /\ listPage > 0 /\ ~listDone
      /\ listTodo \in {{"countDocuments"}, {"find", "countDocuments"}}
  BY <1>1, <1>2 DEF WalkShapes
<1>4. WalkReached' = WalkReached /\ WalkGiven' = WalkGiven
  BY <1>1, <1>3 DEF WalkReached, WalkGiven
<1>5. WalkSize(listDocuments) \in Nat /\ \A d : WalkRank(listDocuments, d) \in Nat
  BY <1>3, WalkSizes
<1>6. WalkShapes'
  <2>1. "find" \in listTodo' => "find" \in listTodo
    BY <1>1, <1>3
  <2>2. listTodo' \in {{"find"}, {"answer"}} /\ listTodo # {}
    BY <1>1, <1>3
  <2>. QED  BY <1>1, <1>2, <1>3, <1>5, <2>1, <2>2 DEF WalkShapes
<1>7. WalkNoneLost'
  BY <1>1, <1>4 DEF WalkIInv, WalkNoneLost
<1>8. WalkCounted'
  <2>1. ASSUME ~listRemovals, listTodo' = {"answer"},
               WalkSize(listDocuments) <= listPage * listLimit,
               NEW d \in listExpected \ listTied
        PROVE  d \in WalkGiven
    <3>1. WalkReached = listPage * listLimit
      BY <1>1, <1>3, <2>1 DEF WalkReached
    <3>2. /\ d \in Walk!Visible(listDocuments)
          /\ d \in WalkGiven \/ listPage * listLimit <= WalkRank(listDocuments, d)
      BY <1>3, <2>1, <3>1 DEF WalkIInv, WalkNoneLost
    <3>3. WalkRank(listDocuments, d) < WalkSize(listDocuments)
      BY <1>3, <3>2, WalkRankBelowSize
    <3>4. listPage * listLimit \in Nat
      BY <1>3, WalkPageEnds
    <3>5. PICK n : n = listPage * listLimit
      OBVIOUS
    <3>. QED  BY <1>5, <2>1, <3>2, <3>3, <3>4, <3>5
  <2>2. WalkSize(listDocuments) <= WalkSize(listDocuments)
    BY <1>5
  <2>. QED  BY <1>1, <1>3, <1>4, <2>1, <2>2 DEF WalkCounted
<1>9. WalkOnce'
  BY <1>1, <1>4 DEF WalkIInv, WalkOnce, WalkNoTwice
<1>10. WalkNumbered'
  BY <1>1, <1>3, <1>4 DEF WalkIInv, WalkNumbered
<1>. QED  BY <1>6, <1>7, <1>8, <1>9, <1>10 DEF WalkIInv

(* The page is shown, and the number says whether there is a next one.     *)
LEMMA WalkAnswerStep ==
    ASSUME WalkIInv, Walk!Answer
    PROVE  WalkIInv'
<1>1. /\ listTodo = {"answer"} /\ listTodo' = {} /\ listShown' = listShown \o listData
      /\ listDone' = ~(listPage * listLimit < listTotal)
      /\ listData' = <<>> /\ listTotal' = 0
      /\ listDocuments' = listDocuments /\ listCreated' = listCreated
      /\ listLimit' = listLimit /\ listPage' = listPage
      /\ listExpected' = listExpected /\ listTied' = listTied
      /\ listRemovals' = listRemovals /\ listInsertions' = listInsertions
      /\ listSplit' = listSplit
  BY DEF Walk!Answer, Walk!history
<1>2. WalkShapes
  BY DEF WalkIInv
<1>3. /\ WalkCollection(listDocuments) /\ listPage \in Nat /\ listLimit \in Nat
      /\ listPage > 0 /\ listTotal \in Nat /\ listShown \in Seq(Nat) /\ listData \in Seq(Nat)
  BY <1>1, <1>2 DEF WalkShapes
<1>4. /\ listShown' \in Seq(Nat) /\ Len(listShown') = Len(listShown) + Len(listData)
      /\ Len(listShown) \in Nat /\ Len(listData) \in Nat
      /\ DOMAIN listShown = 1 .. Len(listShown) /\ DOMAIN listData = 1 .. Len(listData)
      /\ DOMAIN listShown' = 1 .. Len(listShown')
  BY <1>1, <1>3, ConcatProperties, LenProperties
<1>5. \A i \in DOMAIN listShown' :
          \/ i \in DOMAIN listShown /\ listShown'[i] = listShown[i]
          \/ i - Len(listShown) \in DOMAIN listData
             /\ listShown'[i] = listData[i - Len(listShown)]
  <2>. SUFFICES ASSUME NEW i \in 1 .. (Len(listShown) + Len(listData))
                PROVE  \/ i \in 1 .. Len(listShown) /\ listShown'[i] = listShown[i]
                       \/ i - Len(listShown) \in 1 .. Len(listData)
                          /\ listShown'[i] = listData[i - Len(listShown)]
    BY <1>4
  <2>1. listShown'[i] = IF i <= Len(listShown) THEN listShown[i]
                        ELSE listData[i - Len(listShown)]
    BY <1>1, <1>3, ConcatProperties
  <2>2. i <= Len(listShown) => i \in 1 .. Len(listShown)
    BY <1>4
  <2>3. ~(i <= Len(listShown)) => i - Len(listShown) \in 1 .. Len(listData)
    BY <1>4
  <2>. QED  BY <2>1, <2>2, <2>3
<1>6. Walk!ToSet(listShown') = WalkGiven
  <2>1. Walk!ToSet(listShown') \subseteq WalkGiven
    BY <1>5 DEF WalkGiven, Walk!ToSet
  <2>2. ASSUME NEW i \in 1 .. Len(listShown) PROVE listShown[i] \in Walk!ToSet(listShown')
    <3>1. i \in 1 .. (Len(listShown) + Len(listData)) /\ i <= Len(listShown)
      BY <1>4
    <3>2. listShown'[i] = listShown[i]
      BY <1>1, <1>3, <3>1, ConcatProperties
    <3>. QED  BY <1>4, <3>1, <3>2 DEF Walk!ToSet
  <2>3. ASSUME NEW i \in 1 .. Len(listData) PROVE listData[i] \in Walk!ToSet(listShown')
    <3>1. Len(listShown) \in Nat /\ Len(listData) \in Nat
      BY <1>4
    <3>2. PICK k : k = Len(listShown) + i
      OBVIOUS
    <3>3. k \in 1 .. (Len(listShown) + Len(listData)) /\ ~(k <= Len(listShown))
      BY <3>1, <3>2
    <3>4. k - Len(listShown) = i
      BY <3>1, <3>2
    <3>5. listShown'[k] = listData[i]
      BY <1>1, <1>3, <3>3, <3>4, ConcatProperties
    <3>. QED  BY <1>4, <3>3, <3>5 DEF Walk!ToSet
  <2>. QED  BY <1>4, <2>1, <2>2, <2>3 DEF WalkGiven, Walk!ToSet
<1>7. DOMAIN listData' = {} /\ Walk!ToSet(listData') = {}
  BY <1>1 DEF Walk!ToSet
<1>8. WalkGiven' = WalkGiven
  BY <1>6, <1>7 DEF WalkGiven
<1>9. WalkReached = listPage * listLimit /\ WalkReached' = listPage * listLimit
  BY <1>1 DEF WalkReached
<1>10. WalkShapes'
  BY <1>1, <1>2, <1>3, <1>4 DEF WalkShapes
<1>11. WalkNoneLost'
  BY <1>1, <1>8, <1>9 DEF WalkIInv, WalkNoneLost
<1>12. listDone' => listTotal <= listPage * listLimit
  <2>1. listPage * listLimit \in Nat
    BY <1>3, WalkPageEnds
  <2>2. ASSUME NEW n \in Nat, ~(n < listTotal) PROVE listTotal <= n
    BY <1>3, <2>2
  <2>3. listDone' => ~(listPage * listLimit < listTotal)
    BY <1>1, Zenon
  <2>. QED  BY <2>1, <2>2, <2>3
<1>13. WalkCounted'
  BY <1>1, <1>6, <1>12 DEF WalkIInv, WalkCounted
<1>14. WalkOnce'
  <2>. SUFFICES ASSUME ~listInsertions
                PROVE  /\ WalkNoTwice(listShown')
                       /\ \A d \in (WalkGiven \cap Walk!Visible(listDocuments)) \ listTied :
                              WalkRank(listDocuments, d) < listPage * listLimit
    BY <1>1, <1>7, <1>8, <1>9 DEF WalkOnce, WalkNoTwice
  <2>1. /\ WalkNoTwice(listShown) /\ WalkNoTwice(listData)
        /\ Walk!ToSet(listShown) \cap Walk!ToSet(listData) \subseteq listTied
    BY DEF WalkIInv, WalkOnce
  <2>2. ASSUME NEW i \in DOMAIN listShown', NEW j \in DOMAIN listShown',
               listShown'[i] = listShown'[j], listShown'[i] \notin listTied
        PROVE  i = j
    <3>1. CASE i \in DOMAIN listShown /\ listShown'[i] = listShown[i]
      <4>1. ~(j - Len(listShown) \in DOMAIN listData
              /\ listShown'[j] = listData[j - Len(listShown)])
        BY <2>1, <2>2, <3>1 DEF Walk!ToSet
      <4>2. j \in DOMAIN listShown /\ listShown'[j] = listShown[j]
        BY <1>5, <4>1
      <4>. QED  BY <2>1, <2>2, <3>1, <4>2 DEF WalkNoTwice
    <3>2. CASE i - Len(listShown) \in DOMAIN listData
               /\ listShown'[i] = listData[i - Len(listShown)]
      <4>1. ~(j \in DOMAIN listShown /\ listShown'[j] = listShown[j])
        BY <2>1, <2>2, <3>2 DEF Walk!ToSet
      <4>2. /\ j - Len(listShown) \in DOMAIN listData
            /\ listShown'[j] = listData[j - Len(listShown)]
        BY <1>5, <4>1
      <4>3. i - Len(listShown) = j - Len(listShown)
        BY <2>1, <2>2, <3>2, <4>2 DEF WalkNoTwice
      <4>4. i \in Nat /\ j \in Nat /\ Len(listShown) \in Nat
        BY <1>4
      <4>. QED  BY <4>3, <4>4
    <3>. QED  BY <1>5, <3>1, <3>2
  <2>3. WalkNoTwice(listShown')
    BY <2>2 DEF WalkNoTwice
  <2>4. \A d \in (WalkGiven \cap Walk!Visible(listDocuments)) \ listTied :
            WalkRank(listDocuments, d) < listPage * listLimit
    BY <1>9 DEF WalkIInv, WalkOnce
  <2>. QED  BY <2>3, <2>4
<1>15. WalkNumbered'
  <2>. SUFFICES ASSUME ~listRemovals, ~listInsertions
                PROVE  /\ listExpected = Walk!Visible(listDocuments)
                       /\ Len(listShown') + 0
                              = WalkLeast(listPage * listLimit, WalkSize(listDocuments))
                       /\ listDone' => WalkSize(listDocuments) <= listPage * listLimit
    BY <1>1, <1>9 DEF WalkNumbered
  <2>1. /\ listExpected = Walk!Visible(listDocuments)
        /\ Len(listShown) + Len(listData)
               = WalkLeast(listPage * listLimit, WalkSize(listDocuments))
        /\ listTotal = WalkSize(listDocuments)
    BY <1>1, <1>3, <1>9 DEF WalkIInv, WalkNumbered
  <2>2. Len(listShown') + 0 = Len(listShown) + Len(listData)
    BY <1>4
  <2>. QED  BY <1>12, <2>1, <2>2
<1>. QED  BY <1>10, <1>11, <1>13, <1>14, <1>15 DEF WalkIInv

(* Another request writes a document.  If none left its place, what the    *)
(* client has still to read only moves on; if none came, what it has read  *)
(* only moves back.                                                        *)
LEMMA WalkBecomeStep ==
    ASSUME WalkIInv, NEW docs, WalkCollection(docs), listCreated' \in Nat, Walk!Become(docs)
    PROVE  WalkIInv'
<1>1. /\ listPage > 0 /\ ~listDone /\ listDocuments' = docs /\ listLimit' = listLimit
      /\ listPage' = listPage /\ listTodo' = listTodo /\ listData' = listData
      /\ listTotal' = listTotal /\ listShown' = listShown /\ listDone' = listDone
      /\ listExpected' = listExpected /\ listTied' = listTied \cup Walk!Ties(docs)
  BY DEF Walk!Become, Walk!answer
<1>2. ~listRemovals' =>
          ~listRemovals /\ Walk!Placed(listDocuments) \subseteq Walk!Placed(docs)
  BY DEF Walk!Become
<1>3. ~listInsertions' =>
          ~listInsertions /\ Walk!Placed(docs) \subseteq Walk!Placed(listDocuments)
  BY DEF Walk!Become
<1>4. ~listSplit' =>
          /\ ~listSplit
          /\ listTodo = {"find"} => Walk!Placed(docs) \subseteq Walk!Placed(listDocuments)
  BY DEF Walk!Become
<1>5. WalkShapes /\ WalkCollection(listDocuments) /\ listTotal \in Nat
  BY DEF WalkIInv, WalkShapes
<1>6. WalkReached' = WalkReached /\ WalkGiven' = WalkGiven
  BY <1>1 DEF WalkReached, WalkGiven
<1>7. /\ WalkSize(listDocuments) \in Nat /\ \A d : WalkRank(listDocuments, d) \in Nat
      /\ WalkSize(docs) \in Nat /\ \A d : WalkRank(docs, d) \in Nat
  BY <1>5, WalkSizes
<1>8. WalkReached \in Nat
  <2>1. listPage \in Nat /\ listLimit \in Nat
    BY <1>5 DEF WalkShapes
  <2>. QED  BY <1>1, <2>1, WalkPageEnds DEF WalkReached
<1>9. WalkShapes'
  BY <1>1, <1>5 DEF WalkShapes
<1>10. WalkNoneLost'
  <2>. SUFFICES ASSUME ~listRemovals', NEW d \in listExpected \ listTied
                PROVE  /\ d \in Walk!Visible(docs)
                       /\ d \in WalkGiven \/ WalkReached <= WalkRank(docs, d)
    BY <1>1, <1>6 DEF WalkNoneLost
  <2>1. /\ d \in Walk!Visible(listDocuments)
        /\ d \in WalkGiven \/ WalkReached <= WalkRank(listDocuments, d)
    BY <1>1, <1>2 DEF WalkIInv, WalkNoneLost
  <2>2. /\ d \in Walk!Visible(docs)
        /\ WalkRank(listDocuments, d) <= WalkRank(docs, d)
    BY <1>2, <2>1, WalkPlacedGrows
  <2>. QED  BY <1>7, <1>8, <2>1, <2>2
<1>11. WalkCounted'
  <2>1. ASSUME ~listRemovals', ~listSplit', listTodo = {"find"}
        PROVE  WalkSize(docs) <= listTotal
    <3>1. WalkSize(docs) <= WalkSize(listDocuments)
      BY <1>4, <1>5, <2>1, WalkPlacedGrows
    <3>2. WalkSize(listDocuments) <= listTotal
      BY <1>2, <1>4, <2>1 DEF WalkIInv, WalkCounted
    <3>. QED  BY <1>5, <1>7, <3>1, <3>2
  <2>2. ASSUME ~listRemovals', ~listSplit', listTodo = {"answer"},
               listTotal <= listPage * listLimit
        PROVE  listExpected \ listTied \subseteq WalkGiven
    BY <1>2, <1>4, <2>2 DEF WalkIInv, WalkCounted
  <2>. QED  BY <1>1, <1>6, <2>1, <2>2 DEF WalkCounted
<1>12. WalkOnce'
  <2>. SUFFICES ASSUME ~listInsertions'
                PROVE  /\ WalkNoTwice(listShown)' /\ WalkNoTwice(listData)'
                       /\ Walk!ToSet(listShown) \cap Walk!ToSet(listData) \subseteq listTied'
                       /\ \A d \in (WalkGiven \cap Walk!Visible(docs)) \ listTied' :
                              WalkRank(docs, d) < WalkReached
    BY <1>1, <1>6 DEF WalkOnce
  <2>1. WalkOnce /\ ~listInsertions
    BY <1>3 DEF WalkIInv
  <2>2. WalkNoTwice(listShown)' /\ WalkNoTwice(listData)'
    BY <1>1, <2>1 DEF WalkOnce, WalkNoTwice
  <2>3. Walk!ToSet(listShown) \cap Walk!ToSet(listData) \subseteq listTied'
    BY <1>1, <2>1 DEF WalkOnce
  <2>4. ASSUME NEW d \in (WalkGiven \cap Walk!Visible(docs)) \ listTied'
        PROVE  WalkRank(docs, d) < WalkReached
    <3>1. /\ d \in Walk!Visible(listDocuments)
          /\ WalkRank(docs, d) <= WalkRank(listDocuments, d)
      BY <1>3, <1>5, WalkPlacedGrows
    <3>2. WalkRank(listDocuments, d) < WalkReached
      BY <1>1, <2>1, <3>1 DEF WalkOnce
    <3>. QED  BY <1>7, <1>8, <3>1, <3>2
  <2>. QED  BY <2>2, <2>3, <2>4
<1>13. WalkNumbered'
  <2>. SUFFICES ASSUME ~listRemovals', ~listInsertions'
                PROVE  /\ listExpected = Walk!Visible(docs)
                       /\ Len(listShown) + Len(listData)
                              = WalkLeast(WalkReached, WalkSize(docs))
                       /\ listTodo \in {{"find"}, {"answer"}} => listTotal = WalkSize(docs)
    BY <1>1, <1>6 DEF WalkNumbered
  <2>1. Walk!Visible(docs) = Walk!Visible(listDocuments)
    BY <1>2, <1>3, <1>5, WalkPlacedGrows
  <2>2. WalkSize(docs) = WalkSize(listDocuments)
    BY <2>1 DEF WalkSize
  <2>. QED  BY <1>1, <1>2, <1>3, <2>1, <2>2 DEF WalkIInv, WalkNumbered
<1>. QED  BY <1>9, <1>10, <1>11, <1>12, <1>13 DEF WalkIInv

(* A document is created, in the list or not.                              *)
LEMMA WalkCreateStep ==
    ASSUME WalkIInv, Walk!CreateOne
    PROVE  WalkIInv'
<1>1. PICK new \in Walk!Documents :
          Walk!Become([d \in DOMAIN listDocuments \cup {listCreated + 1} |->
                           IF d = listCreated + 1 THEN new ELSE listDocuments[d]])
  BY DEF Walk!CreateOne
<1>. DEFINE D == DOMAIN listDocuments \cup {listCreated + 1}
            docs == [d \in D |-> IF d = listCreated + 1 THEN new ELSE listDocuments[d]]
<1>2. /\ WalkCollection(listDocuments) /\ listCreated \in Nat
      /\ listCreated' = listCreated + 1
  BY DEF WalkIInv, WalkShapes, Walk!CreateOne
<1>3. IsFiniteSet(D) /\ D \subseteq Nat /\ listCreated' \in Nat
  BY <1>2, FS_AddElement DEF WalkCollection
<1>. HIDE DEF D
<1>4. DOMAIN docs = D /\ \A d \in D : docs[d] \in Walk!Documents
  BY <1>2 DEF WalkCollection, D
<1>. HIDE DEF docs
<1>5. WalkCollection(docs)
  BY <1>3, <1>4 DEF WalkCollection
<1>. QED  BY <1>1, <1>3, <1>5, WalkBecomeStep DEF docs, D

(* A document is deleted.                                                  *)
LEMMA WalkRemoveStep ==
    ASSUME WalkIInv, Walk!RemoveOne
    PROVE  WalkIInv'
<1>1. PICK r \in DOMAIN listDocuments :
          Walk!Become([d \in DOMAIN listDocuments \ {r} |-> listDocuments[d]])
  BY DEF Walk!RemoveOne
<1>. DEFINE docs == [d \in DOMAIN listDocuments \ {r} |-> listDocuments[d]]
<1>2. WalkCollection(listDocuments) /\ listCreated' \in Nat
  BY DEF WalkIInv, WalkShapes, Walk!RemoveOne
<1>3. IsFiniteSet(DOMAIN listDocuments \ {r})
  BY <1>2, FS_Subset DEF WalkCollection
<1>4. WalkCollection(docs)
  BY <1>2, <1>3 DEF WalkCollection
<1>. HIDE DEF docs
<1>. QED  BY <1>1, <1>2, <1>4, WalkBecomeStep DEF docs

(* A document changes its status or its key.                               *)
LEMMA WalkChangeStep ==
    ASSUME WalkIInv, Walk!ChangeOne
    PROVE  WalkIInv'
<1>1. PICK c \in DOMAIN listDocuments, new \in Walk!Documents :
          Walk!Become([d \in DOMAIN listDocuments |-> IF d = c THEN new ELSE listDocuments[d]])
  BY DEF Walk!ChangeOne
<1>. DEFINE docs == [d \in DOMAIN listDocuments |-> IF d = c THEN new ELSE listDocuments[d]]
<1>2. WalkCollection(listDocuments) /\ listCreated' \in Nat
  BY DEF WalkIInv, WalkShapes, Walk!ChangeOne
<1>3. WalkCollection(docs)
  BY <1>2 DEF WalkCollection
<1>. HIDE DEF docs
<1>. QED  BY <1>1, <1>2, <1>3, WalkBecomeStep DEF docs

(* Every step of a walk keeps the invariant.                               *)
LEMMA WalkNextStep ==
    ASSUME Keys \subseteq Int, WalkIInv, [Walk!Next]_Walk!vars
    PROVE  WalkIInv'
<1>1. CASE Walk!Next
  BY <1>1, WalkAskStep, WalkFindStep, WalkCountStep, WalkAnswerStep, WalkCreateStep,
     WalkRemoveStep, WalkChangeStep DEF Walk!Next
<1>2. CASE UNCHANGED Walk!vars
  <2>1. /\ UNCHANGED <<listDocuments, listCreated, listLimit, listPage, listTodo, listData>>
        /\ UNCHANGED <<listTotal, listShown, listDone, listExpected, listTied>>
        /\ UNCHANGED <<listRemovals, listInsertions, listSplit>>
    BY <1>2 DEF Walk!vars, Walk!answer, Walk!history
  <2>2. WalkReached' = WalkReached /\ WalkGiven' = WalkGiven
    BY <2>1 DEF WalkReached, WalkGiven
  <2>3. WalkShapes'
    BY <2>1 DEF WalkIInv, WalkShapes
  <2>4. WalkNoneLost' /\ WalkCounted'
    BY <2>1, <2>2 DEF WalkIInv, WalkNoneLost, WalkCounted
  <2>5. WalkOnce' /\ WalkNumbered'
    BY <2>1, <2>2 DEF WalkIInv, WalkOnce, WalkNoTwice, WalkNumbered
  <2>. QED  BY <2>3, <2>4, <2>5 DEF WalkIInv
<1>. QED  BY <1>1, <1>2

(* What the invariant says of a walk that ended.                           *)
LEMMA WalkInvariantIsEnough ==
    ASSUME WalkIInv
    PROVE  Walk!WalkFaithful
<1>1. Walk!NothingMissed
  <2>. SUFFICES ASSUME listDone, ~listRemovals, ~listSplit
                PROVE  listExpected \ listTied \subseteq Walk!ToSet(listShown)
    BY DEF Walk!NothingMissed
  <2>. QED  BY DEF WalkIInv, WalkCounted
<1>2. Walk!NothingTwice
  BY DEF WalkIInv, WalkOnce, WalkNoTwice, Walk!NothingTwice
<1>3. Walk!RightNumber
  <2>. SUFFICES ASSUME listDone, ~listRemovals, ~listInsertions
                PROVE  Len(listShown) = Cardinality(listExpected)
    BY WalkSameSize DEF Walk!RightNumber
  <2>1. /\ listPage > 0 /\ listTodo = {} /\ listData = <<>> /\ Len(listShown) \in Nat
        /\ WalkSize(listDocuments) \in Nat /\ WalkReached \in Nat
    <3>1. WalkShapes
      BY DEF WalkIInv
    <3>2. listPage \in Nat /\ listLimit \in Nat /\ listPage > 0 /\ listTodo = {}
      BY <3>1 DEF WalkShapes
    <3>3. listData = <<>> /\ Len(listShown) \in Nat
      BY <3>1, <3>2 DEF WalkShapes
    <3>4. WalkReached \in Nat
      BY <3>2, WalkPageEnds DEF WalkReached
    <3>5. WalkSize(listDocuments) \in Nat
      BY <3>1, WalkSizes DEF WalkShapes
    <3>. QED  BY <3>2, <3>3, <3>4, <3>5
  <2>2. /\ listExpected = Walk!Visible(listDocuments)
        /\ Len(listShown) + Len(listData) = WalkLeast(WalkReached, WalkSize(listDocuments))
        /\ WalkSize(listDocuments) <= WalkReached
    BY <2>1 DEF WalkIInv, WalkNumbered
  <2>3. Len(listData) = 0
    BY <2>1
  <2>4. Len(listShown) = WalkSize(listDocuments)
    BY <2>1, <2>2, <2>3 DEF WalkLeast
  <2>. QED  BY <2>2, <2>4 DEF WalkSize
<1>. QED  BY <1>1, <1>2, <1>3 DEF Walk!WalkFaithful

(* WalkFaithful: a client that reads a list to its end has seen what was   *)
(* in it all along and shares its key with no other, and nothing of that   *)
(* twice.                                                                  *)
THEOREM WalksAreFaithful ==
    ASSUME Asked \subseteq Nat, ListPage \in Nat, AtStart \in Nat, Keys \subseteq Int
    PROVE  Walk!Spec => []Walk!WalkFaithful
<1>1. Walk!Init => WalkIInv
  BY WalkInitStep
<1>2. WalkIInv /\ [Walk!Next]_Walk!vars => WalkIInv'
  BY WalkNextStep
<1>3. WalkIInv => Walk!WalkFaithful
  BY WalkInvariantIsEnough
<1>. QED  BY <1>1, <1>2, <1>3, PTL DEF Walk!Spec

-----------------------------------------------------------------------------
(***************************************************************************)
(* The schedule engine and the requests of RepaymentSchedule, for every    *)
(* loan at any rational monthly rate: amounts are whole cents and never    *)
(* negative, principal is neither lost nor invented, a regenerated tail    *)
(* has the rows of the full schedule at its prices, rows of an amortising  *)
(* loan cost the level instalment, the last one up to what rounding drifts *)
(* by, and the balloon is left for the end.  The rows of a schedule are a  *)
(* recursive function of the balance; what is said of them is said row by  *)
(* row and added up with FiniteSums.                                       *)
(***************************************************************************)

(* Amounts are whole cents.                                                *)
LEMMA QuotientType ==
    ASSUME NEW a \in Nat, NEW b \in Nat \ {0}
    PROVE  a \div b \in Nat
OBVIOUS

(* A product of naturals is a natural, and one of positive ones positive.  *)
LEMMA ProductType ==
    ASSUME NEW a \in Nat, NEW b \in Nat
    PROVE  a * b \in Nat /\ (a > 0 /\ b > 0 => a * b > 0)
OBVIOUS

(* Rounding a fraction gives whole cents.                                  *)
LEMMA RoundType ==
    ASSUME NEW num \in Nat, NEW den \in Nat \ {0}
    PROVE  Round(num, den) \in Nat
BY QuotientType DEF Round

(* The values of a power are naturals, each the base times the one before. *)
PowersOf(p, base, n) ==
    /\ p \in [0..n -> Nat]
    /\ p[0] = 1 /\ \A k \in 1..n : p[k] = base * p[k - 1]
    /\ Power(base, n) = p[n]

(* Power is the function its recursion describes.                          *)
LEMMA PowerUnfolds ==
    ASSUME NEW base \in Nat, NEW n \in Nat
    PROVE  \E p : PowersOf(p, base, n)
<1>. DEFINE Is(p) == p = [k \in 0..n |-> IF k = 0 THEN 1 ELSE base * p[k - 1]]
            power == CHOOSE p : Is(p)
            step == [ky \in (1..n) \X Nat |-> base * ky[2]]
            S == {k \in 0..n : power[k] \in Nat}
<1>1. step \in [(1..n) \X Nat -> Nat]
  BY ProductType
<1>2. PICK h \in [0..n -> Nat] : Recurs(h, n, 1, step)
  <2>. HIDE DEF step
  <2>. QED  BY <1>1, FunctionByRecursion
<1>3. \A k \in 1..n : h[k] = base * h[k - 1]
  <2>. TAKE k \in 1..n
  <2>1. h[k - 1] \in Nat /\ <<k, h[k - 1]>> \in (1..n) \X Nat
    OBVIOUS
  <2>. QED  BY <1>2, <2>1 DEF Recurs
<1>4. Is(h)
  BY <1>2, <1>3 DEF Recurs
<1>5. Is(power)
  BY <1>4
<1>6. Power(base, n) = power[n]
  BY DEF Power
<1>. HIDE DEF power
<1>7. power[0] = 1 /\ \A k \in 1..n : power[k] = base * power[k - 1]
  BY <1>5
<1>8. 0 \in S
  BY <1>7
<1>9. ASSUME NEW k \in 0..(n - 1), k \in S PROVE k + 1 \in S
  <2>1. k + 1 \in 1..n /\ k + 1 \in 0..n /\ (k + 1) - 1 = k
    OBVIOUS
  <2>2. power[k + 1] = base * power[k]
    BY <1>7, <2>1
  <2>3. power[k] \in Nat
    BY <1>9
  <2>4. power[k + 1] \in Nat
    BY <2>2, <2>3, ProductType
  <2>. QED  BY <2>1, <2>4
<1>. HIDE DEF S
<1>10. 0..n \subseteq S
  BY <1>8, <1>9, SetInduction
<1>11. power \in [0..n -> Nat]
  BY <1>5, <1>10 DEF S
<1>. QED  BY <1>6, <1>7, <1>11 DEF PowersOf

(* A power of a positive base is positive.                                 *)
LEMMA PowersPositive ==
    ASSUME NEW base \in Nat \ {0}, NEW n \in Nat, NEW p, PowersOf(p, base, n)
    PROVE  \A k \in 0..n : p[k] > 0
<1>. DEFINE S == {k \in 0..n : p[k] > 0}
<1>1. 0 \in S
  BY DEF PowersOf
<1>2. ASSUME NEW k \in 0..(n - 1), k \in S PROVE k + 1 \in S
  <2>1. k + 1 \in 1..n /\ k + 1 \in 0..n /\ k \in 0..n /\ (k + 1) - 1 = k
    OBVIOUS
  <2>2. p[k + 1] = base * p[k] /\ p[k] \in Nat /\ p[k] > 0
    BY <1>2, <2>1 DEF PowersOf
  <2>. QED  BY <2>1, <2>2, ProductType
<1>. HIDE DEF S
<1>3. 0..n \subseteq S
  BY <1>1, <1>2, SetInduction
<1>. QED  BY <1>3 DEF S

(* A larger factor and one that is as large make a larger product.         *)
LEMMA ProductGrows ==
    ASSUME NEW a \in Nat, NEW b \in Nat, NEW x \in Nat, NEW y \in Nat, a > b, x >= y, y > 0
    PROVE  a * x > b * y
<1>1. PICK d \in Nat : a = b + 1 + d
  <2>. a - b - 1 \in Nat /\ a = b + 1 + (a - b - 1)
    OBVIOUS
  <2>. QED  OBVIOUS
<1>2. PICK e \in Nat : x = y + e
  <2>. x - y \in Nat /\ x = y + (x - y)
    OBVIOUS
  <2>. QED  OBVIOUS
<1>3. a * x = b * y + b * e + x + d * x
  BY <1>1, <1>2
<1>4. b * e \in Nat /\ d * x \in Nat /\ b * y \in Nat /\ x > 0
  BY <1>2, ProductType
<1>. QED  BY <1>3, <1>4

(* A power of a larger base is larger.                                     *)
LEMMA PowerGrows ==
    ASSUME NEW a \in Nat, NEW b \in Nat \ {0}, a > b, NEW n \in Nat \ {0}
    PROVE  Power(b, n) \in Nat \ {0} /\ Power(a, n) \in Nat /\ Power(a, n) > Power(b, n)
<1>1. PICK p : PowersOf(p, a, n)
  BY PowerUnfolds
<1>2. PICK q : PowersOf(q, b, n)
  BY PowerUnfolds
<1>3. \A k \in 0..n : q[k] > 0
  BY <1>2, PowersPositive
<1>. DEFINE S == {k \in 0..n : p[k] >= q[k] /\ (k > 0 => p[k] > q[k])}
<1>4. 0 \in S
  BY <1>1, <1>2 DEF PowersOf
<1>5. ASSUME NEW k \in 0..(n - 1), k \in S PROVE k + 1 \in S
  <2>1. k + 1 \in 1..n /\ k + 1 \in 0..n /\ k \in 0..n /\ (k + 1) - 1 = k
    OBVIOUS
  <2>2. p[k + 1] = a * p[k] /\ q[k + 1] = b * q[k] /\ p[k] \in Nat /\ q[k] \in Nat
    BY <1>1, <1>2, <2>1 DEF PowersOf
  <2>3. p[k] >= q[k] /\ q[k] > 0
    BY <1>3, <1>5, <2>1
  <2>4. p[k + 1] > q[k + 1]
    BY <2>2, <2>3, ProductGrows
  <2>5. p[k + 1] \in Nat /\ q[k + 1] \in Nat
    BY <1>1, <1>2, <2>1 DEF PowersOf
  <2>. QED  BY <2>1, <2>4, <2>5
<1>. HIDE DEF S
<1>6. 0..n \subseteq S
  BY <1>4, <1>5, SetInduction
<1>7. n \in 0..n
  OBVIOUS
<1>8. p[n] > q[n]
  BY <1>6, <1>7 DEF S
<1>. QED  BY <1>1, <1>2, <1>3, <1>7, <1>8 DEF PowersOf

-----------------------------------------------------------------------------
Rates == [num : Nat, den : Nat \ {0}]

(* Interest is whole cents.                                                *)
LEMMA InterestType ==
    ASSUME NEW balance \in Nat, NEW rate \in Rates
    PROVE  Interest(balance, rate) \in Nat
<1>1. balance * rate.num \in Nat /\ rate.den \in Nat \ {0}
  BY ProductType DEF Rates
<1>. QED  BY <1>1, RoundType DEF Interest

(* The level instalment is whole cents, for any term and rate.             *)
LEMMA InstalmentType ==
    ASSUME NEW principal \in Nat, NEW rate \in Rates, NEW term \in Nat
    PROVE  CalculateMonthlyPayment(principal, rate, term) \in Nat
<1>1. CASE term = 0 \/ principal = 0
  BY <1>1 DEF CalculateMonthlyPayment
<1>2. CASE term > 0 /\ principal > 0 /\ rate.num = 0
  <2>1. CalculateMonthlyPayment(principal, rate, term) = Round(principal, term)
    BY <1>2 DEF CalculateMonthlyPayment
  <2>. QED  BY <1>2, <2>1, RoundType
<1>3. CASE term > 0 /\ principal > 0 /\ rate.num # 0
  <2>. DEFINE grown == Power(rate.den + rate.num, term)
              base  == Power(rate.den, term)
  <2>1. rate.num \in Nat \ {0} /\ rate.den \in Nat \ {0}
    BY <1>3 DEF Rates
  <2>2. base \in Nat \ {0} /\ grown \in Nat /\ grown > base
    <3>1. rate.den + rate.num \in Nat /\ rate.den + rate.num > rate.den /\ term \in Nat \ {0}
      BY <1>3, <2>1
    <3>. QED  BY <2>1, <3>1, PowerGrows
  <2>. HIDE DEF grown, base
  <2>3. principal * rate.num \in Nat
    BY <2>1, ProductType
  <2>4. principal * rate.num * grown \in Nat
    BY <2>2, <2>3, ProductType
  <2>5. grown - base \in Nat \ {0}
    BY <2>2
  <2>6. rate.den * (grown - base) \in Nat \ {0}
    BY <2>1, <2>5, ProductType
  <2>7. CalculateMonthlyPayment(principal, rate, term)
            = Round(principal * rate.num * grown, rate.den * (grown - base))
    BY <1>3 DEF CalculateMonthlyPayment, grown, base
  <2>. QED  BY <2>4, <2>6, <2>7, RoundType
<1>. QED  BY <1>1, <1>2, <1>3

(* An instalment repays a part of the balance, and the last one all of it. *)
LEMMA PartOfBalance ==
    ASSUME NEW t \in ScheduleInput, NEW i \in 1..t.term, NEW balance \in Nat
    PROVE  /\ PrincipalPart(t, i, balance) \in 0..balance
           /\ Larger(0, balance - PrincipalPart(t, i, balance)) = balance - PrincipalPart(t, i, balance)
           /\ i = t.term => PrincipalPart(t, i, balance) = balance
<1>1. t.rate \in Rates /\ t.principal \in Nat /\ t.balloon \in Nat /\ t.term \in Nat /\ t.grace \in Nat
  BY DEF ScheduleInput, Rates
<1>2. Larger(0, t.principal - t.balloon) \in Nat /\ Larger(1, t.term - t.grace) \in Nat
  BY <1>1 DEF Larger
<1>3. Pmt(t) \in Nat
  BY <1>1, <1>2, InstalmentType DEF Pmt
<1>4. Interest(balance, t.rate) \in Nat
  BY <1>1, InterestType
<1>5. PrincipalPart(t, i, balance) \in 0..balance
  BY <1>3, <1>4 DEF PrincipalPart, Lesser, Larger
<1>. QED  BY <1>5 DEF PrincipalPart, Larger

(* The balances of a schedule: each is the one before less its instalment. *)
BalancesOf(b, t) ==
    /\ b \in [0..t.term -> Nat]
    /\ b[0] = t.principal
    /\ \A i \in 1..t.term : b[i] = b[i - 1] - PrincipalPart(t, i, b[i - 1])

(* Balances is the function its recursion describes.                       *)
LEMMA BalancesUnfold ==
    ASSUME NEW t \in ScheduleInput
    PROVE  BalancesOf(Balances(t), t)
<1>. DEFINE n == t.term
            Is(b) == b = [i \in 0..t.term |->
                             IF i = 0 THEN t.principal
                             ELSE Larger(0, b[i - 1] - PrincipalPart(t, i, b[i - 1]))]
            balance == CHOOSE b : Is(b)
            step == [ib \in (1..n) \X Nat |-> Larger(0, ib[2] - PrincipalPart(t, ib[1], ib[2]))]
            S == {k \in 0..n : balance[k] \in Nat}
<1>1. t.principal \in Nat /\ n \in Nat
  BY DEF ScheduleInput
<1>2. step \in [(1..n) \X Nat -> Nat]
  <2>. SUFFICES ASSUME NEW i \in 1..n, NEW b \in Nat
                PROVE  Larger(0, b - PrincipalPart(t, i, b)) \in Nat
    OBVIOUS
  <2>. QED  BY PartOfBalance
<1>3. PICK h \in [0..n -> Nat] : Recurs(h, n, t.principal, step)
  <2>. HIDE DEF step, n
  <2>. QED  BY <1>1, <1>2, FunctionByRecursion
<1>4. \A k \in 1..n : h[k] = Larger(0, h[k - 1] - PrincipalPart(t, k, h[k - 1]))
  <2>. TAKE k \in 1..n
  <2>1. h[k - 1] \in Nat /\ <<k, h[k - 1]>> \in (1..n) \X Nat
    BY <1>1
  <2>. QED  BY <1>3, <2>1 DEF Recurs
<1>5. Is(h)
  <2>1. h[0] = t.principal
    BY <1>3 DEF Recurs
  <2>. QED  BY <1>1, <1>4, <2>1
<1>6. Is(balance)
  BY <1>5
<1>7. Balances(t) = balance
  BY DEF Balances
<1>. HIDE DEF balance
<1>8. balance[0] = t.principal /\
      \A k \in 1..n : balance[k] = Larger(0, balance[k - 1] - PrincipalPart(t, k, balance[k - 1]))
  BY <1>1, <1>6
<1>9. 0 \in S
  BY <1>1, <1>8
<1>10. ASSUME NEW k \in 0..(n - 1), k \in S PROVE k + 1 \in S
  <2>1. k + 1 \in 1..n /\ k + 1 \in 0..n /\ (k + 1) - 1 = k
    BY <1>1
  <2>2. balance[k + 1] = Larger(0, balance[k] - PrincipalPart(t, k + 1, balance[k]))
    BY <1>8, <2>1
  <2>3. balance[k] \in Nat
    BY <1>10
  <2>4. /\ PrincipalPart(t, k + 1, balance[k]) \in 0..balance[k]
        /\ balance[k + 1] = balance[k] - PrincipalPart(t, k + 1, balance[k])
    BY <2>1, <2>2, <2>3, PartOfBalance
  <2>5. balance[k + 1] \in Nat
    BY <2>3, <2>4
  <2>. QED  BY <2>1, <2>5
<1>. HIDE DEF S
<1>11. 0..n \subseteq S
  BY <1>1, <1>9, <1>10, SetInduction
<1>12. balance \in [0..n -> Nat]
  BY <1>6, <1>11 DEF S
<1>13. \A k \in 1..n : balance[k] = balance[k - 1] - PrincipalPart(t, k, balance[k - 1])
  <2>. TAKE k \in 1..n
  <2>1. balance[k - 1] \in Nat
    BY <1>1, <1>12
  <2>. QED  BY <1>8, <2>1, PartOfBalance
<1>. QED  BY <1>7, <1>8, <1>12, <1>13 DEF BalancesOf

-----------------------------------------------------------------------------
EngineRow == [sequence : Nat, due : Nat, principal : Nat,
              interest : Nat, total : Nat, remaining : Nat]

(* Rows of n months that pay off an opening balance: each row repays a     *)
(* part of the balance the row before left, and the last leaves nothing.   *)
PaysOff(rows, opening, n) ==
    /\ rows \in [1..n -> EngineRow]
    /\ \A k \in 1..n :
          /\ rows[k].total = rows[k].principal + rows[k].interest
          /\ rows[k].principal + rows[k].remaining
                = (IF k = 1 THEN opening ELSE rows[k - 1].remaining)
    /\ rows[n].remaining = 0

(* A generated schedule pays off its principal, month by month.            *)
LEMMA SchedulePaysOff ==
    ASSUME NEW t \in ScheduleInput
    PROVE  /\ PaysOff(GenerateRepaymentSchedule(t), t.principal, t.term)
           /\ \A k \in 1..t.term : /\ GenerateRepaymentSchedule(t)[k].sequence = k
                                   /\ GenerateRepaymentSchedule(t)[k].due = t.start + k
<1>. DEFINE b == Balances(t)
            n == t.term
            rows == GenerateRepaymentSchedule(t)
            interest(i) == Interest(b[i - 1], t.rate)
            principal(i) == PrincipalPart(t, i, b[i - 1])
            row(i) == [sequence  |-> i, due |-> t.start + i,
                       principal |-> principal(i), interest |-> interest(i),
                       total     |-> principal(i) + interest(i),
                       remaining |-> b[i]]
<1>1. rows = [i \in 1..n |-> row(i)]
  BY DEF GenerateRepaymentSchedule
<1>2. BalancesOf(b, t)
  BY BalancesUnfold
<1>3. n \in Nat \ {0} /\ t.start \in Nat /\ t.rate \in Rates /\ t.principal \in Nat
  BY DEF ScheduleInput, Rates
<1>. HIDE DEF b, rows
<1>4. ASSUME NEW i \in 1..n
      PROVE  /\ principal(i) \in Nat /\ interest(i) \in Nat /\ b[i - 1] \in Nat /\ b[i] \in Nat
             /\ principal(i) + b[i] = b[i - 1]
             /\ i = n => b[i] = 0
  <2>1. b[i - 1] \in Nat /\ b[i] \in Nat
    BY <1>2, <1>3 DEF BalancesOf
  <2>2. PrincipalPart(t, i, b[i - 1]) \in 0..b[i - 1]
        /\ (i = n => PrincipalPart(t, i, b[i - 1]) = b[i - 1])
    BY <2>1, PartOfBalance
  <2>3. b[i] = b[i - 1] - PrincipalPart(t, i, b[i - 1])
    BY <1>2 DEF BalancesOf
  <2>4. Interest(b[i - 1], t.rate) \in Nat
    BY <1>3, <2>1, InterestType
  <2>. QED  BY <2>1, <2>2, <2>3, <2>4
<1>5. ASSUME NEW i \in 1..n
      PROVE  /\ rows[i] = row(i)
             /\ rows[i].sequence = i /\ rows[i].due = t.start + i
             /\ rows[i].principal = principal(i) /\ rows[i].interest = interest(i)
             /\ rows[i].total = principal(i) + interest(i) /\ rows[i].remaining = b[i]
  <2>. HIDE DEF principal, interest
  <2>1. rows[i] = row(i)
    BY <1>1
  <2>. QED  BY <2>1
<1>6. ASSUME NEW i \in 1..n PROVE rows[i] \in EngineRow
  <2>. HIDE DEF principal, interest
  <2>1. t.start + i \in Nat /\ principal(i) + interest(i) \in Nat /\ i \in Nat
    BY <1>3, <1>4
  <2>2. principal(i) \in Nat /\ interest(i) \in Nat /\ b[i] \in Nat
    BY <1>4
  <2>3. rows[i] = row(i)
    BY <1>5
  <2>. QED  BY <2>1, <2>2, <2>3 DEF EngineRow
<1>7. rows \in [1..n -> EngineRow]
  BY <1>1, <1>6
<1>8. ASSUME NEW k \in 1..n
      PROVE  rows[k].principal + rows[k].remaining
                = (IF k = 1 THEN t.principal ELSE rows[k - 1].remaining)
  <2>. HIDE DEF principal, interest
  <2>1. rows[k].principal = principal(k) /\ rows[k].remaining = b[k]
    BY <1>5
  <2>2. CASE k = 1
    <3>. b[k - 1] = t.principal
      BY <1>2, <2>2 DEF BalancesOf
    <3>. QED  BY <1>4, <2>1, <2>2
  <2>3. CASE k # 1
    <3>1. k - 1 \in 1..n
      BY <2>3, <1>3
    <3>2. rows[k - 1].remaining = b[k - 1]
      BY <1>5, <3>1
    <3>. QED  BY <1>4, <2>1, <2>3, <3>2
  <2>. QED  BY <2>2, <2>3
<1>9. ASSUME NEW k \in 1..n
      PROVE  rows[k].total = rows[k].principal + rows[k].interest
             /\ rows[k].sequence = k /\ rows[k].due = t.start + k
  <2>. HIDE DEF principal, interest
  <2>. QED  BY <1>5
<1>10. rows[n].remaining = 0
  <2>1. n \in 1..n
    BY <1>3
  <2>2. rows[n].remaining = b[n] /\ b[n] = 0
    <3>. HIDE DEF n, principal, interest
    <3>. QED  BY <1>4, <1>5, <2>1
  <2>. QED  BY <2>2
<1>. QED  BY <1>7, <1>8, <1>9, <1>10 DEF PaysOff, rows

-----------------------------------------------------------------------------
(* The rows of n months are a sequence of length n.                        *)
LEMMA RowsAreSequence ==
    ASSUME NEW n \in Nat, NEW rows \in [1..n -> EngineRow]
    PROVE  rows \in Seq(EngineRow) /\ Len(rows) = n /\ (n > 0 => rows # << >>)
OBVIOUS

(* What the first k rows repay, summed up row by row.                      *)
PaidOf(p, rows, n) ==
    /\ p \in [0..n -> Nat]
    /\ p[0] = 0
    /\ \A k \in 1..n : p[k] = p[k - 1] + rows[k].principal

(* PaidUpTo is the function its recursion describes.                       *)
LEMMA PaidUpToUnfolds ==
    ASSUME NEW n \in Nat, NEW rows \in [1..n -> EngineRow]
    PROVE  PaidOf(PaidUpTo(rows), rows, n)
<1>. DEFINE Is(p) == p = [k \in 0..Len(rows) |-> IF k = 0 THEN 0 ELSE p[k - 1] + rows[k].principal]
            paid == CHOOSE p : Is(p)
            step == [kp \in (1..n) \X Nat |-> kp[2] + rows[kp[1]].principal]
            S == {k \in 0..n : paid[k] \in Nat}
<1>1. Len(rows) = n
  BY RowsAreSequence
<1>2. \A k \in 1..n : rows[k].principal \in Nat
  BY DEF EngineRow
<1>3. step \in [(1..n) \X Nat -> Nat]
  BY <1>2
<1>4. PICK h \in [0..n -> Nat] : Recurs(h, n, 0, step)
  <2>. HIDE DEF step
  <2>. QED  BY <1>3, FunctionByRecursion
<1>5. \A k \in 1..n : h[k] = h[k - 1] + rows[k].principal
  <2>. TAKE k \in 1..n
  <2>1. h[k - 1] \in Nat /\ <<k, h[k - 1]>> \in (1..n) \X Nat
    OBVIOUS
  <2>. QED  BY <1>4, <2>1 DEF Recurs
<1>6. Is(h)
  BY <1>1, <1>4, <1>5 DEF Recurs
<1>7. Is(paid)
  BY <1>6
<1>8. PaidUpTo(rows) = paid
  BY DEF PaidUpTo
<1>. HIDE DEF paid
<1>9. paid[0] = 0 /\ \A k \in 1..n : paid[k] = paid[k - 1] + rows[k].principal
  BY <1>1, <1>7
<1>10. 0 \in S
  BY <1>9
<1>11. ASSUME NEW k \in 0..(n - 1), k \in S PROVE k + 1 \in S
  <2>1. k + 1 \in 1..n /\ k + 1 \in 0..n /\ (k + 1) - 1 = k
    OBVIOUS
  <2>2. paid[k + 1] = paid[k] + rows[k + 1].principal
    BY <1>9, <2>1
  <2>3. paid[k] \in Nat /\ rows[k + 1].principal \in Nat
    BY <1>2, <1>11, <2>1
  <2>. QED  BY <2>1, <2>2, <2>3
<1>. HIDE DEF S
<1>12. 0..n \subseteq S
  BY <1>10, <1>11, SetInduction
<1>13. paid \in [0..n -> Nat]
  BY <1>1, <1>7, <1>12 DEF S
<1>. QED  BY <1>8, <1>9, <1>13 DEF PaidOf

(* Rows that pay off an opening balance conserve it.                       *)
LEMMA PaysOffConserves ==
    ASSUME NEW n \in Nat \ {0}, NEW rows, NEW opening \in Nat, PaysOff(rows, opening, n)
    PROVE  Conserves(rows, opening)
<1>. DEFINE paid == PaidUpTo(rows)
            S == {k \in 0..n : k > 0 => paid[k] + rows[k].remaining = opening}
<1>1. rows \in [1..n -> EngineRow] /\ Len(rows) = n
  BY RowsAreSequence DEF PaysOff
<1>2. PaidOf(paid, rows, n)
  BY <1>1, PaidUpToUnfolds
<1>3. \A k \in 1..n : rows[k].principal \in Nat /\ rows[k].remaining \in Nat
  BY <1>1 DEF EngineRow
<1>. HIDE DEF paid
<1>4. 0 \in S
  OBVIOUS
<1>5. ASSUME NEW k \in 0..(n - 1), k \in S PROVE k + 1 \in S
  <2>1. k + 1 \in 1..n /\ k + 1 \in 0..n /\ k \in 0..n /\ (k + 1) - 1 = k
    OBVIOUS
  <2>2. paid[k + 1] = paid[k] + rows[k + 1].principal /\ paid[k] \in Nat
    BY <1>2, <2>1 DEF PaidOf
  <2>3. rows[k + 1].principal + rows[k + 1].remaining
            = (IF k + 1 = 1 THEN opening ELSE rows[k].remaining)
    BY <2>1 DEF PaysOff
  <2>4. rows[k + 1].principal \in Nat /\ rows[k + 1].remaining \in Nat
    BY <1>3, <2>1
  <2>5. CASE k = 0
    <3>1. paid[0] = 0
      BY <1>2 DEF PaidOf
    <3>. QED  BY <2>1, <2>2, <2>3, <2>4, <2>5, <3>1
  <2>6. CASE k > 0
    <3>1. paid[k] + rows[k].remaining = opening /\ rows[k].remaining \in Nat
      BY <1>3, <1>5, <2>6
    <3>. QED  BY <2>1, <2>2, <2>3, <2>4, <2>6, <3>1
  <2>. QED  BY <2>5, <2>6
<1>. HIDE DEF S
<1>6. 0..n \subseteq S
  BY <1>4, <1>5, SetInduction
<1>7. \A k \in 1..n : paid[k] + rows[k].remaining = opening
  BY <1>6 DEF S
<1>8. rows[n].remaining = 0
  BY DEF PaysOff
<1>. QED  BY <1>1, <1>7, <1>8 DEF Conserves, paid

(* A regenerated tail pays off what remained, in the months and under the  *)
(* sequences that were left.                                               *)
LEMMA TailPaysOff ==
    ASSUME NEW t \in ScheduleInput, NEW remaining \in Nat \ {0}, NEW f \in 1..t.term
    PROVE  LET rows == RegenerateRemainingSchedule(t, remaining, f)
               left == t.term - f + 1
           IN  /\ PaysOff(rows, remaining, left)
               /\ \A k \in 1..left : /\ rows[k].sequence = f + k - 1
                                     /\ rows[k].due = t.start + f + k - 1
<1>. DEFINE left == t.term - f + 1
            loan(l) == [t EXCEPT !.principal = remaining, !.term = l,
                                 !.start = @ + f - 1, !.grace = 0]
            tailOf(l) == [k \in 1..l |-> [GenerateRepaymentSchedule(loan(l))[k]
                                              EXCEPT !.sequence = f + k - 1]]
            u == loan(left)
            gen == GenerateRepaymentSchedule(u)
            rows == RegenerateRemainingSchedule(t, remaining, f)
<1>1. t.term \in Nat \ {0} /\ t.start \in Nat
  BY DEF ScheduleInput
<1>2. left \in Nat \ {0} /\ t.start + f - 1 \in Nat /\ Larger(0, left) = left
  BY <1>1 DEF Larger
<1>3. u \in ScheduleInput /\ u.principal = remaining /\ u.term = left /\ u.start = t.start + f - 1
  <2>. HIDE DEF left
  <2>. QED  BY <1>2 DEF ScheduleInput
<1>4. /\ PaysOff(gen, remaining, left)
      /\ \A k \in 1..left : gen[k].sequence = k /\ gen[k].due = t.start + f - 1 + k
  <2>. HIDE DEF u, left
  <2>. QED  BY <1>3, SchedulePaysOff
<1>5. rows = [k \in 1..left |-> [gen[k] EXCEPT !.sequence = f + k - 1]]
  <2>1. rows = IF Larger(0, left) = 0 \/ remaining <= 0 THEN << >> ELSE tailOf(Larger(0, left))
    BY DEF RegenerateRemainingSchedule
  <2>. HIDE DEF tailOf, rows, left
  <2>2. rows = tailOf(left)
    BY <1>2, <2>1
  <2>. QED  BY <2>2 DEF tailOf
<1>. HIDE DEF gen, u, rows
<1>6. ASSUME NEW k \in 1..left
      PROVE  /\ gen[k] \in EngineRow
             /\ rows[k] \in EngineRow
             /\ rows[k].sequence = f + k - 1 /\ rows[k].due = t.start + f + k - 1
             /\ rows[k].principal = gen[k].principal /\ rows[k].interest = gen[k].interest
             /\ rows[k].total = gen[k].total /\ rows[k].remaining = gen[k].remaining
  <2>1. gen[k] \in EngineRow
    BY <1>4 DEF PaysOff
  <2>2. rows[k] = [gen[k] EXCEPT !.sequence = f + k - 1]
    BY <1>5
  <2>3. f + k - 1 \in Nat
    BY <1>2
  <2>4. gen[k].due = t.start + f + k - 1
    BY <1>1, <1>2, <1>4
  <2>. QED  BY <2>1, <2>2, <2>3, <2>4 DEF EngineRow
<1>7. rows \in [1..left -> EngineRow]
  BY <1>5, <1>6
<1>8. PaysOff(rows, remaining, left)
  <2>1. left \in 1..left /\ \A k \in 1..left : k # 1 => k - 1 \in 1..left
    BY <1>2
  <2>. HIDE DEF left
  <2>2. rows[left].remaining = 0
    BY <1>4, <1>6, <2>1 DEF PaysOff
  <2>3. ASSUME NEW k \in 1..left
        PROVE  /\ rows[k].total = rows[k].principal + rows[k].interest
               /\ rows[k].principal + rows[k].remaining
                     = (IF k = 1 THEN remaining ELSE rows[k - 1].remaining)
    <3>1. /\ gen[k].total = gen[k].principal + gen[k].interest
          /\ gen[k].principal + gen[k].remaining
                = (IF k = 1 THEN remaining ELSE gen[k - 1].remaining)
      BY <1>4 DEF PaysOff
    <3>2. k # 1 => rows[k - 1].remaining = gen[k - 1].remaining
      BY <1>6, <2>1
    <3>. QED  BY <1>6, <3>1, <3>2
  <2>. QED  BY <1>7, <2>2, <2>3 DEF PaysOff
<1>. QED  BY <1>6, <1>8 DEF rows

-----------------------------------------------------------------------------
(* The quotient is the last multiple that fits.                            *)
LEMMA QuotientBounds ==
    ASSUME NEW a \in Nat, NEW b \in Nat \ {0}
    PROVE  (a \div b) * b <= a /\ a < ((a \div b) + 1) * b
OBVIOUS

(* A product grows with each of its factors.                               *)
LEMMA ProductMonotone ==
    ASSUME NEW a \in Nat, NEW b \in Nat, NEW c \in Nat, a <= b
    PROVE  a * c <= b * c
<1>1. PICK d \in Nat : b = a + d
  <2>. b - a \in Nat /\ b = a + (b - a)
    OBVIOUS
  <2>. QED  OBVIOUS
<1>2. b * c = a * c + d * c
  BY <1>1
<1>. QED  BY <1>2, ProductType

(* A product with a positive factor grows strictly with the other one.     *)
LEMMA ProductGrowsRight ==
    ASSUME NEW a \in Nat, NEW b \in Nat, NEW c \in Nat \ {0}, a < b
    PROVE  a * c < b * c
<1>1. PICK d \in Nat : b = a + 1 + d
  <2>. b - a - 1 \in Nat /\ b = a + 1 + (b - a - 1)
    OBVIOUS
  <2>. QED  OBVIOUS
<1>2. b * c = a * c + c + d * c
  BY <1>1
<1>. QED  BY <1>2, ProductType

(* Rounding keeps the order of fractions.                                  *)
LEMMA RoundMonotone ==
    ASSUME NEW x \in Nat, NEW d \in Nat \ {0}, NEW y \in Nat, NEW e \in Nat \ {0},
           x * e <= y * d
    PROVE  Round(x, d) <= Round(y, e)
<1>. DEFINE q == Round(x, d)
            r == Round(y, e)
<1>1. q \in Nat /\ r \in Nat
  BY RoundType
<1>2. q * (2 * d) <= 2 * x + d
  BY QuotientBounds DEF Round
<1>3. 2 * y + e < (r + 1) * (2 * e)
  BY QuotientBounds DEF Round
<1>. HIDE DEF q, r
<1>. SUFFICES ASSUME r + 1 <= q PROVE FALSE
  BY <1>1 DEF q, r
<1>4. (r + 1) * (2 * e) <= q * (2 * e)
  BY <1>1, ProductMonotone
<1>5. 2 * y + e < q * (2 * e)
  <2>. q * (2 * e) \in Nat /\ (r + 1) * (2 * e) \in Nat
    BY <1>1, ProductType
  <2>. QED  BY <1>3, <1>4
<1>6. (2 * y + e) * d < (q * (2 * e)) * d
  <2>. q * (2 * e) \in Nat
    BY <1>1, ProductType
  <2>. QED  BY <1>5, ProductGrowsRight
<1>7. (q * (2 * d)) * e <= (2 * x + d) * e
  <2>. q * (2 * d) \in Nat
    BY <1>1, ProductType
  <2>. QED  BY <1>2, ProductMonotone
<1>8. (q * (2 * e)) * d = (q * (2 * d)) * e
  BY <1>1
<1>9. (2 * x + d) * e = 2 * (x * e) + d * e /\ (2 * y + e) * d = 2 * (y * d) + d * e
  OBVIOUS
<1>10. x * e \in Nat /\ y * d \in Nat /\ d * e \in Nat
  BY ProductType
<1>11. (2 * y + e) * d \in Nat /\ (q * (2 * e)) * d \in Nat
  BY <1>1, ProductType
<1>. QED  BY <1>6, <1>7, <1>8, <1>9, <1>10, <1>11

(* The level instalment covers the interest on any balance up to what was  *)
(* lent.                                                                   *)
LEMMA InstalmentCovers ==
    ASSUME NEW principal \in Nat, NEW rate \in Rates, NEW term \in Nat \ {0},
           NEW balance \in Nat, balance <= principal
    PROVE  Interest(balance, rate) <= CalculateMonthlyPayment(principal, rate, term)
<1>. DEFINE pmt == CalculateMonthlyPayment(principal, rate, term)
<1>1. rate.num \in Nat /\ rate.den \in Nat \ {0}
  BY DEF Rates
<1>2. pmt \in Nat
  BY InstalmentType
<1>3. balance * rate.num \in Nat
  BY <1>1, ProductType
<1>4. CASE balance * rate.num = 0
  <2>1. Interest(balance, rate) = rate.den \div (2 * rate.den)
    BY <1>1, <1>4 DEF Interest, Round
  <2>2. Interest(balance, rate) \in Nat
    BY <1>1, InterestType
  <2>3. Interest(balance, rate) * (2 * rate.den) <= rate.den
    BY <1>1, <2>1, QuotientBounds
  <2>4. Interest(balance, rate) = 0
    <3>. SUFFICES ASSUME Interest(balance, rate) >= 1 PROVE FALSE
      BY <2>2
    <3>1. 1 * (2 * rate.den) <= Interest(balance, rate) * (2 * rate.den)
      BY <1>1, <2>2, ProductMonotone
    <3>2. Interest(balance, rate) * (2 * rate.den) \in Nat
      BY <1>1, <2>2, ProductType
    <3>. QED  BY <1>1, <2>3, <3>1, <3>2
  <2>. QED  BY <1>2, <2>4
<1>5. CASE balance * rate.num > 0
  <2>. DEFINE grown == Power(rate.den + rate.num, term)
              base  == Power(rate.den, term)
              x == balance * rate.num
              m == grown - base
  <2>1. rate.num > 0 /\ balance > 0 /\ principal > 0
    BY <1>1, <1>5
  <2>2. base \in Nat \ {0} /\ grown \in Nat /\ grown > base
    <3>1. rate.den + rate.num \in Nat /\ rate.den + rate.num > rate.den
      BY <1>1, <2>1
    <3>. QED  BY <1>1, <3>1, PowerGrows
  <2>3. pmt = Round(principal * rate.num * grown, rate.den * (grown - base))
    BY <2>1 DEF CalculateMonthlyPayment
  <2>. HIDE DEF grown, base, pmt
  <2>4. m \in Nat \ {0} /\ m <= grown
    BY <2>2
  <2>5. principal * rate.num \in Nat /\ principal * rate.num * grown \in Nat
        /\ rate.den * m \in Nat \ {0}
    BY <1>1, <2>2, <2>4, ProductType
  <2>6. x <= principal * rate.num
    BY <1>1, ProductMonotone
  <2>. HIDE DEF x, m
  <2>7. x * m <= (principal * rate.num) * grown
    <3>1. x * m <= (principal * rate.num) * m
      BY <1>3, <2>4, <2>5, <2>6, ProductMonotone DEF x
    <3>2. m * (principal * rate.num) <= grown * (principal * rate.num)
      BY <2>2, <2>4, <2>5, ProductMonotone
    <3>. QED  BY <1>3, <2>2, <2>4, <2>5, <3>1, <3>2 DEF x
  <2>8. x * (rate.den * m) <= (principal * rate.num * grown) * rate.den
    <3>1. x \in Nat /\ x * m \in Nat
      BY <1>3, <2>4, ProductType DEF x
    <3>2. (x * m) * rate.den <= (principal * rate.num * grown) * rate.den
      BY <1>1, <2>5, <2>7, <3>1, ProductMonotone
    <3>3. (x * m) * rate.den = x * (rate.den * m)
      BY <1>1, <2>4, <3>1
    <3>. QED  BY <3>2, <3>3
  <2>9. Round(x, rate.den) <= Round(principal * rate.num * grown, rate.den * m)
    BY <1>1, <1>3, <2>5, <2>8, RoundMonotone DEF x
  <2>. QED  BY <2>3, <2>9 DEF Interest, x, m, pmt
<1>. QED  BY <1>3, <1>4, <1>5

(* Within the grace and the last month of an amortising loan without a     *)
(* balloon, a row costs the level instalment or clears the balance.        *)
LEMMA RowLevelOrClears ==
    ASSUME NEW t \in ScheduleInput, t.model = "amortizing", t.balloon = 0,
           NEW k \in (t.grace + 1)..(t.term - 1)
    PROVE  LET row == GenerateRepaymentSchedule(t)[k]
           IN  \/ row.total = CalculateMonthlyPayment(t.principal, t.rate, Larger(1, t.term - t.grace))
               \/ row.remaining = 0
<1>. DEFINE b == Balances(t)
            n == t.term
            row == GenerateRepaymentSchedule(t)[k]
            pmt == CalculateMonthlyPayment(t.principal, t.rate, Larger(1, t.term - t.grace))
            interest == Interest(b[k - 1], t.rate)
            S == {j \in 0..n : b[j] <= t.principal}
<1>1. /\ n \in Nat \ {0} /\ t.grace \in Nat /\ t.principal \in Nat /\ t.rate \in Rates
      /\ k \in 1..n /\ k # n /\ ~(k <= t.grace)
  BY DEF ScheduleInput, Rates
<1>2. BalancesOf(b, t)
  BY BalancesUnfold
<1>3. row.total = PrincipalPart(t, k, b[k - 1]) + interest /\ row.remaining = b[k]
  <2>1. row = [sequence  |-> k, due |-> t.start + k,
               principal |-> PrincipalPart(t, k, b[k - 1]), interest |-> interest,
               total     |-> PrincipalPart(t, k, b[k - 1]) + interest,
               remaining |-> b[k]]
    BY <1>1 DEF GenerateRepaymentSchedule
  <2>. HIDE DEF row, interest, b
  <2>. QED  BY <2>1
<1>. HIDE DEF b, row
<1>4. 0 \in S
  BY <1>1, <1>2 DEF BalancesOf
<1>5. ASSUME NEW j \in 0..(n - 1), j \in S PROVE j + 1 \in S
  <2>1. j + 1 \in 1..n /\ j + 1 \in 0..n /\ j \in 0..n /\ (j + 1) - 1 = j
    BY <1>1
  <2>2. b[j] \in Nat /\ b[j + 1] = b[j] - PrincipalPart(t, j + 1, b[j])
    BY <1>2, <2>1 DEF BalancesOf
  <2>3. PrincipalPart(t, j + 1, b[j]) \in 0..b[j]
    BY <2>1, <2>2, PartOfBalance
  <2>. QED  BY <1>1, <1>5, <2>1, <2>2, <2>3
<1>. HIDE DEF S
<1>6. 0..n \subseteq S
  BY <1>1, <1>4, <1>5, SetInduction
<1>7. b[k - 1] \in 0..t.principal /\ b[k] = b[k - 1] - PrincipalPart(t, k, b[k - 1])
  <2>1. k - 1 \in 0..n
    BY <1>1
  <2>. QED  BY <1>1, <1>2, <1>6, <2>1 DEF S, BalancesOf
<1>8. Larger(1, t.term - t.grace) \in Nat \ {0} /\ Larger(0, t.principal - t.balloon) = t.principal
  BY <1>1 DEF Larger
<1>9. Pmt(t) = pmt
  BY <1>8 DEF Pmt
<1>. HIDE DEF pmt
<1>10. interest <= pmt /\ interest \in Nat /\ pmt \in Nat
  <2>1. b[k - 1] \in Nat /\ b[k - 1] <= t.principal
    BY <1>1, <1>7
  <2>2. interest \in Nat
    BY <1>1, <2>1, InterestType
  <2>3. pmt \in Nat
    BY <1>1, <1>8, InstalmentType DEF pmt
  <2>4. interest <= pmt
    BY <1>1, <1>8, <2>1, InstalmentCovers DEF pmt
  <2>. QED  BY <2>2, <2>3, <2>4
<1>. HIDE DEF interest
<1>11. PrincipalPart(t, k, b[k - 1]) = Lesser(b[k - 1], pmt - interest)
  BY <1>1, <1>9, <1>10 DEF PrincipalPart, Larger, interest
<1>12. row.total = pmt \/ row.remaining = 0
  BY <1>3, <1>7, <1>10, <1>11 DEF Lesser
<1>. QED  BY <1>12 DEF row, pmt

-----------------------------------------------------------------------------
(* The rows the engine has handed out are the ones it computes from the    *)
(* request.                                                                *)
Scheduled == schedule # << >> => schedule = GenerateRepaymentSchedule(request)
Regenerated ==
    tail # << >> =>
        /\ schedule # << >>
        /\ from \in 2..request.term
        /\ schedule[from - 1].remaining > 0
        /\ tail = RegenerateRemainingSchedule(request, schedule[from - 1].remaining, from)
IInv == request \in ScheduleInput /\ from \in Nat /\ Scheduled /\ Regenerated

(* A full schedule, once there is one.                                     *)
LEMMA ScheduleFacts ==
    ASSUME request \in ScheduleInput, Scheduled, schedule # << >>
    PROVE  /\ PaysOff(schedule, request.principal, request.term)
           /\ Len(schedule) = request.term
           /\ request.term \in Nat \ {0} /\ request.start \in Nat
           /\ \A k \in 1..request.term : /\ schedule[k].sequence = k
                                         /\ schedule[k].due = request.start + k
                                         /\ schedule[k].remaining \in Nat
<1>1. request.term \in Nat \ {0} /\ request.start \in Nat
  BY DEF ScheduleInput
<1>2. /\ PaysOff(schedule, request.principal, request.term)
      /\ \A k \in 1..request.term : /\ schedule[k].sequence = k
                                    /\ schedule[k].due = request.start + k
  BY SchedulePaysOff DEF Scheduled
<1>3. schedule \in [1..request.term -> EngineRow]
  BY <1>2 DEF PaysOff
<1>4. Len(schedule) = request.term
  BY <1>1, <1>3, RowsAreSequence
<1>5. \A k \in 1..request.term : schedule[k].remaining \in Nat
  BY <1>3 DEF EngineRow
<1>. QED  BY <1>1, <1>2, <1>4, <1>5

(* The rows are always what the engine computes.                           *)
LEMMA IInvHolds == Spec => []IInv
<1>1. Init => IInv
  BY RequestsAssumption DEF Init, IInv, Scheduled, Regenerated
<1>2. IInv /\ [Next]_vars => IInv'
  <2>. SUFFICES ASSUME IInv, [Next]_vars PROVE IInv'
    OBVIOUS
  <2>1. CASE Generate
    <3>1. tail = << >>
      BY <2>1 DEF IInv, Regenerated, Generate
    <3>. QED  BY <2>1, <3>1 DEF IInv, Scheduled, Regenerated, Generate
  <2>2. ASSUME NEW f \in 2..Len(schedule), Regenerate(f) PROVE IInv'
    <3>1. /\ schedule # << >> /\ UNCHANGED <<request, schedule>> /\ from' = f
          /\ tail' = RegenerateRemainingSchedule(request, schedule[f - 1].remaining, f)
      BY <2>2 DEF Regenerate
    <3>2. /\ Len(schedule) = request.term /\ request.term \in Nat
          /\ \A k \in 1..request.term : schedule[k].remaining \in Nat
      BY <3>1, ScheduleFacts DEF IInv
    <3>3. f \in 2..request.term /\ f - 1 \in 1..request.term
      BY <3>2
    <3>4. schedule[f - 1].remaining \in Nat
      BY <3>2, <3>3
    <3>5. tail' # << >> => schedule[f - 1].remaining > 0
      BY <3>1, <3>4 DEF RegenerateRemainingSchedule
    <3>6. Scheduled'
      BY <3>1 DEF IInv, Scheduled
    <3>7. Regenerated'
      BY <3>1, <3>3, <3>5 DEF Regenerated
    <3>. QED  BY <3>1, <3>3, <3>6, <3>7 DEF IInv
  <2>3. CASE UNCHANGED vars
    BY <2>3 DEF vars, IInv, Scheduled, Regenerated
  <2>. QED  BY <2>1, <2>2, <2>3 DEF Next
<1>. QED  BY <1>1, <1>2, PTL DEF Spec

(* What a tail is, once one has been regenerated.                          *)
LEMMA TailFacts ==
    ASSUME IInv, tail # << >>
    PROVE  /\ from \in 2..request.term
           /\ PaysOff(tail, schedule[from - 1].remaining, request.term - from + 1)
           /\ schedule[from - 1].remaining \in Nat
           /\ request.term - from + 1 \in Nat \ {0}
           /\ Len(tail) = request.term - from + 1
           /\ \A k \in 1..(request.term - from + 1) :
                 /\ tail[k].sequence = from + k - 1
                 /\ tail[k].due = request.start + from + k - 1
<1>. DEFINE remaining == schedule[from - 1].remaining
            left == request.term - from + 1
<1>1. /\ from \in 2..request.term /\ remaining > 0 /\ schedule # << >>
      /\ tail = RegenerateRemainingSchedule(request, remaining, from)
  BY DEF IInv, Regenerated
<1>2. request.term \in Nat /\ \A k \in 1..request.term : schedule[k].remaining \in Nat
  BY <1>1, ScheduleFacts DEF IInv
<1>3. from \in 1..request.term /\ from - 1 \in 1..request.term /\ left \in Nat \ {0}
  BY <1>1, <1>2
<1>4. remaining \in Nat \ {0}
  BY <1>1, <1>2, <1>3
<1>. HIDE DEF remaining
<1>5. /\ PaysOff(tail, remaining, left)
      /\ \A k \in 1..left : /\ tail[k].sequence = from + k - 1
                            /\ tail[k].due = request.start + from + k - 1
  BY <1>1, <1>3, <1>4, TailPaysOff DEF IInv
<1>6. tail \in [1..left -> EngineRow]
  BY <1>5 DEF PaysOff
<1>. HIDE DEF left
<1>7. Len(tail) = left
  BY <1>3, <1>6, RowsAreSequence
<1>. QED  BY <1>1, <1>3, <1>4, <1>5, <1>7 DEF remaining, left

-----------------------------------------------------------------------------
(* Requests, rows and the sequence the tail starts from keep their types:  *)
(* no amount of a schedule is ever negative or a fraction of a cent.       *)
THEOREM EngineTyped == Spec => []TypeOK
<1>1. IInv => TypeOK
  <2>. SUFFICES ASSUME IInv PROVE TypeOK
    OBVIOUS
  <2>1. ASSUME NEW rows \in {schedule, tail}, NEW k \in 1..Len(rows)
        PROVE  rows[k] \in EngineRow
    <3>1. CASE rows = << >>
      BY <3>1
    <3>2. CASE rows = schedule /\ schedule # << >>
      <4>1. schedule \in [1..request.term -> EngineRow] /\ Len(schedule) = request.term
        BY <3>2, ScheduleFacts DEF IInv, PaysOff
      <4>. QED  BY <3>2, <4>1
    <3>3. CASE rows = tail /\ tail # << >>
      <4>. DEFINE left == request.term - from + 1
      <4>1. tail \in [1..left -> EngineRow] /\ Len(tail) = left
        BY <3>3, TailFacts DEF PaysOff
      <4>. QED  BY <3>3, <4>1
    <3>. QED  BY <3>1, <3>2, <3>3
  <2>. QED  BY <2>1 DEF TypeOK, IInv, EngineRow
<1>. QED  BY <1>1, IInvHolds, PTL

(* No cent of principal is lost or invented by rounding, grace months,     *)
(* balloons or the "last row clears" rules, neither in a full schedule nor *)
(* in a regenerated tail, for any loan at any rational rate                *)
(* (schedule.engine.ts:78-146).                                            *)
THEOREM PrincipalAlwaysConserved == Spec => []PrincipalConserved
<1>1. IInv => PrincipalConserved
  <2>. SUFFICES ASSUME IInv PROVE PrincipalConserved
    OBVIOUS
  <2>1. ASSUME schedule # << >> PROVE Conserves(schedule, request.principal)
    <3>1. request.principal \in Nat
      BY DEF IInv, ScheduleInput
    <3>. QED  BY <2>1, <3>1, ScheduleFacts, PaysOffConserves DEF IInv
  <2>2. ASSUME tail # << >> PROVE Conserves(tail, schedule[from - 1].remaining)
    BY <2>2, TailFacts, PaysOffConserves
  <2>. QED  BY <2>1, <2>2 DEF PrincipalConserved
<1>. QED  BY <1>1, IInvHolds, PTL

(* A regenerated tail has a row for each month that is left, in the month  *)
(* and under the sequence the full schedule has it: the anchor and the     *)
(* offset agree (schedule.engine.ts:126-146).                              *)
THEOREM TailAlwaysInPlace == Spec => []TailInPlace
<1>1. IInv => TailInPlace
  <2>. SUFFICES ASSUME IInv, tail # << >>
                PROVE  /\ Len(tail) = Len(schedule) - from + 1
                       /\ \A k \in 1..Len(tail) :
                             /\ tail[k].sequence = schedule[from + k - 1].sequence
                             /\ tail[k].due = schedule[from + k - 1].due
    BY DEF TailInPlace
  <2>1. /\ Len(schedule) = request.term /\ request.term \in Nat /\ request.start \in Nat
        /\ \A k \in 1..request.term : schedule[k].sequence = k /\ schedule[k].due = request.start + k
    BY ScheduleFacts DEF IInv, Regenerated
  <2>2. /\ from \in 2..request.term /\ Len(tail) = request.term - from + 1
        /\ \A k \in 1..(request.term - from + 1) :
              tail[k].sequence = from + k - 1 /\ tail[k].due = request.start + from + k - 1
    BY TailFacts
  <2>3. ASSUME NEW k \in 1..Len(tail)
        PROVE  /\ tail[k].sequence = schedule[from + k - 1].sequence
               /\ tail[k].due = schedule[from + k - 1].due
    <3>1. from + k - 1 \in 1..request.term
      BY <2>1, <2>2
    <3>2. schedule[from + k - 1].sequence = from + k - 1
          /\ schedule[from + k - 1].due = request.start + (from + k - 1)
      BY <2>1, <3>1
    <3>3. tail[k].sequence = from + k - 1 /\ tail[k].due = request.start + from + k - 1
      BY <2>2
    <3>. QED  BY <2>1, <2>2, <3>2, <3>3
  <2>. QED  BY <2>1, <2>2, <2>3
<1>. QED  BY <1>1, IInvHolds, PTL

(* Once the grace is over a row of an amortising loan without a balloon    *)
(* costs the level instalment, or clears the balance, before the last one: *)
(* the instalment covers the interest at every rate                        *)
(* (schedule.engine.ts:93-102).                                            *)
THEOREM LevelUntilAlwaysCleared == Spec => []LevelUntilCleared
<1>1. IInv => LevelUntilCleared
  BY RowLevelOrClears DEF IInv, Scheduled, LevelUntilCleared, LevelPayment, AmortisedMonths
<1>. QED  BY <1>1, IInvHolds, PTL

-----------------------------------------------------------------------------
(***************************************************************************)
(* How far the rounding of a schedule can drift.  Each row rounds its      *)
(* interest by half a cent at most, and the level instalment is off by as  *)
(* much; what a row is off by bears interest until the end.  Over n rows   *)
(* both make up what half a cent a month grows to, and together what a     *)
(* cent a month does (Drift).  All is said of whole numbers: the balance   *)
(* after k rows, times den^k.                                              *)
(***************************************************************************)

(* Products keep the order of their factors.                               *)
LEMMA ProductKeepsOrder ==
    ASSUME NEW a \in Int, NEW b \in Int, NEW c \in Nat, a <= b
    PROVE  a * c <= b * c
<1>1. PICK d \in Nat : b = a + d
  <2>. b - a \in Nat /\ b = a + (b - a)
    OBVIOUS
  <2>. QED  OBVIOUS
<1>2. b * c = a * c + d * c
  BY <1>1
<1>3. d * c \in Nat /\ a * c \in Int
  BY ProductType
<1>. QED  BY <1>2, <1>3

(* And an order of products is one of their factors.                       *)
LEMMA ProductHasOrder ==
    ASSUME NEW a \in Int, NEW b \in Int, NEW c \in Nat \ {0}, a * c <= b * c
    PROVE  a <= b
<1>. SUFFICES ASSUME b + 1 <= a PROVE FALSE
  OBVIOUS
<1>1. (b + 1) * c <= a * c
  BY ProductKeepsOrder
<1>2. (b + 1) * c = b * c + c /\ b * c \in Int /\ a * c \in Int
  OBVIOUS
<1>. QED  BY <1>1, <1>2

(* Rounding is off by half of the divisor at most.                         *)
LEMMA RoundNear ==
    ASSUME NEW x \in Nat, NEW d \in Nat \ {0}
    PROVE  /\ Round(x, d) \in Nat
           /\ 2 * (d * Round(x, d)) <= 2 * x + d /\ 2 * x - d <= 2 * (d * Round(x, d))
<1>. DEFINE q == Round(x, d)
<1>1. q \in Nat
  BY RoundType
<1>2. PICK a \in Nat, b \in Nat \ {0} : a = 2 * x + d /\ b = 2 * d
  OBVIOUS
<1>5. q = a \div b
  BY <1>2 DEF Round
<1>. HIDE DEF q
<1>6. q * b <= a /\ a < (q + 1) * b
  BY <1>2, <1>5, QuotientBounds
<1>3. q * (2 * d) = 2 * (d * q) /\ (q + 1) * (2 * d) = 2 * (d * q) + 2 * d
  BY <1>1
<1>4. d * q \in Nat
  BY <1>1, ProductType
<1>7. 2 * (d * q) <= 2 * x + d /\ 2 * x + d < 2 * (d * q) + 2 * d
  BY ONLY <1>2, <1>3, <1>6
<1>. QED  BY <1>1, <1>4, <1>7 DEF q

(* A power is the base times the one before.                               *)
LEMMA PowerStep ==
    ASSUME NEW base \in Nat \ {0}
    PROVE  /\ Power(base, 0) = 1
           /\ \A n \in Nat : /\ Power(base, n) \in Nat \ {0}
                             /\ Power(base, n + 1) = base * Power(base, n)
<1>1. ASSUME NEW n \in Nat, NEW p, PowersOf(p, base, n), NEW q, PowersOf(q, base, n + 1)
      PROVE  p[n] = q[n]
  <2>. DEFINE S == {k \in 0..n : p[k] = q[k]}
  <2>1. 0 \in S
    BY <1>1 DEF PowersOf
  <2>2. ASSUME NEW k \in 0..(n - 1), k \in S PROVE k + 1 \in S
    <3>1. k + 1 \in 1..n /\ k + 1 \in 1..(n + 1) /\ k + 1 \in 0..n /\ (k + 1) - 1 = k
      OBVIOUS
    <3>2. p[k + 1] = base * p[k] /\ q[k + 1] = base * q[k]
      BY <1>1, <3>1 DEF PowersOf
    <3>. QED  BY <2>2, <3>1, <3>2
  <2>. HIDE DEF S
  <2>3. 0..n \subseteq S
    BY <2>1, <2>2, SetInduction
  <2>4. n \in S
    BY <2>3
  <2>. QED  BY <2>4 DEF S
<1>2. ASSUME NEW n \in Nat
      PROVE  Power(base, n) \in Nat \ {0} /\ Power(base, n + 1) = base * Power(base, n)
  <2>1. PICK p : PowersOf(p, base, n)
    BY PowerUnfolds
  <2>2. PICK q : PowersOf(q, base, n + 1)
    <3>. n + 1 \in Nat
      OBVIOUS
    <3>. QED  BY PowerUnfolds
  <2>3. Power(base, n) = p[n] /\ Power(base, n + 1) = q[n + 1] /\ p[n] \in Nat
    BY <2>1, <2>2 DEF PowersOf
  <2>4. q[n + 1] = base * q[n]
    <3>1. n + 1 \in 1..(n + 1) /\ (n + 1) - 1 = n
      OBVIOUS
    <3>. QED  BY <2>2, <3>1 DEF PowersOf
  <2>5. p[n] > 0
    <3>. n \in 0..n
      OBVIOUS
    <3>. QED  BY <2>1, PowersPositive
  <2>. QED  BY <1>1, <2>1, <2>2, <2>3, <2>4, <2>5
<1>3. Power(base, 0) = 1
  <2>1. PICK p : PowersOf(p, base, 0)
    BY PowerUnfolds
  <2>. QED  BY <2>1 DEF PowersOf
<1>. QED  BY <1>2, <1>3

-----------------------------------------------------------------------------
(* What a cent a month grows to in n months, times den^(n - 1).            *)
Cents(rate, n) ==
    IF n = 0 THEN 0
    ELSE IF rate.num = 0 THEN n * Power(rate.den, n - 1)
    ELSE (Power(rate.den + rate.num, n) - Power(rate.den, n)) \div rate.num

(* The base and the growth of a month.                                     *)
Whole(rate, n) == Power(rate.den, n)
Grown(rate, n) == Power(rate.den + rate.num, n)

(* Their steps.                                                            *)
LEMMA GrowthStep ==
    ASSUME NEW rate \in Rates
    PROVE  /\ rate.num \in Nat /\ rate.den \in Nat \ {0}
           /\ Whole(rate, 0) = 1 /\ Grown(rate, 0) = 1
           /\ \A n \in Nat : Whole(rate, n) \in Nat \ {0} /\ Grown(rate, n) \in Nat \ {0}
           /\ \A n \in Nat : /\ Whole(rate, n + 1) = rate.den * Whole(rate, n)
                             /\ Grown(rate, n + 1) = (rate.den + rate.num) * Grown(rate, n)
<1>1. rate.num \in Nat /\ rate.den \in Nat \ {0} /\ rate.den + rate.num \in Nat
      /\ rate.den + rate.num > 0 /\ rate.den \in Nat
  BY DEF Rates
<1>2. /\ Power(rate.den, 0) = 1
      /\ \A n \in Nat : /\ Power(rate.den, n) \in Nat \ {0}
                        /\ Power(rate.den, n + 1) = rate.den * Power(rate.den, n)
  BY <1>1, PowerStep
<1>3. PICK g \in Nat \ {0} : g = rate.den + rate.num
  BY <1>1
<1>4. /\ Power(g, 0) = 1
      /\ \A n \in Nat : /\ Power(g, n) \in Nat \ {0}
                        /\ Power(g, n + 1) = g * Power(g, n)
  BY <1>3, PowerStep
<1>5. ASSUME NEW n \in Nat
      PROVE  Whole(rate, n) \in Nat \ {0} /\ Grown(rate, n) \in Nat \ {0}
  BY <1>2, <1>3, <1>4 DEF Whole, Grown
<1>. QED  BY <1>1, <1>2, <1>3, <1>4, <1>5 DEF Whole, Grown

(* What a product is divided by one of its factors.                        *)
LEMMA QuotientOfProduct ==
    ASSUME NEW a \in Nat, NEW b \in Nat \ {0}
    PROVE  (b * a) \div b = a
<1>1. PICK q : q = (b * a) \div b
  OBVIOUS
<1>2. b * a \in Nat
  BY ProductType
<1>3. q \in Nat /\ q * b <= b * a /\ b * a < (q + 1) * b
  BY <1>1, <1>2, QuotientBounds, QuotientType
<1>4. b * a = a * b
  OBVIOUS
<1>5. q <= a
  BY <1>3, <1>4, ProductHasOrder
<1>6. ~(q + 1 <= a)
  <2>. SUFFICES ASSUME q + 1 <= a PROVE FALSE
    OBVIOUS
  <2>1. (q + 1) * b <= a * b
    BY <1>3, ProductKeepsOrder
  <2>2. (q + 1) * b \in Nat
    BY <1>3, ProductType
  <2>. QED  BY <1>2, <1>3, <1>4, <2>1, <2>2
<1>. QED  BY <1>1, <1>3, <1>5, <1>6

(* Interest multiplies what has grown, and another cent is added.          *)
LEMMA CentsStep ==
    ASSUME NEW rate \in Rates
    PROVE  /\ Cents(rate, 0) = 0
           /\ \A n \in Nat : /\ Cents(rate, n) \in Nat
                             /\ rate.num * Cents(rate, n) = Grown(rate, n) - Whole(rate, n)
                             /\ Cents(rate, n + 1)
                                    = (rate.den + rate.num) * Cents(rate, n) + Whole(rate, n)
<1>1. PICK N \in Nat, D \in Nat \ {0} : N = rate.num /\ D = rate.den
  BY GrowthStep
<1>2. /\ \A n \in Nat : Whole(rate, n) \in Nat \ {0} /\ Grown(rate, n) \in Nat \ {0}
      /\ \A n \in Nat : /\ Whole(rate, n + 1) = D * Whole(rate, n)
                        /\ Grown(rate, n + 1) = (D + N) * Grown(rate, n)
      /\ Whole(rate, 0) = 1 /\ Grown(rate, 0) = 1
  BY <1>1, GrowthStep
<1>3. Cents(rate, 0) = 0
  BY DEF Cents
<1>4. CASE N = 0
  <2>1. \A n \in Nat : Cents(rate, n + 1) = (n + 1) * Whole(rate, n)
    <3>. TAKE n \in Nat
    <3>1. n + 1 # 0 /\ (n + 1) - 1 = n
      OBVIOUS
    <3>. QED  BY <1>1, <1>4, <3>1 DEF Cents, Whole
  <2>2. \A n \in Nat : Grown(rate, n) = Whole(rate, n)
    BY <1>1, <1>4 DEF Grown, Whole
  <2>3. ASSUME NEW n \in Nat
        PROVE  Cents(rate, n) \in Nat /\ Cents(rate, n + 1) = D * Cents(rate, n) + Whole(rate, n)
    <3>1. CASE n = 0
      <4>1. 0 \in Nat /\ n + 1 = 0 + 1
        BY <3>1
      <4>2. Cents(rate, n + 1) = (0 + 1) * Whole(rate, 0)
        BY ONLY <2>1, <4>1
      <4>3. Cents(rate, n + 1) = 1 /\ Cents(rate, n) = 0 /\ Whole(rate, n) = 1 /\ D * 0 = 0
        BY <1>2, <1>3, <3>1, <4>2
      <4>. QED  BY ONLY <4>3
    <3>2. CASE n > 0
      <4>1. PICK m \in Nat : n = m + 1
        <5>. n - 1 \in Nat /\ n = (n - 1) + 1
          BY <3>2
        <5>. QED  OBVIOUS
      <4>2. PICK w \in Nat : w = Whole(rate, m)
        BY <1>2
      <4>3. Cents(rate, n) = n * w /\ Whole(rate, n) = D * w
        BY <1>2, <2>1, <4>1, <4>2
      <4>4. Cents(rate, n + 1) = (n + 1) * (D * w)
        BY <2>1, <4>3
      <4>5. (n + 1) * (D * w) = D * (n * w) + D * w
        BY <4>2
      <4>. QED  BY <4>2, <4>3, <4>4, <4>5, ProductType
    <3>. QED  BY <3>1, <3>2
  <2>4. ASSUME NEW n \in Nat
        PROVE  N * Cents(rate, n) = 0 /\ Grown(rate, n) - Whole(rate, n) = 0 /\ D + N = D
    BY <1>2, <1>4, <2>2, <2>3
  <2>. QED  BY <1>1, <1>3, <2>3, <2>4
<1>5. CASE N > 0
  <2>1. ASSUME NEW n \in Nat
        PROVE  \E x \in Nat : N * x = Grown(rate, n) - Whole(rate, n)
    <3>. DEFINE S == {k \in 0..n : \E x \in Nat : N * x = Grown(rate, k) - Whole(rate, k)}
    <3>1. 0 \in S
      <4>1. N * 0 = 0 /\ 0 \in 0..n
        BY <1>1
      <4>2. Grown(rate, 0) - Whole(rate, 0) = 0
        BY <1>2
      <4>. QED  BY <4>1, <4>2
    <3>2. ASSUME NEW k \in 0..(n - 1), k \in S PROVE k + 1 \in S
      <4>0. k \in Nat /\ k + 1 \in 0..n
        OBVIOUS
      <4>1. PICK x \in Nat : N * x = Grown(rate, k) - Whole(rate, k)
        BY <3>2
      <4>2. PICK g \in Nat, w \in Nat : g = Grown(rate, k) /\ w = Whole(rate, k)
        BY <1>2, <4>0
      <4>3. Grown(rate, k + 1) = (D + N) * g /\ Whole(rate, k + 1) = D * w
        BY <1>2, <4>0, <4>2
      <4>4. N * ((D + N) * x + w) = (D + N) * (N * x) + N * w
        BY <1>1
      <4>5. N * x = g - w
        BY <4>1, <4>2
      <4>6. (D + N) * (g - w) + N * w = (D + N) * g - D * w
        BY <1>1, <4>2
      <4>7. (D + N) * x + w \in Nat
        BY <1>1, <4>2, ProductType
      <4>8. N * ((D + N) * x + w) = Grown(rate, k + 1) - Whole(rate, k + 1)
        BY ONLY <4>3, <4>4, <4>5, <4>6
      <4>. QED  BY <4>0, <4>7, <4>8
    <3>. HIDE DEF S
    <3>3. 0..n \subseteq S
      BY <3>1, <3>2, SetInduction
    <3>4. n \in S
      BY <3>3
    <3>. QED  BY <3>4 DEF S
  <2>2. ASSUME NEW n \in Nat
        PROVE  Cents(rate, n) \in Nat /\ N * Cents(rate, n) = Grown(rate, n) - Whole(rate, n)
    <3>1. PICK x \in Nat : N * x = Grown(rate, n) - Whole(rate, n)
      BY <2>1
    <3>2. CASE n = 0
      BY <1>1, <1>2, <1>3, <3>2
    <3>3. CASE n > 0
      <4>1. Cents(rate, n) = (Grown(rate, n) - Whole(rate, n)) \div N
        BY <1>1, <1>5, <3>3 DEF Cents, Grown, Whole
      <4>2. (N * x) \div N = x
        BY <1>5, QuotientOfProduct
      <4>3. Cents(rate, n) = x
        BY ONLY <3>1, <4>1, <4>2
      <4>. QED  BY <3>1, <4>3
    <3>. QED  BY <3>2, <3>3
  <2>3. ASSUME NEW n \in Nat
        PROVE  Cents(rate, n + 1) = (D + N) * Cents(rate, n) + Whole(rate, n)
    <3>1. PICK x \in Nat, y \in Nat : x = Cents(rate, n) /\ y = Cents(rate, n + 1)
      <4>. n + 1 \in Nat
        OBVIOUS
      <4>. QED  BY <2>2
    <3>2. PICK g \in Nat, w \in Nat : g = Grown(rate, n) /\ w = Whole(rate, n)
      BY <1>2
    <3>3. N * x = g - w /\ N * y = (D + N) * g - D * w
      <4>. n + 1 \in Nat
        OBVIOUS
      <4>. QED  BY <1>2, <2>2, <3>1, <3>2
    <3>4. N * ((D + N) * x + w) = (D + N) * (N * x) + N * w
      BY <1>1
    <3>5. (D + N) * (g - w) + N * w = (D + N) * g - D * w
      BY <1>1, <3>2
    <3>6. N * ((D + N) * x + w) = N * y
      BY ONLY <3>3, <3>4, <3>5
    <3>7. (D + N) * x + w \in Nat
      BY <1>1, <3>2, ProductType
    <3>8. PICK z \in Nat : z = (D + N) * x + w
      BY <3>7
    <3>9. z * N <= y * N /\ y * N <= z * N
      <4>1. N * z = N * y
        BY ONLY <3>6, <3>8
      <4>2. N * z = z * N /\ N * y = y * N /\ z * N \in Int
        OBVIOUS
      <4>. QED  BY <4>1, <4>2
    <3>10. z = y
      BY <1>5, <3>9, ProductHasOrder
    <3>. QED  BY <3>1, <3>2, <3>8, <3>10
  <2>. QED  BY <1>1, <1>3, <2>2, <2>3
<1>. QED  BY <1>1, <1>4, <1>5

-----------------------------------------------------------------------------
(* The drift is the greatest number of cents that a cent a month grows to. *)
LEMMA DriftIs ==
    ASSUME NEW rate \in Rates, NEW n \in Nat
    PROVE  /\ Drift(rate, n + 1) \in Nat
           /\ Drift(rate, n + 1) * Whole(rate, n) <= Cents(rate, n + 1)
           /\ \A x \in Int : x * Whole(rate, n) <= Cents(rate, n + 1) => x <= Drift(rate, n + 1)
<1>0. n + 1 \in Nat /\ n + 1 # 0 /\ (n + 1) - 1 = n
  OBVIOUS
<1>1. PICK N \in Nat, D \in Nat \ {0} : N = rate.num /\ D = rate.den
  BY GrowthStep
<1>2. PICK w \in Nat \ {0} : w = Whole(rate, n)
  BY GrowthStep
<1>3. PICK a \in Nat : a = Cents(rate, n + 1)
  BY <1>0, CentsStep
<1>4. CASE N = 0
  <2>1. Drift(rate, n + 1) = n + 1 /\ a = (n + 1) * w
    BY <1>0, <1>1, <1>2, <1>3, <1>4 DEF Drift, Cents, Whole
  <2>2. ASSUME NEW x \in Int, x * w <= a PROVE x <= n + 1
    <3>. n + 1 \in Int
      OBVIOUS
    <3>. QED  BY ONLY <1>2, <2>1, <2>2, ProductHasOrder, n + 1 \in Int
  <2>3. (n + 1) * w <= a
    BY <2>1
  <2>. QED  BY <1>0, <1>2, <1>3, <2>1, <2>2, <2>3
<1>5. CASE N > 0
  <2>1. PICK d \in Nat \ {0} : d = N * w
    BY <1>5, ProductType
  <2>2. PICK c \in Nat : c = N * a
    BY ProductType
  <2>3. c = Grown(rate, n + 1) - Whole(rate, n + 1)
    BY <1>0, <1>1, <1>3, <2>2, CentsStep
  <2>4. Drift(rate, n + 1) = c \div d
    BY <1>0, <1>1, <1>2, <1>5, <2>1, <2>3 DEF Drift, Grown, Whole
  <2>5. PICK q \in Nat : q = c \div d
    BY QuotientType
  <2>6. q * d <= c /\ c < (q + 1) * d
    BY <2>5, QuotientBounds
  <2>7. q * w <= a
    <3>1. q * d = (q * w) * N /\ c = a * N
      BY <2>1, <2>2
    <3>2. q * w \in Int
      OBVIOUS
    <3>. QED  BY ONLY <1>5, <2>6, <3>1, <3>2, ProductHasOrder, N \in Nat, a \in Nat
  <2>8. ASSUME NEW x \in Int, x * w <= a PROVE x <= q
    <3>. SUFFICES ASSUME q + 1 <= x PROVE FALSE
      OBVIOUS
    <3>1. (q + 1) * d <= x * d
      BY ProductKeepsOrder
    <3>2. x * d = (x * w) * N /\ c = a * N
      BY <2>1, <2>2
    <3>3. (x * w) * N <= a * N
      <4>. x * w \in Int
        OBVIOUS
      <4>. QED  BY <2>8, ProductKeepsOrder
    <3>4. (q + 1) * d \in Int /\ x * d \in Int
      OBVIOUS
    <3>. QED  BY ONLY <2>6, <3>1, <3>2, <3>3, <3>4, c \in Nat
  <2>. QED  BY <1>2, <1>3, <2>4, <2>5, <2>7, <2>8
<1>. QED  BY <1>4, <1>5

(* It grows with the months, and is two cents after two of them.           *)
LEMMA DriftGrows ==
    ASSUME NEW rate \in Rates, NEW m \in Nat, NEW n \in Nat, m <= n
    PROVE  Drift(rate, m + 1) <= Drift(rate, n + 1)
<1>1. ASSUME NEW k \in Nat
      PROVE  Drift(rate, k + 1) <= Drift(rate, (k + 1) + 1)
  <2>1. PICK N \in Nat, D \in Nat \ {0} : N = rate.num /\ D = rate.den
    BY GrowthStep
  <2>2. PICK w \in Nat, a \in Nat, x \in Nat :
            w = Whole(rate, k) /\ a = Cents(rate, k + 1) /\ x = Drift(rate, k + 1)
    <3>1. Whole(rate, k) \in Nat /\ k + 1 \in Nat
      BY GrowthStep
    <3>2. Cents(rate, k + 1) \in Nat
      BY <3>1, CentsStep
    <3>3. Drift(rate, k + 1) \in Nat
      BY DriftIs
    <3>. QED  BY <3>1, <3>2, <3>3
  <2>3. Whole(rate, k + 1) = D * w /\ Cents(rate, (k + 1) + 1) = (D + N) * a + D * w
    BY <2>1, <2>2, GrowthStep, CentsStep
  <2>4. x * w <= a
    BY <2>2, DriftIs
  <2>5. (x * w) * D <= a * D
    BY <2>4, ProductKeepsOrder
  <2>6. (x * w) * D = x * (D * w) /\ (D + N) * a + D * w = a * D + N * a + D * w
    OBVIOUS
  <2>7. N * a \in Nat /\ D * w \in Nat /\ a * D \in Nat /\ x * (D * w) \in Int
    BY ProductType
  <2>8. x * (D * w) <= (D + N) * a + D * w
    BY ONLY <2>5, <2>6, <2>7
  <2>9. x * Whole(rate, k + 1) <= Cents(rate, (k + 1) + 1)
    BY <2>3, <2>8
  <2>. QED  BY <2>2, <2>9, DriftIs
<1>. DEFINE S == {k \in 0..n : k >= m => Drift(rate, m + 1) <= Drift(rate, k + 1)}
<1>2. \A k \in Nat : Drift(rate, k + 1) \in Nat
  BY DriftIs
<1>3. 0 \in S
  BY <1>2
<1>4. ASSUME NEW k \in 0..(n - 1), k \in S PROVE k + 1 \in S
  <2>1. k + 1 \in 0..n /\ k \in Nat /\ k + 1 \in Nat
    OBVIOUS
  <2>2. /\ Drift(rate, k + 1) <= Drift(rate, (k + 1) + 1)
        /\ Drift(rate, k + 1) \in Nat /\ Drift(rate, (k + 1) + 1) \in Nat
        /\ Drift(rate, m + 1) \in Nat
    BY <1>1, <1>2, <2>1
  <2>3. CASE k >= m
    BY <1>4, <2>1, <2>2, <2>3
  <2>4. CASE k < m
    <3>. k + 1 >= m => m = k + 1
      BY <2>4
    <3>. QED  BY <2>1, <2>2
  <2>. QED  BY <2>3, <2>4
<1>. HIDE DEF S
<1>5. 0..n \subseteq S
  BY <1>3, <1>4, SetInduction
<1>6. n \in S
  BY <1>5
<1>. QED  BY <1>6 DEF S

(* Two months in, what a cent a month grows to is two cents at least.      *)
LEMMA TwoCents ==
    ASSUME NEW rate \in Rates, NEW n \in Nat
    PROVE  /\ Cents(rate, n + 1) >= Whole(rate, n)
           /\ n >= 1 => /\ Cents(rate, n + 1) >= 2 * Whole(rate, n)
                        /\ Drift(rate, n + 1) >= 2
<1>1. PICK N \in Nat, D \in Nat \ {0} : N = rate.num /\ D = rate.den
  BY GrowthStep
<1>2. ASSUME NEW k \in Nat PROVE Cents(rate, k + 1) >= Whole(rate, k)
  <2>1. PICK w \in Nat, a \in Nat : w = Whole(rate, k) /\ a = Cents(rate, k)
    BY GrowthStep, CentsStep
  <2>2. Cents(rate, k + 1) = (D + N) * a + w
    BY <1>1, <2>1, CentsStep
  <2>3. (D + N) * a \in Nat
    BY ProductType
  <2>. QED  BY <2>1, <2>2, <2>3
<1>3. ASSUME n >= 1 PROVE Cents(rate, n + 1) >= 2 * Whole(rate, n) /\ Drift(rate, n + 1) >= 2
  <2>1. PICK k \in Nat : n = k + 1
    <3>. n - 1 \in Nat /\ n = (n - 1) + 1
      BY <1>3
    <3>. QED  OBVIOUS
  <2>2. PICK w \in Nat, a \in Nat : w = Whole(rate, k) /\ a = Cents(rate, k + 1)
    <3>1. Whole(rate, k) \in Nat /\ k + 1 \in Nat
      BY GrowthStep
    <3>2. Cents(rate, k + 1) \in Nat
      BY <3>1, CentsStep
    <3>. QED  BY <3>1, <3>2
  <2>3. Whole(rate, n) = D * w /\ Cents(rate, n + 1) = (D + N) * a + D * w
    BY <1>1, <2>1, <2>2, GrowthStep, CentsStep
  <2>4. w <= a
    BY <1>2, <2>2
  <2>5. w * D <= a * D
    BY <2>4, ProductKeepsOrder
  <2>6. (D + N) * a + D * w = a * D + N * a + D * w /\ w * D = D * w
    OBVIOUS
  <2>7. N * a \in Nat /\ D * w \in Nat /\ a * D \in Nat
    BY ProductType
  <2>8. (D + N) * a + D * w >= 2 * (D * w)
    BY ONLY <2>5, <2>6, <2>7
  <2>9. 2 * Whole(rate, n) <= Cents(rate, n + 1)
    BY <2>3, <2>8
  <2>10. 2 <= Drift(rate, n + 1)
    BY <2>9, DriftIs
  <2>11. Drift(rate, n + 1) \in Nat /\ Cents(rate, n + 1) \in Int /\ Whole(rate, n) \in Int
    BY <2>3, <2>7, DriftIs
  <2>. QED  BY <2>9, <2>10, <2>11
<1>. QED  BY <1>2, <1>3

(* The level instalment is what pays a loan off, give or take half a cent. *)
LEMMA InstalmentNear ==
    ASSUME NEW rate \in Rates, NEW n \in Nat, NEW lent \in Nat,
           NEW q \in Nat, q = CalculateMonthlyPayment(lent, rate, n + 1)
    PROVE  LET month == rate.den * Cents(rate, n + 1)
               ideal == lent * Grown(rate, n + 1)
           IN  2 * (q * month) <= 2 * ideal + month /\ 2 * ideal - month <= 2 * (q * month)
<1>0. n + 1 \in Nat \ {0} /\ n + 1 > 0 /\ (n + 1) - 1 = n
  OBVIOUS
<1>1. PICK N \in Nat, D \in Nat \ {0} : N = rate.num /\ D = rate.den
  BY GrowthStep
<1>2. PICK w \in Nat \ {0}, g \in Nat \ {0}, a \in Nat :
          w = Whole(rate, n) /\ g = Grown(rate, n + 1) /\ a = Cents(rate, n + 1)
  BY <1>0, GrowthStep, CentsStep
<1>3. Whole(rate, n + 1) = D * w /\ N * a = g - D * w /\ a >= w
  <2>1. Whole(rate, n + 1) = D * w
    BY <1>1, <1>2, GrowthStep
  <2>2. rate.num * Cents(rate, n + 1) = Grown(rate, n + 1) - Whole(rate, n + 1)
    BY <1>0, CentsStep
  <2>3. a >= w
    BY <1>2, TwoCents
  <2>. QED  BY <1>1, <1>2, <2>1, <2>2, <2>3
<1>4. D * a \in Nat \ {0}
  BY <1>2, <1>3, ProductType
<1>. SUFFICES 2 * (q * (D * a)) <= 2 * (lent * g) + D * a
              /\ 2 * (lent * g) - D * a <= 2 * (q * (D * a))
  BY <1>1, <1>2
<1>5. CASE lent = 0
  <2>1. q = 0
    BY <1>5 DEF CalculateMonthlyPayment
  <2>. QED  BY <1>4, <1>5, <2>1
<1>6. CASE lent > 0 /\ N = 0
  <2>1. q = Round(lent, n + 1)
    BY <1>0, <1>1, <1>6 DEF CalculateMonthlyPayment
  <2>2. PICK l \in Nat \ {0} : l = n + 1
    OBVIOUS
  <2>3. 2 * (l * q) <= 2 * lent + l /\ 2 * lent - l <= 2 * (l * q)
    BY <2>1, <2>2, RoundNear
  <2>4. a = l * w
    BY <1>0, <1>1, <1>2, <1>6, <2>2 DEF Cents, Whole
  <2>5. g = D * w
    <3>. N * a = 0
      BY <1>6
    <3>. QED  BY <1>2, <1>3, ProductType
  <2>6. (2 * (l * q)) * g <= (2 * lent + l) * g /\ (2 * lent - l) * g <= (2 * (l * q)) * g
    BY <2>3, ProductKeepsOrder
  <2>7. D * a = l * g
    BY <2>4, <2>5
  <2>8. (2 * (l * q)) * g = 2 * (q * (l * g)) /\ (2 * lent + l) * g = 2 * (lent * g) + l * g
        /\ (2 * lent - l) * g = 2 * (lent * g) - l * g
    OBVIOUS
  <2>. QED  BY ONLY <2>6, <2>7, <2>8
<1>7. CASE lent > 0 /\ N > 0
  <2>1. q = Round(lent * N * g, D * (g - D * w))
    BY <1>0, <1>1, <1>2, <1>3, <1>7 DEF CalculateMonthlyPayment, Grown, Whole
  <2>2. PICK x \in Nat, d \in Nat \ {0} : x = lent * N * g /\ d = D * (N * a)
    <3>1. lent * N \in Nat /\ N * a \in Nat /\ N * a > 0
      BY <1>2, <1>3, <1>7, ProductType
    <3>. QED  BY <3>1, ProductType
  <2>3. q = Round(x, d)
    BY <1>3, <2>1, <2>2
  <2>4. 2 * (d * q) <= 2 * x + d /\ 2 * x - d <= 2 * (d * q)
    BY <2>3, RoundNear
  <2>5. PICK i \in Nat, j \in Nat, y \in Int : i = D * a /\ j = lent * g /\ y = q * (D * a)
    <3>1. D * a \in Nat /\ lent * g \in Nat
      BY <1>4, ProductType
    <3>2. q * (D * a) \in Int
      BY <3>1, ProductType
    <3>. QED  BY <3>1, <3>2
  <2>6. d = i * N /\ x = j * N /\ d * q = y * N
    BY <2>2, <2>5
  <2>7. (2 * y) * N <= (2 * j + i) * N /\ (2 * j - i) * N <= (2 * y) * N
    BY <2>4, <2>6
  <2>8. 2 * y <= 2 * j + i
    BY <1>7, <2>7, ProductHasOrder
  <2>9. 2 * j - i <= 2 * y
    BY <1>7, <2>7, ProductHasOrder
  <2>. QED  BY <2>5, <2>8, <2>9
<1>. QED  BY <1>5, <1>6, <1>7

-----------------------------------------------------------------------------
(* What a cent a month grows to, times den^n, and twice the distance of a  *)
(* balance from the one that would be left without rounding.               *)
Month(rate, n) == rate.den * Cents(rate, n)
Astray(rate, lent, q, n, balance) ==
    2 * (lent * Grown(rate, n) - q * Month(rate, n) - Whole(rate, n) * balance)

(* A month adds half a cent to the distance, after interest.               *)
LEMMA DriftStep ==
    ASSUME NEW rate \in Rates, NEW n \in Nat, NEW lent \in Nat, NEW q \in Nat,
           NEW b \in Nat, NEW c \in Int
    PROVE  LET left == b + Interest(b, rate) - q
           IN  /\ (c >= left /\ Astray(rate, lent, q, n, b) <= Month(rate, n))
                      => Astray(rate, lent, q, n + 1, c) <= Month(rate, n + 1)
               /\ (c <= left /\ -Month(rate, n) <= Astray(rate, lent, q, n, b))
                      => -Month(rate, n + 1) <= Astray(rate, lent, q, n + 1, c)
<1>1. PICK N \in Nat, D \in Nat \ {0} : N = rate.num /\ D = rate.den
  BY GrowthStep
<1>2. PICK w \in Nat \ {0}, g \in Nat \ {0}, a \in Nat :
          w = Whole(rate, n) /\ g = Grown(rate, n) /\ a = Cents(rate, n)
  BY GrowthStep, CentsStep
<1>3. /\ Whole(rate, n + 1) = D * w
      /\ Grown(rate, n + 1) = (D + N) * g
      /\ Cents(rate, n + 1) = (D + N) * a + w
  BY <1>1, <1>2, GrowthStep, CentsStep
<1>4. PICK i \in Nat : i = Interest(b, rate)
  BY InterestType
<1>5. 2 * (D * i) <= 2 * (b * N) + D /\ 2 * (b * N) - D <= 2 * (D * i)
  <2>1. PICK x \in Nat : x = b * N
    BY ProductType
  <2>2. i = Round(x, D)
    BY <1>1, <1>4, <2>1 DEF Interest
  <2>. QED  BY <2>1, <2>2, RoundNear
<1>6. PICK off \in Int : off = 2 * (lent * g - q * (D * a) - w * b)
  OBVIOUS
<1>7. PICK new \in Int : new = 2 * (lent * ((D + N) * g) - q * (D * ((D + N) * a + w)) - (D * w) * c)
  OBVIOUS
<1>8. /\ off = Astray(rate, lent, q, n, b) /\ new = Astray(rate, lent, q, n + 1, c)
      /\ Month(rate, n) = D * a /\ Month(rate, n + 1) = D * ((D + N) * a + w)
  BY <1>1, <1>2, <1>3, <1>6, <1>7 DEF Astray, Month
<1>9. PICK e \in Int : c = b + i - q + e
  <2>. c - b - i + q \in Int /\ c = b + i - q + (c - b - i + q)
    OBVIOUS
  <2>. QED  OBVIOUS
<1>10. new = (D + N) * off + (2 * (b * N) - 2 * (D * i)) * w - 2 * ((D * w) * e)
  BY <1>6, <1>7, <1>9
<1>11. (2 * (b * N) - 2 * (D * i)) * w <= D * w /\ (-D) * w <= (2 * (b * N) - 2 * (D * i)) * w
  BY <1>5, ProductKeepsOrder
<1>12. PICK z \in Int, y \in Int, m \in Nat, v \in Nat :
           z = (D + N) * off /\ y = (2 * (b * N) - 2 * (D * i)) * w /\ m = D * a /\ v = D * w
  <2>. D * a \in Nat /\ D * w \in Nat
    BY ProductType
  <2>. QED  OBVIOUS
<1>13. D * ((D + N) * a + w) = (D + N) * m + v /\ (-D) * w = -v /\ (D + N) * (-m) = -((D + N) * m)
  BY <1>12
<1>14. PICK u \in Int : u = (D + N) * m
  OBVIOUS
<1>15. ASSUME e >= 0, off <= m PROVE new <= u + v
  <2>1. off * (D + N) <= m * (D + N)
    BY <1>15, ProductKeepsOrder
  <2>2. off * (D + N) = z /\ m * (D + N) = u
    BY <1>12, <1>14
  <2>3. v * e \in Nat
    BY <1>15, ProductType
  <2>4. new = z + y - 2 * (v * e)
    BY <1>10, <1>12
  <2>5. y <= v
    BY <1>11, <1>12
  <2>. QED  BY ONLY <2>1, <2>2, <2>3, <2>4, <2>5, <1>12, <1>14
<1>16. ASSUME e <= 0, -m <= off PROVE -(u + v) <= new
  <2>1. (-m) * (D + N) <= off * (D + N)
    BY <1>16, ProductKeepsOrder
  <2>2. off * (D + N) = z /\ (-m) * (D + N) = -u
    BY <1>12, <1>14
  <2>3. PICK f \in Nat : e = -f
    <3>. -e \in Nat /\ e = -(-e)
      BY <1>16
    <3>. QED  OBVIOUS
  <2>4. v * f \in Nat /\ v * e = -(v * f)
    BY <2>3, ProductType
  <2>5. new = z + y - 2 * (v * e)
    BY <1>10, <1>12
  <2>6. -v <= y
    BY <1>11, <1>12, <1>13
  <2>. QED  BY ONLY <2>1, <2>2, <2>4, <2>5, <2>6, <1>12, <1>14
<1>17. Month(rate, n) = m /\ Month(rate, n + 1) = u + v
  BY <1>8, <1>12, <1>13, <1>14
<1>18. c >= b + i - q <=> e >= 0
  BY <1>9
<1>19. c <= b + i - q <=> e <= 0
  BY <1>9
<1>. QED  BY <1>4, <1>8, <1>15, <1>16, <1>17, <1>18, <1>19

-----------------------------------------------------------------------------
(* A loan of m + 1 rows at a level instalment q: the balance before each.  *)
Levelled(b, rate, q, m) ==
    /\ b \in [0..m -> Nat]
    /\ \A k \in 1..m : /\ Interest(b[k - 1], rate) <= q
                       /\ b[k] = Larger(0, b[k - 1] + Interest(b[k - 1], rate) - q)

(* What the last row costs, and row k before it.                           *)
LastTotal(b, rate, m) == b[m] + Interest(b[m], rate)
RowTotal(b, rate, k) == b[k - 1] + Interest(b[k - 1], rate) - b[k]

(* Nothing bears no interest.                                              *)
LEMMA NothingBearsNothing == ASSUME NEW rate \in Rates PROVE Interest(0, rate) = 0
<1>1. PICK D \in Nat \ {0}, N \in Nat : D = rate.den /\ N = rate.num
  BY DEF Rates
<1>2. PICK i \in Nat : i = Interest(0, rate)
  BY InterestType
<1>3. i = Round(0, D)
  <2>. 0 * N = 0
    OBVIOUS
  <2>. QED  BY <1>1, <1>2 DEF Interest
<1>4. 2 * (D * i) <= 2 * 0 + D
  BY <1>3, RoundNear
<1>5. i = 0
  <2>. SUFFICES ASSUME 1 <= i PROVE FALSE
    OBVIOUS
  <2>1. 1 * D <= i * D
    BY ProductKeepsOrder
  <2>2. i * D = D * i /\ 1 * D = D /\ D * i \in Nat
    BY ProductType
  <2>. QED  BY <1>4, <2>1, <2>2
<1>. QED  BY <1>2, <1>5

(* So the last row of a loan that is paid off costs nothing.               *)
LEMMA NothingLeft ==
    ASSUME NEW rate \in Rates, NEW b, NEW m, b[m] = 0
    PROVE  LastTotal(b, rate, m) = 0
BY NothingBearsNothing DEF LastTotal

(* A row costs the level instalment, or the balance runs out for good.     *)
LEMMA LevelledRows ==
    ASSUME NEW rate \in Rates, NEW q \in Nat, NEW m \in Nat, NEW b, Levelled(b, rate, q, m)
    PROVE  /\ \A k \in 1..m : /\ b[k] > 0 => b[k - 1] > 0
                              /\ \/ RowTotal(b, rate, k) = q
                                 \/ b[k] = 0 /\ b[m] = 0 /\ RowTotal(b, rate, k) \in 0..q
           /\ \A k \in 0..m : b[k] = 0 => b[m] = 0
<1>1. ASSUME NEW k \in 1..m
      PROVE  /\ b[k - 1] \in Nat /\ b[k] \in Nat /\ Interest(b[k - 1], rate) \in Nat
             /\ Interest(b[k - 1], rate) <= q
             /\ b[k] = Larger(0, b[k - 1] + Interest(b[k - 1], rate) - q)
             /\ b[k - 1] = 0 => b[k] = 0
  <2>1. b[k - 1] \in Nat /\ b[k] \in Nat
    BY DEF Levelled
  <2>2. Interest(b[k - 1], rate) \in Nat
    BY <2>1, InterestType
  <2>3. Interest(b[k - 1], rate) <= q
        /\ b[k] = Larger(0, b[k - 1] + Interest(b[k - 1], rate) - q)
    BY DEF Levelled
  <2>4. b[k - 1] = 0 => Interest(b[k - 1], rate) = 0
    BY NothingBearsNothing
  <2>. QED  BY <2>1, <2>2, <2>3, <2>4 DEF Larger
<1>2. ASSUME NEW k \in 0..m, b[k] = 0 PROVE b[m] = 0
  <2>. DEFINE S == {j \in 0..m : j >= k => b[j] = 0}
  <2>1. 0 \in S
    BY <1>2
  <2>2. ASSUME NEW j \in 0..(m - 1), j \in S PROVE j + 1 \in S
    <3>1. j + 1 \in 1..m /\ j + 1 \in 0..m /\ (j + 1) - 1 = j
      OBVIOUS
    <3>2. b[j] = 0 => b[j + 1] = 0
      BY <1>1, <3>1
    <3>. QED  BY <1>2, <2>2, <3>1, <3>2
  <2>. HIDE DEF S
  <2>3. 0..m \subseteq S
    BY <2>1, <2>2, SetInduction
  <2>4. m \in S
    BY <2>3
  <2>. QED  BY <2>4 DEF S
<1>4. ASSUME NEW k \in 1..m
      PROVE  /\ b[k] > 0 => b[k - 1] > 0
             /\ \/ RowTotal(b, rate, k) = q
                \/ b[k] = 0 /\ b[m] = 0 /\ RowTotal(b, rate, k) \in 0..q
  <2>1. PICK x \in Nat, y \in Nat, i \in Nat :
            x = b[k - 1] /\ y = b[k] /\ i = Interest(b[k - 1], rate)
    BY <1>1
  <2>2. i <= q /\ y = Larger(0, x + i - q) /\ (x = 0 => y = 0)
    BY <1>1, <2>1
  <2>3. RowTotal(b, rate, k) = x + i - y
    BY <2>1 DEF RowTotal
  <2>4. y = 0 => b[m] = 0
    <3>. k \in 0..m
      OBVIOUS
    <3>. QED  BY <1>2, <2>1
  <2>5. x + i - y = q \/ (y = 0 /\ x + i - y \in 0..q)
    BY <2>2 DEF Larger
  <2>. QED  BY <2>1, <2>2, <2>3, <2>4, <2>5
<1>. QED  BY <1>2, <1>4

(* After its rows a levelled loan is as far from the ideal one as half a   *)
(* cent a month grows to, except that it never falls below nothing.        *)
LEMMA LevelledNear ==
    ASSUME NEW rate \in Rates, NEW q \in Nat, NEW m \in Nat, NEW b, Levelled(b, rate, q, m)
    PROVE  LET left == LastTotal(b, rate, m) - q
           IN  /\ Astray(rate, b[0], q, m + 1, left) <= Month(rate, m + 1)
               /\ b[m] > 0 => -Month(rate, m + 1) <= Astray(rate, b[0], q, m + 1, left)
<1>. DEFINE Near(k) == /\ Astray(rate, b[0], q, k, b[k]) <= Month(rate, k)
                       /\ b[k] > 0 => -Month(rate, k) <= Astray(rate, b[0], q, k, b[k])
            S == {k \in 0..m : Near(k)}
<1>1. b[0] \in Nat /\ b[m] \in Nat
  BY DEF Levelled
<1>2. 0 \in S
  <2>1. PICK D \in Nat : D = rate.den
    BY DEF Rates
  <2>2. Month(rate, 0) = 0
    <3>. D * 0 = 0
      OBVIOUS
    <3>. QED  BY <2>1, CentsStep DEF Month
  <2>3. Astray(rate, b[0], q, 0, b[0]) = 0
    <3>1. b[0] * 1 = b[0] /\ 1 * b[0] = b[0] /\ q * 0 = 0
      BY <1>1
    <3>2. Grown(rate, 0) = 1 /\ Whole(rate, 0) = 1
      BY GrowthStep
    <3>. QED  BY <1>1, <2>2, <3>1, <3>2 DEF Astray
  <2>. QED  BY <2>2, <2>3
<1>3. ASSUME NEW k \in 0..(m - 1), k \in S PROVE k + 1 \in S
  <2>1. k + 1 \in 1..m /\ k + 1 \in 0..m /\ k \in 0..m /\ k \in Nat /\ (k + 1) - 1 = k
    OBVIOUS
  <2>2. PICK x \in Nat, y \in Nat, i \in Nat : x = b[k] /\ y = b[k + 1] /\ i = Interest(b[k], rate)
    <3>1. b[k] \in Nat /\ b[k + 1] \in Nat
      BY <2>1 DEF Levelled
    <3>. QED  BY <3>1, InterestType
  <2>3. y = Larger(0, x + i - q)
    BY <2>1, <2>2 DEF Levelled
  <2>4. b[k + 1] > 0 => b[k] > 0
    BY <2>1, LevelledRows
  <2>5. y >= x + i - q /\ (y > 0 => y <= x + i - q)
    BY <2>3 DEF Larger
  <2>6. Astray(rate, b[0], q, k, x) <= Month(rate, k)
        /\ (x > 0 => -Month(rate, k) <= Astray(rate, b[0], q, k, x))
    BY <1>3, <2>2
  <2>7. /\ (y >= x + i - q /\ Astray(rate, b[0], q, k, x) <= Month(rate, k))
              => Astray(rate, b[0], q, k + 1, y) <= Month(rate, k + 1)
        /\ (y <= x + i - q /\ -Month(rate, k) <= Astray(rate, b[0], q, k, x))
              => -Month(rate, k + 1) <= Astray(rate, b[0], q, k + 1, y)
    <3>. x \in Nat /\ y \in Int /\ b[0] \in Nat /\ k \in Nat /\ i = Interest(x, rate)
      BY <1>1, <2>1, <2>2
    <3>. QED  BY DriftStep
  <2>8. Near(k + 1)
    BY <2>2, <2>4, <2>5, <2>6, <2>7
  <2>. QED  BY <2>1, <2>8
<1>. HIDE DEF S
<1>4. 0..m \subseteq S
  BY <1>2, <1>3, SetInduction
<1>5. Near(m)
  <2>. m \in S
    BY <1>4
  <2>. QED  BY DEF S
<1>6. PICK x \in Nat, i \in Nat, c \in Int :
          x = b[m] /\ i = Interest(b[m], rate) /\ c = LastTotal(b, rate, m) - q
  <2>1. Interest(b[m], rate) \in Nat
    BY <1>1, InterestType
  <2>. QED  BY <1>1, <2>1 DEF LastTotal
<1>7. c = x + i - q /\ i = Interest(x, rate) /\ b[0] \in Nat
  BY <1>1, <1>6 DEF LastTotal
<1>8. /\ Astray(rate, b[0], q, m, x) <= Month(rate, m)
              => Astray(rate, b[0], q, m + 1, c) <= Month(rate, m + 1)
      /\ -Month(rate, m) <= Astray(rate, b[0], q, m, x)
              => -Month(rate, m + 1) <= Astray(rate, b[0], q, m + 1, c)
  <2>. c >= x + i - q /\ c <= x + i - q
    BY <1>7
  <2>. QED  BY <1>7, DriftStep
<1>. QED  BY <1>5, <1>6, <1>8

(* The last row costs the level instalment, up to the drift.               *)
LEMMA LastNear ==
    ASSUME NEW rate \in Rates, NEW q \in Nat, NEW m \in Nat, NEW b, Levelled(b, rate, q, m),
           q = CalculateMonthlyPayment(b[0], rate, m + 1)
    PROVE  /\ LastTotal(b, rate, m) \in Nat
           /\ Apart(LastTotal(b, rate, m), q) <= Drift(rate, m + 1)
<1>1. PICK N \in Nat, D \in Nat \ {0} : N = rate.num /\ D = rate.den
  BY GrowthStep
<1>2. b[0] \in Nat /\ b[m] \in Nat /\ Interest(b[m], rate) \in Nat
  <2>1. b[0] \in Nat /\ b[m] \in Nat
    BY DEF Levelled
  <2>. QED  BY <2>1, InterestType
<1>3. PICK T \in Nat, lent \in Nat, last \in Nat, F \in Nat :
          /\ T = LastTotal(b, rate, m) /\ lent = b[0] /\ last = b[m]
          /\ F = Drift(rate, m + 1)
  <2>1. LastTotal(b, rate, m) \in Nat
    BY <1>2 DEF LastTotal
  <2>2. Drift(rate, m + 1) \in Nat
    BY DriftIs
  <2>. QED  BY <1>2, <2>1, <2>2
<1>4. PICK w \in Nat \ {0}, g \in Nat \ {0}, a \in Nat :
          w = Whole(rate, m) /\ g = Grown(rate, m + 1) /\ a = Cents(rate, m + 1)
  <2>1. m + 1 \in Nat /\ Whole(rate, m) \in Nat \ {0}
    BY GrowthStep
  <2>2. Grown(rate, m + 1) \in Nat \ {0} /\ Cents(rate, m + 1) \in Nat
    BY <2>1, GrowthStep, CentsStep
  <2>. QED  BY <2>1, <2>2
<1>5. Whole(rate, m + 1) = D * w
  BY <1>1, <1>4, GrowthStep
<1>6. PICK P \in Nat, M \in Nat, Q \in Int, c \in Int, V \in Int :
          P = lent * g /\ M = D * a /\ Q = q * (D * a) /\ c = T - q /\ V = (D * w) * c
  <2>1. lent * g \in Nat /\ D * a \in Nat
    BY ProductType
  <2>2. q * (D * a) \in Int /\ T - q \in Int
    BY <2>1, ProductType
  <2>3. (D * w) * (T - q) \in Int
    OBVIOUS
  <2>. QED  BY <2>1, <2>2, <2>3
<1>7. 2 * Q <= 2 * P + M /\ 2 * P - M <= 2 * Q
  BY <1>1, <1>3, <1>4, <1>6, InstalmentNear
<1>8. Month(rate, m + 1) = M /\ Astray(rate, b[0], q, m + 1, T - q) = 2 * (P - Q - V)
  BY <1>1, <1>3, <1>4, <1>5, <1>6 DEF Month, Astray
<1>9. 2 * (P - Q - V) <= M /\ (last > 0 => -M <= 2 * (P - Q - V))
  BY <1>3, <1>8, LevelledNear
<1>10. ASSUME NEW d \in Int, d * (D * w) <= D * a PROVE d <= F
  <2>1. d * (D * w) = (d * w) * D /\ D * a = a * D /\ d * w \in Int
    OBVIOUS
  <2>2. d * w <= a
    BY <1>10, <2>1, ProductHasOrder
  <2>. QED  BY <1>3, <1>4, <2>2, DriftIs
<1>11. q - T <= F
  <2>1. (q - T) * (D * w) = -V
    BY <1>6
  <2>2. -V <= M
    BY <1>7, <1>9
  <2>3. (q - T) * (D * w) <= D * a
    BY <1>6, <2>1, <2>2
  <2>4. q - T \in Int
    OBVIOUS
  <2>. QED  BY <1>10, <2>3, <2>4
<1>12. T - q <= F
  <2>1. CASE last = 0
    <3>1. b[m] = 0
      BY <1>3, <2>1
    <3>. T = 0
      BY <1>3, <3>1, NothingLeft
    <3>. QED  OBVIOUS
  <2>2. CASE last > 0
    <3>1. (T - q) * (D * w) = V
      BY <1>6
    <3>2. V <= M
      BY <1>7, <1>9, <2>2
    <3>3. (T - q) * (D * w) <= D * a
      BY <1>6, <3>1, <3>2
    <3>4. T - q \in Int
      OBVIOUS
    <3>. QED  BY <1>10, <3>3, <3>4
  <2>. QED  BY <2>1, <2>2
<1>. QED  BY <1>3, <1>11, <1>12 DEF Apart

(* Where the last row costs the level instalment up to F, so do the rows   *)
(* before it; and they all cost it exactly when it is more than F.         *)
LEMMA LevelledPrices ==
    ASSUME NEW rate \in Rates, NEW q \in Nat, NEW m \in Nat, NEW b, Levelled(b, rate, q, m),
           NEW F \in Nat, Apart(LastTotal(b, rate, m), q) <= F
    PROVE  /\ \A k \in 1..m : /\ RowTotal(b, rate, k) \in Nat
                              /\ Apart(RowTotal(b, rate, k), q) <= F
                              /\ q > F => RowTotal(b, rate, k) = q
           /\ q > F => \A k \in 0..m : b[k] > 0
<1>1. b[m] = 0 => q <= F
  BY NothingLeft DEF Apart
<1>2. ASSUME NEW k \in 1..m
      PROVE  /\ RowTotal(b, rate, k) \in Nat
             /\ Apart(RowTotal(b, rate, k), q) <= F
             /\ q > F => RowTotal(b, rate, k) = q
  <2>1. \/ RowTotal(b, rate, k) = q
        \/ b[k] = 0 /\ b[m] = 0 /\ RowTotal(b, rate, k) \in 0..q
    BY LevelledRows
  <2>. QED  BY <1>1, <2>1 DEF Apart
<1>3. ASSUME q > F, NEW k \in 0..m PROVE b[k] > 0
  <2>1. b[k] \in Nat
    BY DEF Levelled
  <2>2. b[k] # 0
    BY <1>1, <1>3, LevelledRows
  <2>. QED  BY <2>1, <2>2
<1>. QED  BY <1>2, <1>3

(* The instalment of what is left of a levelled loan is the one it had, as *)
(* far as its last row costs that.                                         *)
LEMMA InstalmentStays ==
    ASSUME NEW rate \in Rates, NEW q \in Nat, NEW m \in Nat \ {0}, NEW b,
           Levelled(b, rate, q, m), NEW F \in Nat, F >= 2,
           LastTotal(b, rate, m) \in Nat, Apart(LastTotal(b, rate, m), q) <= F,
           NEW r \in Nat, r = CalculateMonthlyPayment(b[0], rate, m + 1)
    PROVE  Apart(r, q) <= F
<1>1. PICK N \in Nat, D \in Nat \ {0} : N = rate.num /\ D = rate.den
  BY GrowthStep
<1>2. b[0] \in Nat /\ b[m] \in Nat
  BY DEF Levelled
<1>3. PICK T \in Nat, lent \in Nat, last \in Nat :
          T = LastTotal(b, rate, m) /\ lent = b[0] /\ last = b[m]
  BY <1>2
<1>4. PICK w \in Nat \ {0}, g \in Nat \ {0}, a \in Nat :
          w = Whole(rate, m) /\ g = Grown(rate, m + 1) /\ a = Cents(rate, m + 1)
  <2>1. m + 1 \in Nat /\ Whole(rate, m) \in Nat \ {0}
    BY GrowthStep
  <2>2. Grown(rate, m + 1) \in Nat \ {0} /\ Cents(rate, m + 1) \in Nat
    BY <2>1, GrowthStep, CentsStep
  <2>. QED  BY <2>1, <2>2
<1>5. Whole(rate, m + 1) = D * w
  BY <1>1, <1>4, GrowthStep
<1>6. a >= 2 * w
  BY <1>4, TwoCents
<1>7. PICK P \in Nat, M \in Nat, Q \in Int, R \in Int, c \in Int, V \in Int :
          /\ P = lent * g /\ M = D * a /\ Q = q * (D * a) /\ R = r * (D * a)
          /\ c = T - q /\ V = (D * w) * c
  <2>1. lent * g \in Nat /\ D * a \in Nat
    BY ProductType
  <2>2. q * (D * a) \in Int /\ r * (D * a) \in Int /\ T - q \in Int
    BY <2>1, ProductType
  <2>3. (D * w) * (T - q) \in Int
    OBVIOUS
  <2>. QED  BY <2>1, <2>2, <2>3
<1>8. 2 * R <= 2 * P + M /\ 2 * P - M <= 2 * R
  BY <1>1, <1>3, <1>4, <1>7, InstalmentNear
<1>9. Month(rate, m + 1) = M /\ Astray(rate, b[0], q, m + 1, T - q) = 2 * (P - Q - V)
  BY <1>1, <1>3, <1>4, <1>5, <1>7 DEF Month, Astray
<1>10. 2 * (P - Q - V) <= M /\ (last > 0 => -M <= 2 * (P - Q - V))
  BY <1>3, <1>9, LevelledNear
<1>11. c <= F /\ -c <= F
  BY <1>3, <1>7 DEF Apart
<1>12. PICK K \in Nat : K = F * M
  BY ProductType
<1>13. 2 * V <= K /\ -K <= 2 * V
  <2>1. PICK v \in Nat : v = D * w
    BY ProductType
  <2>2. c * (2 * v) <= F * (2 * v) /\ (-c) * (2 * v) <= F * (2 * v)
    BY <1>11, ProductKeepsOrder
  <2>3. (2 * w) * D <= a * D
    BY <1>6, ProductKeepsOrder
  <2>4. (2 * w) * D = 2 * v /\ a * D = M
    BY <1>7, <2>1
  <2>5. 2 * v <= M
    BY <2>3, <2>4
  <2>6. (2 * v) * F <= M * F
    BY <2>5, ProductKeepsOrder
  <2>7. (2 * v) * F = F * (2 * v) /\ M * F = K /\ F * (2 * v) \in Int
    BY <1>12
  <2>8. c * (2 * v) = 2 * V /\ (-c) * (2 * v) = -(2 * V)
    BY <1>7, <2>1
  <2>. QED  BY ONLY <2>2, <2>6, <2>7, <2>8, <1>7, <1>12
<1>14. M \in Nat \ {0}
  <2>. a > 0
    BY <1>6
  <2>. QED  BY <1>7, ProductType
<1>15. 2 * R - 2 * Q <= 2 * M + K
  BY <1>8, <1>10, <1>13
<1>16. ASSUME NEW d \in Int, (2 * d) * M <= (2 + F) * M PROVE d <= F
  <2>1. 2 * d <= 2 + F
    BY <1>14, <1>16, ProductHasOrder
  <2>. QED  BY <2>1
<1>17. (2 + F) * M = 2 * M + K /\ (2 * (r - q)) * M = 2 * R - 2 * Q
       /\ (2 * (q - r)) * M = 2 * Q - 2 * R
  BY <1>7, <1>12
<1>18. r - q <= F
  BY <1>15, <1>16, <1>17
<1>19. q - r <= F
  <2>1. CASE last = 0
    <3>1. b[m] = 0
      BY <1>3, <2>1
    <3>. T = 0
      BY <1>3, <3>1, NothingLeft
    <3>. QED  BY <1>7, <1>11
  <2>2. CASE last > 0
    <3>1. 2 * Q - 2 * R <= 2 * M + K
      BY <1>8, <1>10, <1>13, <2>2
    <3>2. (2 * (q - r)) * M <= (2 + F) * M /\ q - r \in Int
      BY ONLY <1>17, <3>1, q \in Nat, r \in Nat
    <3>. QED  BY <1>16, <3>2
  <2>. QED  BY <2>1, <2>2
<1>. QED  BY <1>18, <1>19 DEF Apart

-----------------------------------------------------------------------------
(* What a row of a schedule costs and leaves, in balances.                 *)
LEMMA RowsInBalances ==
    ASSUME NEW t \in ScheduleInput, NEW k \in 1..t.term
    PROVE  LET b == Balances(t)
               row == GenerateRepaymentSchedule(t)[k]
           IN  /\ b[k - 1] \in Nat /\ b[k] \in 0..b[k - 1]
               /\ row.total = RowTotal(b, t.rate, k)
               /\ row.principal = b[k - 1] - b[k] /\ row.remaining = b[k]
               /\ k = t.term => b[k] = 0
<1>. DEFINE b == Balances(t)
            row == GenerateRepaymentSchedule(t)[k]
            interest == Interest(b[k - 1], t.rate)
            part == PrincipalPart(t, k, b[k - 1])
<1>1. t.term \in Nat /\ t.rate \in Rates
  BY DEF ScheduleInput, Rates
<1>2. BalancesOf(b, t)
  BY BalancesUnfold
<1>3. row.total = part + interest /\ row.principal = part /\ row.remaining = b[k]
  <2>1. row = [sequence  |-> k, due |-> t.start + k,
               principal |-> part, interest |-> interest,
               total     |-> part + interest,
               remaining |-> b[k]]
    BY DEF GenerateRepaymentSchedule
  <2>. HIDE DEF row, interest, b, part
  <2>. QED  BY <2>1
<1>. HIDE DEF b, row
<1>4. b[k - 1] \in Nat /\ b[k] = b[k - 1] - part
  BY <1>1, <1>2 DEF BalancesOf
<1>5. part \in 0..b[k - 1] /\ (k = t.term => part = b[k - 1])
  BY <1>4, PartOfBalance
<1>6. interest \in Nat
  BY <1>1, <1>4, InterestType
<1>7. row.total = RowTotal(b, t.rate, k)
  <2>. HIDE DEF part
  <2>1. RowTotal(b, t.rate, k) = b[k - 1] + interest - b[k]
    BY DEF RowTotal
  <2>. HIDE DEF interest
  <2>. QED  BY <1>3, <1>4, <1>5, <1>6, <2>1
<1>8. b[k] \in 0..b[k - 1] /\ (k = t.term => b[k] = 0) /\ row.principal = b[k - 1] - b[k]
  <2>. HIDE DEF part
  <2>. QED  BY <1>3, <1>4, <1>5
<1>. QED  BY <1>3, <1>4, <1>7, <1>8 DEF b, row

(* Balances never grow, and stay what was lent through the grace, and to   *)
(* the last row of a loan that is not amortised.                           *)
LEMMA BalancesShrink ==
    ASSUME NEW t \in ScheduleInput
    PROVE  /\ Balances(t)[0] = t.principal
           /\ \A k \in 0..t.term : Balances(t)[k] \in 0..t.principal
           /\ \A k \in 0..(t.term - 1) :
                 (k <= t.grace \/ t.model # "amortizing") => Balances(t)[k] = t.principal
<1>. DEFINE b == Balances(t)
            n == t.term
            Same(k) == k <= t.grace \/ t.model # "amortizing"
            S == {k \in 0..n : /\ b[k] \in 0..t.principal
                               /\ k <= n - 1 /\ Same(k) => b[k] = t.principal}
<1>1. n \in Nat \ {0} /\ t.principal \in Nat /\ t.grace \in Nat
  BY DEF ScheduleInput
<1>2. BalancesOf(b, t)
  BY BalancesUnfold
<1>. HIDE DEF b
<1>3. 0 \in S
  BY <1>1, <1>2 DEF BalancesOf
<1>4. ASSUME NEW k \in 0..(n - 1), k \in S PROVE k + 1 \in S
  <2>1. k + 1 \in 1..n /\ k + 1 \in 0..n /\ k \in 0..n /\ (k + 1) - 1 = k
    BY <1>1
  <2>2. b[k] \in Nat /\ b[k + 1] = b[k] - PrincipalPart(t, k + 1, b[k])
    BY <1>2, <2>1 DEF BalancesOf
  <2>3. PrincipalPart(t, k + 1, b[k]) \in 0..b[k]
    BY <2>1, <2>2, PartOfBalance
  <2>4. b[k + 1] \in 0..t.principal
    BY <1>1, <1>4, <2>1, <2>2, <2>3
  <2>5. ASSUME k + 1 <= n - 1, Same(k + 1) PROVE b[k + 1] = t.principal
    <3>1. k + 1 # n /\ k <= n - 1 /\ Same(k)
      BY <1>1, <2>1, <2>5
    <3>2. PrincipalPart(t, k + 1, b[k]) = 0
      BY <2>5, <3>1 DEF PrincipalPart
    <3>3. b[k] = t.principal
      BY <1>4, <3>1
    <3>. QED  BY <1>1, <2>2, <3>2, <3>3
  <2>. QED  BY <2>1, <2>4, <2>5
<1>. HIDE DEF S
<1>5. 0..n \subseteq S
  BY <1>1, <1>3, <1>4, SetInduction
<1>6. ASSUME NEW k \in 0..n
      PROVE  b[k] \in 0..t.principal /\ (k <= n - 1 /\ Same(k) => b[k] = t.principal)
  <2>. k \in S
    BY <1>5
  <2>. QED  BY DEF S
<1>7. ASSUME NEW k \in 0..(n - 1), Same(k) PROVE b[k] = t.principal
  <2>. k \in 0..n /\ k <= n - 1
    BY <1>1
  <2>. QED  BY <1>6, <1>7
<1>. QED  BY <1>2, <1>6, <1>7 DEF BalancesOf, b

(* The balances before each row from f on.                                 *)
Rest(t, f) == [k \in 0..(t.term - 1 - f) |-> Balances(t)[f + k]]

(* Once the grace is over an amortising loan without a balloon is levelled *)
(* from any row on.                                                        *)
LEMMA RestLevelled ==
    ASSUME NEW t \in ScheduleInput, t.model = "amortizing", t.balloon = 0, t.grace < t.term,
           NEW f \in t.grace..(t.term - 1)
    PROVE  /\ Pmt(t) = CalculateMonthlyPayment(t.principal, t.rate, AmortisedMonths(t))
           /\ AmortisedMonths(t) = t.term - t.grace
           /\ Pmt(t) \in Nat
           /\ Levelled(Rest(t, f), t.rate, Pmt(t), t.term - 1 - f)
<1>. DEFINE b == Balances(t)
            n == t.term
            q == Pmt(t)
            s == Rest(t, f)
            m == n - 1 - f
<1>1. /\ n \in Nat \ {0} /\ t.grace \in Nat /\ t.principal \in Nat \ {0} /\ t.rate \in Rates
      /\ f \in Nat /\ m \in Nat
  BY DEF ScheduleInput, Rates
<1>2. Larger(1, n - t.grace) = n - t.grace /\ n - t.grace \in Nat \ {0}
      /\ Larger(0, t.principal - t.balloon) = t.principal
  BY <1>1 DEF Larger
<1>3. q = CalculateMonthlyPayment(t.principal, t.rate, n - t.grace)
      /\ AmortisedMonths(t) = n - t.grace
  BY <1>2 DEF Pmt, AmortisedMonths
<1>4. q \in Nat
  <2>. t.principal \in Nat /\ n - t.grace \in Nat
    BY <1>1, <1>2
  <2>. QED  BY <1>1, <1>3, InstalmentType
<1>5. BalancesOf(b, t) /\ \A k \in 0..n : b[k] \in 0..t.principal
  BY BalancesUnfold, BalancesShrink
<1>6. s = [k \in 0..m |-> b[f + k]]
  BY DEF Rest
<1>. HIDE DEF b, s
<1>7. s \in [0..m -> Nat]
  <2>. ASSUME NEW k \in 0..m PROVE b[f + k] \in Nat
    <3>. f + k \in 0..n
      BY <1>1
    <3>. QED  BY <1>5
  <2>. QED  BY <1>6
<1>8. ASSUME NEW k \in 1..m
      PROVE  /\ Interest(s[k - 1], t.rate) <= q
             /\ s[k] = Larger(0, s[k - 1] + Interest(s[k - 1], t.rate) - q)
  <2>1. PICK i \in Nat : i = f + k
    BY <1>1
  <2>2. i \in 1..n /\ i # n /\ ~(i <= t.grace) /\ i - 1 \in 0..n /\ i \in 0..n
    BY <1>1, <2>1
  <2>3. s[k] = b[i] /\ s[k - 1] = b[i - 1]
    <3>1. k \in 0..m /\ k - 1 \in 0..m /\ f + (k - 1) = i - 1
      BY <1>1, <2>1
    <3>. QED  BY <1>6, <2>1, <3>1
  <2>4. b[i - 1] \in 0..t.principal /\ b[i] = b[i - 1] - PrincipalPart(t, i, b[i - 1])
    BY <1>5, <2>2 DEF BalancesOf
  <2>5. PICK x \in Nat, y \in Int, j \in Nat :
            x = b[i - 1] /\ y = b[i] /\ j = Interest(b[i - 1], t.rate)
    <3>1. b[i - 1] \in Nat /\ b[i] \in Nat
      BY <1>5, <2>2
    <3>. QED  BY <1>1, <3>1, InterestType
  <2>6. j <= q
    <3>1. x \in Nat /\ x <= t.principal /\ t.principal \in Nat /\ n - t.grace \in Nat \ {0}
      BY <1>1, <1>2, <2>4, <2>5
    <3>. QED  BY <1>1, <1>3, <2>5, <3>1, InstalmentCovers
  <2>7. PrincipalPart(t, i, x) = Lesser(x, Larger(0, q - j))
    BY <2>2, <2>5 DEF PrincipalPart
  <2>8. y = x - Lesser(x, Larger(0, q - j))
    BY <2>4, <2>5, <2>7
  <2>. HIDE DEF q
  <2>9. y = Larger(0, x + j - q)
    BY <1>4, <2>6, <2>8 DEF Larger, Lesser
  <2>. QED  BY <2>3, <2>5, <2>6, <2>9
<1>. QED  BY <1>3, <1>4, <1>7, <1>8 DEF Levelled, s

(* The last rows of a schedule are the last rows of its rest.              *)
LEMMA RestRows ==
    ASSUME NEW t \in ScheduleInput, NEW f \in 0..(t.term - 1)
    PROVE  /\ Rest(t, f)[0] = Balances(t)[f]
           /\ \A k \in 0..(t.term - 1 - f) : Rest(t, f)[k] = Balances(t)[f + k]
           /\ \A k \in 1..(t.term - 1 - f) :
                 GenerateRepaymentSchedule(t)[f + k].total = RowTotal(Rest(t, f), t.rate, k)
           /\ GenerateRepaymentSchedule(t)[t.term].total
                  = LastTotal(Rest(t, f), t.rate, t.term - 1 - f)
<1>. DEFINE b == Balances(t)
            s == Rest(t, f)
            m == t.term - 1 - f
<1>1. t.term \in Nat \ {0} /\ f \in Nat /\ m \in Nat /\ t.rate \in Rates
  BY DEF ScheduleInput, Rates
<1>2. s = [k \in 0..m |-> b[f + k]]
  BY DEF Rest
<1>. HIDE DEF b, s
<1>3. \A k \in 0..m : s[k] = b[f + k]
  BY <1>2
<1>4. ASSUME NEW k \in 1..m
      PROVE  GenerateRepaymentSchedule(t)[f + k].total = RowTotal(s, t.rate, k)
  <2>1. PICK i \in 1..t.term : i = f + k
    BY <1>1
  <2>2. GenerateRepaymentSchedule(t)[i].total = RowTotal(b, t.rate, i)
    BY RowsInBalances DEF b
  <2>3. s[k] = b[i] /\ s[k - 1] = b[i - 1]
    <3>1. k \in 0..m /\ k - 1 \in 0..m /\ f + (k - 1) = i - 1
      BY <1>1, <2>1
    <3>. QED  BY <1>3, <2>1, <3>1
  <2>. QED  BY <2>1, <2>2, <2>3 DEF RowTotal
<1>5. GenerateRepaymentSchedule(t)[t.term].total = LastTotal(s, t.rate, m)
  <2>1. t.term \in 1..t.term
    BY <1>1
  <2>2. PICK n \in 1..t.term : n = t.term
    BY <2>1
  <2>3. /\ GenerateRepaymentSchedule(t)[n].total = RowTotal(b, t.rate, n)
        /\ b[n] = 0 /\ b[n - 1] \in Nat
    BY <2>2, RowsInBalances DEF b
  <2>4. s[m] = b[n - 1]
    <3>1. m \in 0..m /\ f + m = n - 1
      BY <1>1, <2>2
    <3>. QED  BY <1>3, <3>1
  <2>5. Interest(b[n - 1], t.rate) \in Nat
    BY <1>1, <2>3, InterestType
  <2>. QED  BY <2>2, <2>3, <2>4, <2>5 DEF RowTotal, LastTotal
<1>6. s[0] = b[f]
  BY <1>1, <1>3
<1>. QED  BY <1>3, <1>4, <1>5, <1>6 DEF b, s

(* What the rows of an amortising loan without a balloon cost.             *)
Priced(t, q, F) ==
    LET rows == GenerateRepaymentSchedule(t)
    IN  /\ q \in Nat /\ F \in Nat
        /\ \A k \in (t.grace + 1)..t.term : rows[k].total \in Nat /\ Apart(rows[k].total, q) <= F
        /\ q > F => /\ \A k \in (t.grace + 1)..(t.term - 1) : rows[k].total = q
                    /\ Balances(t)[t.term - 1] > 0

(* They cost the level instalment, up to the drift.                        *)
LEMMA SchedulePriced ==
    ASSUME NEW t \in ScheduleInput, t.model = "amortizing", t.balloon = 0, t.grace < t.term
    PROVE  Priced(t, Pmt(t), Drift(t.rate, t.term - t.grace))
<1>1. /\ t.term \in Nat \ {0} /\ t.grace \in Nat /\ t.principal \in Nat /\ t.rate \in Rates
      /\ t.grace \in t.grace..(t.term - 1) /\ t.grace \in 0..(t.term - 1)
  BY DEF ScheduleInput, Rates
<1>2. PICK m \in Nat : m = t.term - 1 - t.grace
  BY <1>1
<1>3. t.term - t.grace = m + 1
  BY <1>1, <1>2
<1>4. PICK q \in Nat, F \in Nat : q = Pmt(t) /\ F = Drift(t.rate, m + 1)
  BY <1>1, RestLevelled, DriftIs
<1>5. PICK s : s = Rest(t, t.grace)
  OBVIOUS
<1>6. Levelled(s, t.rate, q, m) /\ q = CalculateMonthlyPayment(t.principal, t.rate, m + 1)
  BY <1>1, <1>2, <1>3, <1>4, <1>5, RestLevelled
<1>7. s[0] = t.principal
  BY <1>1, <1>5, RestRows, BalancesShrink
<1>8. LastTotal(s, t.rate, m) \in Nat /\ Apart(LastTotal(s, t.rate, m), q) <= F
  BY <1>1, <1>4, <1>6, <1>7, LastNear
<1>9. /\ \A k \in 1..m : /\ RowTotal(s, t.rate, k) \in Nat
                         /\ Apart(RowTotal(s, t.rate, k), q) <= F
                         /\ q > F => RowTotal(s, t.rate, k) = q
      /\ q > F => \A k \in 0..m : s[k] > 0
  BY <1>1, <1>6, <1>8, LevelledPrices
<1>10. /\ \A k \in 0..m : s[k] = Balances(t)[t.grace + k]
       /\ \A k \in 1..m : GenerateRepaymentSchedule(t)[t.grace + k].total = RowTotal(s, t.rate, k)
       /\ GenerateRepaymentSchedule(t)[t.term].total = LastTotal(s, t.rate, m)
  BY <1>1, <1>2, <1>5, RestRows
<1>11. ASSUME NEW k \in (t.grace + 1)..(t.term - 1)
       PROVE  LET total == GenerateRepaymentSchedule(t)[k].total
              IN  total \in Nat /\ Apart(total, q) <= F /\ (q > F => total = q)
  <2>1. PICK j \in 1..m : k = t.grace + j
    <3>. k - t.grace \in 1..m /\ k = t.grace + (k - t.grace)
      BY <1>1, <1>2
    <3>. QED  OBVIOUS
  <2>. QED  BY <1>9, <1>10, <2>1
<1>12. q > F => Balances(t)[t.term - 1] > 0
  <2>1. m \in 0..m /\ t.grace + m = t.term - 1
    BY <1>1, <1>2
  <2>. QED  BY <1>9, <1>10, <2>1
<1>13. \A k \in (t.grace + 1)..t.term : k = t.term \/ k \in (t.grace + 1)..(t.term - 1)
  BY <1>1
<1>14. Priced(t, q, F)
  BY <1>4, <1>8, <1>10, <1>11, <1>12, <1>13 DEF Priced
<1>. QED  BY <1>3, <1>4, <1>14

-----------------------------------------------------------------------------
(* The loan a tail is a schedule of.                                       *)
TailLoan(t, f) ==
    [t EXCEPT !.principal = Balances(t)[f - 1], !.term = t.term - f + 1,
              !.start = t.start + f - 1, !.grace = 0]

(* A tail costs what the schedule of its loan does.                        *)
LEMMA TailRows ==
    ASSUME NEW t \in ScheduleInput, NEW f \in 2..t.term, Balances(t)[f - 1] > 0
    PROVE  LET u == TailLoan(t, f)
           IN  /\ u \in ScheduleInput
               /\ u.principal = Balances(t)[f - 1] /\ u.term = t.term - f + 1 /\ u.grace = 0
               /\ u.model = t.model /\ u.balloon = t.balloon /\ u.rate = t.rate
               /\ \A k \in 1..(t.term - f + 1) :
                     RegenerateRemainingSchedule(t, Balances(t)[f - 1], f)[k].total
                         = GenerateRepaymentSchedule(u)[k].total
<1>1. t.term \in Nat \ {0} /\ t.start \in Nat /\ f \in Nat /\ f - 1 \in 0..t.term
  BY DEF ScheduleInput
<1>2. PICK remaining \in Nat \ {0} : remaining = Balances(t)[f - 1]
  <2>. Balances(t)[f - 1] \in 0..t.principal
    BY <1>1, BalancesShrink
  <2>. QED  BY DEF ScheduleInput
<1>3. PICK left \in Nat \ {0} : left = t.term - f + 1
  <2>. t.term - f + 1 \in Nat \ {0}
    BY <1>1
  <2>. QED  OBVIOUS
<1>. DEFINE loan(l) == [t EXCEPT !.principal = remaining, !.term = l,
                                 !.start = @ + f - 1, !.grace = 0]
            tailOf(l) == [k \in 1..l |-> [GenerateRepaymentSchedule(loan(l))[k]
                                              EXCEPT !.sequence = f + k - 1]]
            u == loan(left)
            gen == GenerateRepaymentSchedule(u)
            rows == RegenerateRemainingSchedule(t, remaining, f)
<1>4. t.start + f - 1 \in Nat
  BY <1>1
<1>5. /\ u \in ScheduleInput /\ u.principal = remaining /\ u.term = left /\ u.grace = 0
      /\ u.model = t.model /\ u.balloon = t.balloon /\ u.rate = t.rate
  BY <1>4 DEF ScheduleInput
<1>6. TailLoan(t, f) = u
  BY <1>2, <1>3 DEF TailLoan, ScheduleInput
<1>7. rows = [k \in 1..left |-> [gen[k] EXCEPT !.sequence = f + k - 1]]
  <2>1. rows = IF Larger(0, left) = 0 \/ remaining <= 0 THEN << >> ELSE tailOf(Larger(0, left))
    BY <1>3 DEF RegenerateRemainingSchedule
  <2>2. Larger(0, left) = left
    BY DEF Larger
  <2>. HIDE DEF tailOf, rows
  <2>3. rows = tailOf(left)
    BY <2>1, <2>2
  <2>. QED  BY <2>3 DEF tailOf
<1>8. \A k \in 1..left : gen[k] \in EngineRow
  <2>. HIDE DEF u
  <2>1. PaysOff(GenerateRepaymentSchedule(u), u.principal, u.term)
    BY <1>5, SchedulePaysOff
  <2>. QED  BY <1>5, <2>1 DEF PaysOff, gen
<1>. HIDE DEF gen, u, rows
<1>9. ASSUME NEW k \in 1..left PROVE rows[k].total = gen[k].total
  <2>1. rows[k] = [gen[k] EXCEPT !.sequence = f + k - 1] /\ gen[k] \in EngineRow
    BY <1>7, <1>8
  <2>. QED  BY <2>1 DEF EngineRow
<1>. QED  BY <1>2, <1>3, <1>5, <1>6, <1>9 DEF gen, rows

(* A tail of a loan that is not amortised is the tail of its schedule: it  *)
(* pays interest on all that was lent until the last row.                  *)
LEMMA UnamortisedTail ==
    ASSUME NEW t \in ScheduleInput, t.model # "amortizing", NEW f \in 2..t.term,
           NEW k \in 1..(t.term - f + 1)
    PROVE  RegenerateRemainingSchedule(t, Balances(t)[f - 1], f)[k].total
               = GenerateRepaymentSchedule(t)[f + k - 1].total
<1>1. t.term \in Nat \ {0} /\ t.principal \in Nat \ {0} /\ f \in Nat
  BY DEF ScheduleInput
<1>2. PICK u : u = TailLoan(t, f)
  OBVIOUS
<1>3. Balances(t)[f - 1] = t.principal
  <2>. f - 1 \in 0..(t.term - 1)
    BY <1>1
  <2>. QED  BY BalancesShrink
<1>4. /\ u \in ScheduleInput /\ u.principal = t.principal /\ u.term = t.term - f + 1
      /\ u.model # "amortizing" /\ u.rate = t.rate
      /\ RegenerateRemainingSchedule(t, Balances(t)[f - 1], f)[k].total
             = GenerateRepaymentSchedule(u)[k].total
  BY <1>1, <1>2, <1>3, TailRows
<1>5. PICK i \in 1..t.term : i = f + k - 1
  BY <1>1
<1>6. k \in 1..u.term /\ k - 1 \in 0..(u.term - 1) /\ i - 1 \in 0..(t.term - 1)
      /\ (i = t.term <=> k = u.term)
      /\ (i # t.term => i \in 0..(t.term - 1)) /\ (k # u.term => k \in 0..(u.term - 1))
  BY <1>1, <1>4, <1>5
<1>7. Balances(t)[i - 1] = t.principal /\ Balances(u)[k - 1] = t.principal
  BY <1>4, <1>6, BalancesShrink
<1>8. Balances(t)[i] = Balances(u)[k]
  <2>1. CASE i = t.term
    <3>. Balances(t)[i] = 0 /\ Balances(u)[k] = 0
      BY <1>4, <1>5, <1>6, <2>1, RowsInBalances
    <3>. QED  OBVIOUS
  <2>2. CASE i # t.term
    <3>. Balances(t)[i] = t.principal /\ Balances(u)[k] = t.principal
      BY <1>4, <1>6, <2>2, BalancesShrink
    <3>. QED  OBVIOUS
  <2>. QED  BY <2>1, <2>2
<1>9. /\ GenerateRepaymentSchedule(t)[i].total = RowTotal(Balances(t), t.rate, i)
      /\ GenerateRepaymentSchedule(u)[k].total = RowTotal(Balances(u), u.rate, k)
  BY <1>4, <1>6, RowsInBalances
<1>10. RowTotal(Balances(t), t.rate, i) = RowTotal(Balances(u), u.rate, k)
  BY <1>4, <1>7, <1>8 DEF RowTotal
<1>. QED  BY <1>4, <1>5, <1>9, <1>10

(* After the grace, a tail of an amortising loan without a balloon costs   *)
(* what its schedule does, up to the drift.                                *)
LEMMA TailPriced ==
    ASSUME NEW t \in ScheduleInput, t.model = "amortizing", t.balloon = 0,
           NEW f \in 2..t.term, f > t.grace, Balances(t)[f - 1] > 0,
           NEW k \in 1..(t.term - f + 1)
    PROVE  LET F == Drift(t.rate, t.term - t.grace)
           IN  Apart(RegenerateRemainingSchedule(t, Balances(t)[f - 1], f)[k].total,
                     GenerateRepaymentSchedule(t)[f + k - 1].total)
                   <= IF Pmt(t) > 2 * F /\ k < t.term - f + 1 THEN F ELSE 3 * F
<1>1. /\ t.term \in Nat \ {0} /\ t.grace \in Nat /\ t.grace < t.term /\ t.rate \in Rates
      /\ f \in Nat /\ f - 1 \in t.grace..(t.term - 1) /\ f - 1 \in 0..(t.term - 1)
  BY DEF ScheduleInput, Rates
<1>2. PICK u : u = TailLoan(t, f)
  OBVIOUS
<1>3. PICK m \in Nat, n \in Nat : m = t.term - f /\ n = t.term - t.grace - 1
  <2>. t.term - f \in Nat /\ t.term - t.grace - 1 \in Nat
    BY <1>1
  <2>. QED  OBVIOUS
<1>4. /\ t.term - f + 1 = m + 1 /\ t.term - t.grace = n + 1 /\ m <= n
      /\ t.term - 1 - (f - 1) = m
  BY <1>1, <1>3
<1>5. /\ u \in ScheduleInput /\ u.principal = Balances(t)[f - 1] /\ u.term = m + 1
      /\ u.grace = 0 /\ u.model = "amortizing" /\ u.balloon = 0 /\ u.rate = t.rate
      /\ RegenerateRemainingSchedule(t, Balances(t)[f - 1], f)[k].total
             = GenerateRepaymentSchedule(u)[k].total
  BY <1>2, <1>4, TailRows
<1>6. PICK F \in Nat, H \in Nat : F = Drift(t.rate, n + 1) /\ H = Drift(t.rate, m + 1)
  BY <1>1, DriftIs
<1>7. H <= F
  BY <1>1, <1>4, <1>6, DriftGrows
<1>8. PICK q \in Nat, r \in Nat : q = Pmt(t) /\ r = Pmt(u)
  <2>1. Pmt(t) \in Nat
    BY <1>1, RestLevelled
  <2>2. u.grace < u.term /\ 0 \in u.grace..(u.term - 1)
    BY <1>5
  <2>3. Pmt(u) \in Nat
    BY <1>5, <2>2, RestLevelled
  <2>. QED  BY <2>1, <2>3
<1>9. Priced(t, q, F)
  BY <1>1, <1>4, <1>6, <1>8, SchedulePriced
<1>10. Priced(u, r, H)
  <2>. u.grace < u.term /\ u.term - u.grace = m + 1
    BY <1>5
  <2>. QED  BY <1>5, <1>6, <1>8, SchedulePriced
<1>11. PICK i \in (t.grace + 1)..t.term : i = f + k - 1
  BY <1>1
<1>12. k \in (u.grace + 1)..u.term
  BY <1>4, <1>5
<1>13. PICK x \in Nat, y \in Nat :
           /\ x = GenerateRepaymentSchedule(u)[k].total
           /\ y = GenerateRepaymentSchedule(t)[i].total
  BY <1>9, <1>10, <1>11, <1>12 DEF Priced
<1>14. Apart(x, r) <= H /\ Apart(y, q) <= F
  BY <1>9, <1>10, <1>11, <1>12, <1>13 DEF Priced
<1>15. k < m + 1 => /\ r > H => x = r
                    /\ q > F => y = q
  <2>1. ASSUME k < m + 1 PROVE k \in (u.grace + 1)..(u.term - 1) /\ i \in (t.grace + 1)..(t.term - 1)
    BY <1>1, <1>3, <1>5, <1>11, <1>12, <2>1
  <2>. QED  BY <1>9, <1>10, <1>13, <2>1 DEF Priced
<1>16. PICK s : s = Rest(t, f - 1)
  OBVIOUS
<1>17. /\ Levelled(s, t.rate, q, m) /\ s[0] = Balances(t)[f - 1]
       /\ LastTotal(s, t.rate, m) = GenerateRepaymentSchedule(t)[t.term].total
  BY <1>1, <1>4, <1>8, <1>16, RestLevelled, RestRows
<1>18. LastTotal(s, t.rate, m) \in Nat /\ Apart(LastTotal(s, t.rate, m), q) <= F
  <2>. t.term \in (t.grace + 1)..t.term
    BY <1>1
  <2>. QED  BY <1>9, <1>17 DEF Priced
<1>19. CASE m = 0
  <2>1. i = t.term /\ k = 1
    <3>1. f = t.term
      BY <1>1, <1>3, <1>19
    <3>2. k \in 1..1
      BY <1>4, <1>19
    <3>3. k = 1
      BY <3>2
    <3>. QED  BY <1>1, <1>11, <3>1, <3>3
  <2>2. y = LastTotal(s, t.rate, 0)
    BY <1>13, <1>17, <1>19, <2>1
  <2>3. x = LastTotal(Rest(u, 0), u.rate, 0) /\ Rest(u, 0)[0] = Balances(t)[f - 1]
    <3>1. 0 \in 0..(u.term - 1) /\ u.term - 1 - 0 = 0 /\ u.term = 1
      BY <1>5, <1>19
    <3>2. Balances(u)[0] = u.principal
      BY <1>5, BalancesShrink
    <3>3. GenerateRepaymentSchedule(u)[u.term].total = LastTotal(Rest(u, 0), u.rate, u.term - 1 - 0)
          /\ Rest(u, 0)[0] = Balances(u)[0]
      BY <1>5, <3>1, RestRows
    <3>. QED  BY <1>5, <1>13, <2>1, <3>1, <3>2, <3>3
  <2>4. x = y
    BY <1>5, <1>17, <2>2, <2>3 DEF LastTotal
  <2>5. Apart(x, y) = 0
    BY <2>4 DEF Apart
  <2>6. Apart(x, y) <= IF q > 2 * F /\ k < m + 1 THEN F ELSE 3 * F
    BY <2>5
  <2>. QED  BY <1>4, <1>5, <1>6, <1>8, <1>11, <1>13, <2>6
<1>20. CASE m > 0
  <2>1. F >= 2
    <3>. n >= 1
      BY <1>4, <1>20
    <3>. QED  BY <1>1, <1>6, TwoCents
  <2>2. r = CalculateMonthlyPayment(s[0], t.rate, m + 1)
    <3>1. u.grace < u.term /\ 0 \in u.grace..(u.term - 1) /\ u.term - u.grace = m + 1
      BY <1>5
    <3>2. /\ Pmt(u) = CalculateMonthlyPayment(u.principal, u.rate, AmortisedMonths(u))
          /\ AmortisedMonths(u) = u.term - u.grace
      BY <1>5, <3>1, RestLevelled
    <3>. QED  BY <1>5, <1>8, <1>17, <3>1, <3>2
  <2>3. Apart(r, q) <= F
    <3>. m \in Nat \ {0}
      BY <1>20
    <3>. QED  BY <1>1, <1>17, <1>18, <2>1, <2>2, InstalmentStays
  <2>4. Apart(x, y) <= IF q > 2 * F /\ k < m + 1 THEN F ELSE 3 * F
    <3>1. Apart(x, y) <= 3 * F
      BY <1>7, <1>14, <2>3 DEF Apart
    <3>2. ASSUME q > 2 * F, k < m + 1 PROVE Apart(x, y) <= F
      <4>1. r > H /\ q > F
        BY <1>7, <2>3, <3>2 DEF Apart
      <4>. QED  BY <1>15, <2>3, <3>2, <4>1
    <3>. QED  BY <3>1, <3>2
  <2>. QED  BY <1>4, <1>5, <1>6, <1>8, <1>11, <1>13, <2>4
<1>. QED  BY <1>19, <1>20

-----------------------------------------------------------------------------
(* Interest grows with the balance.                                        *)
LEMMA InterestMonotone ==
    ASSUME NEW rate \in Rates, NEW x \in Nat, NEW y \in Nat, x <= y
    PROVE  Interest(x, rate) <= Interest(y, rate)
<1>1. PICK N \in Nat, D \in Nat \ {0} : N = rate.num /\ D = rate.den
  BY DEF Rates
<1>2. PICK a \in Nat, b \in Nat : a = x * N /\ b = y * N
  BY ProductType
<1>3. a <= b
  BY <1>2, ProductMonotone
<1>4. a * D <= b * D
  BY <1>3, ProductMonotone
<1>5. Round(a, D) <= Round(b, D)
  BY <1>4, RoundMonotone
<1>. QED  BY <1>1, <1>2, <1>5 DEF Interest

(* The instalments leave the balloon for the last row.                     *)
LEMMA BalloonStays ==
    ASSUME NEW t \in ScheduleInput, t.model = "amortizing",
           \/ t.principal - t.balloon <= 0
           \/ CalculateMonthlyPayment(t.principal - t.balloon, t.rate, AmortisedMonths(t))
                  > Drift(t.rate, AmortisedMonths(t))
    PROVE  GenerateRepaymentSchedule(t)[t.term].principal >= Lesser(t.balloon, t.principal)
<1>1. /\ t.term \in Nat \ {0} /\ t.grace \in Nat /\ t.principal \in Nat \ {0} /\ t.rate \in Rates
      /\ t.balloon \in Nat /\ t.term \in 1..t.term /\ t.term - 1 \in 0..(t.term - 1)
  BY DEF ScheduleInput, Rates
<1>2. PICK n \in Nat : n = t.term - 1
  BY <1>1
<1>3. PICK b : b = Balances(t)
  OBVIOUS
<1>4. /\ b[0] = t.principal /\ \A k \in 0..t.term : b[k] \in Nat
      /\ BalancesOf(b, t)
  BY <1>3, BalancesShrink, BalancesUnfold
<1>5. GenerateRepaymentSchedule(t)[t.term].principal = b[n]
  <2>1. /\ GenerateRepaymentSchedule(t)[t.term].principal = b[t.term - 1] - b[t.term]
        /\ b[t.term] = 0 /\ b[t.term - 1] \in Nat
    BY <1>1, <1>3, RowsInBalances
  <2>. QED  BY <1>2, <2>1
<1>6. CASE t.principal - t.balloon <= 0
  <2>1. Pmt(t) = 0
    <3>. Larger(0, t.principal - t.balloon) = 0
      BY <1>1, <1>6 DEF Larger
    <3>. QED  BY DEF Pmt, CalculateMonthlyPayment
  <2>. DEFINE S == {k \in 0..n : b[k] = t.principal}
  <2>2. 0 \in S
    BY <1>2, <1>4
  <2>3. ASSUME NEW k \in 0..(n - 1), k \in S PROVE k + 1 \in S
    <3>1. k + 1 \in 1..t.term /\ k + 1 # t.term /\ k + 1 \in 0..n /\ (k + 1) - 1 = k
          /\ k \in 0..t.term
      BY <1>1, <1>2
    <3>2. b[k + 1] = b[k] - PrincipalPart(t, k + 1, b[k]) /\ b[k] \in Nat
      BY <1>4, <3>1 DEF BalancesOf
    <3>3. PICK i \in Nat : i = Interest(b[k], t.rate)
      BY <1>1, <3>2, InterestType
    <3>4. PrincipalPart(t, k + 1, b[k]) = 0
      BY <2>1, <3>1, <3>2, <3>3 DEF PrincipalPart, Lesser, Larger
    <3>. QED  BY <2>3, <3>1, <3>2, <3>4
  <2>. HIDE DEF S
  <2>4. 0..n \subseteq S
    BY <2>2, <2>3, SetInduction
  <2>5. b[n] = t.principal
    <3>. n \in S
      BY <2>4
    <3>. QED  BY DEF S
  <2>. QED  BY <1>1, <1>5, <2>5 DEF Lesser
<1>7. CASE t.grace >= t.term
  <2>1. b[n] = t.principal
    <3>. t.term - 1 <= t.grace
      BY <1>1, <1>7
    <3>. QED  BY <1>1, <1>2, <1>3, BalancesShrink
  <2>. QED  BY <1>1, <1>5, <2>1 DEF Lesser
<1>8. CASE t.grace < t.term /\ t.principal - t.balloon > 0
  <2>1. PICK a \in Nat \ {0} : a = t.principal - t.balloon
    BY <1>1, <1>8
  <2>2. PICK v : v = [t EXCEPT !.principal = a, !.balloon = 0]
    OBVIOUS
  <2>3. /\ v \in ScheduleInput /\ v.principal = a /\ v.balloon = 0 /\ v.term = t.term
        /\ v.grace = t.grace /\ v.model = "amortizing" /\ v.rate = t.rate
    BY <2>2 DEF ScheduleInput
  <2>4. PICK q \in Nat, F \in Nat : q = Pmt(v) /\ F = Drift(t.rate, t.term - t.grace)
    <3>1. v.grace < v.term /\ v.grace \in v.grace..(v.term - 1)
      BY <1>1, <1>8, <2>3
    <3>2. Pmt(v) \in Nat
      BY <2>3, <3>1, RestLevelled
    <3>3. t.term - t.grace - 1 \in Nat /\ (t.term - t.grace - 1) + 1 = t.term - t.grace
      BY <1>1, <1>8
    <3>4. PICK j \in Nat : j = t.term - t.grace - 1
      BY <3>3
    <3>5. Drift(t.rate, j + 1) \in Nat /\ j + 1 = t.term - t.grace
      BY <1>1, <3>3, <3>4, DriftIs
    <3>. QED  BY <3>2, <3>5
  <2>5. Pmt(t) = q /\ q > F
    <3>1. /\ Larger(0, t.principal - t.balloon) = a /\ Larger(0, a - 0) = a
          /\ AmortisedMonths(t) = t.term - t.grace
      BY <1>1, <1>8, <2>1 DEF Larger, AmortisedMonths
    <3>2. /\ Pmt(t) = CalculateMonthlyPayment(a, t.rate, AmortisedMonths(t))
          /\ q = CalculateMonthlyPayment(a, t.rate, AmortisedMonths(t))
      BY <2>3, <2>4, <3>1 DEF Pmt, AmortisedMonths
    <3>. QED  BY <1>8, <2>1, <2>4, <3>1, <3>2
  <2>6. PICK w : w = Balances(v)
    OBVIOUS
  <2>7. /\ w[0] = a /\ \A k \in 0..t.term : w[k] \in Nat
        /\ BalancesOf(w, v)
    BY <2>3, <2>6, BalancesShrink, BalancesUnfold
  <2>8. w[n] > 0
    <3>. Priced(v, q, F)
      BY <1>8, <2>3, <2>4, SchedulePriced
    <3>. QED  BY <1>2, <2>3, <2>5, <2>6 DEF Priced
  <2>. DEFINE S == {k \in 0..n : w[k] > 0 => b[k] >= w[k] + t.balloon}
  <2>9. 0 \in S
    BY <1>1, <1>2, <1>4, <2>1, <2>7
  <2>10. ASSUME NEW k \in 0..(n - 1), k \in S PROVE k + 1 \in S
    <3>1. k + 1 \in 1..t.term /\ k + 1 # t.term /\ k + 1 \in 0..n /\ (k + 1) - 1 = k
          /\ k \in 0..t.term /\ k + 1 \in 0..t.term
      BY <1>1, <1>2
    <3>2. b[k + 1] = b[k] - PrincipalPart(t, k + 1, b[k])
          /\ w[k + 1] = w[k] - PrincipalPart(v, k + 1, w[k])
      BY <1>4, <2>3, <2>7, <3>1 DEF BalancesOf
    <3>3. PICK x \in Nat, y \in Nat, i \in Nat, j \in Nat :
              /\ x = b[k] /\ y = w[k]
              /\ i = Interest(b[k], t.rate) /\ j = Interest(w[k], t.rate)
      <4>1. b[k] \in Nat /\ w[k] \in Nat
        BY <1>4, <2>7, <3>1
      <4>2. Interest(b[k], t.rate) \in Nat /\ Interest(w[k], t.rate) \in Nat
        BY <1>1, <4>1, InterestType
      <4>. QED  BY <4>1, <4>2
    <3>4. PICK x1 \in Nat, y1 \in Nat, B \in Nat : x1 = b[k + 1] /\ y1 = w[k + 1] /\ B = t.balloon
      BY <1>1, <1>4, <2>7, <3>1
    <3>5. y > 0 => x >= y + B
      BY <2>10, <3>3, <3>4
    <3>6. y <= x => j <= i
      BY <1>1, <3>3, InterestMonotone
    <3>7. y1 > 0 => x1 >= y1 + B
      <4>1. CASE k + 1 <= t.grace
        <5>1. PrincipalPart(t, k + 1, b[k]) = 0 /\ PrincipalPart(v, k + 1, w[k]) = 0
          BY <2>3, <3>1, <4>1 DEF PrincipalPart
        <5>2. x1 = x /\ y1 = y
          BY <3>2, <3>3, <3>4, <5>1
        <5>. QED  BY <3>5, <5>2
      <4>2. CASE ~(k + 1 <= t.grace)
        <5>1. /\ PrincipalPart(t, k + 1, b[k]) = Lesser(x, Larger(0, q - i))
              /\ PrincipalPart(v, k + 1, w[k]) = Lesser(y, Larger(0, q - j))
          BY <2>3, <2>4, <2>5, <3>1, <3>3, <4>2 DEF PrincipalPart
        <5>2. x1 = x - Lesser(x, Larger(0, q - i)) /\ y1 = y - Lesser(y, Larger(0, q - j))
          BY <3>2, <3>3, <3>4, <5>1
        <5>. QED  BY ONLY <3>5, <3>6, <5>2, x \in Nat, y \in Nat, i \in Nat, j \in Nat,
                          x1 \in Nat, y1 \in Nat, B \in Nat, q \in Nat DEF Lesser, Larger
      <4>. QED  BY <4>1, <4>2
    <3>. QED  BY <3>1, <3>4, <3>7
  <2>. HIDE DEF S
  <2>11. 0..n \subseteq S
    BY <2>9, <2>10, SetInduction
  <2>12. b[n] >= w[n] + t.balloon
    <3>. n \in S
      BY <2>11
    <3>. QED  BY <2>8 DEF S
  <2>13. b[n] \in Nat /\ w[n] \in Nat
    <3>. n \in 0..t.term
      BY <1>1, <1>2
    <3>. QED  BY <1>4, <2>7
  <2>. QED  BY <1>1, <1>5, <2>12, <2>13 DEF Lesser
<1>. QED  BY <1>1, <1>6, <1>7, <1>8

-----------------------------------------------------------------------------
(* The schedule and the balance a tail starts from, in the engine's terms. *)
LEMMA FromBalance ==
    ASSUME IInv, tail # << >>
    PROVE  /\ request \in ScheduleInput /\ schedule # << >>
           /\ schedule = GenerateRepaymentSchedule(request)
           /\ from \in 2..request.term /\ Balances(request)[from - 1] > 0
           /\ tail = RegenerateRemainingSchedule(request, Balances(request)[from - 1], from)
           /\ Len(tail) = request.term - from + 1
<1>1. /\ request \in ScheduleInput /\ schedule # << >>
      /\ schedule = GenerateRepaymentSchedule(request)
      /\ from \in 2..request.term /\ schedule[from - 1].remaining > 0
      /\ tail = RegenerateRemainingSchedule(request, schedule[from - 1].remaining, from)
  BY DEF IInv, Regenerated, Scheduled
<1>2. Len(tail) = request.term - from + 1
  BY TailFacts
<1>3. from - 1 \in 1..request.term
  BY <1>1 DEF ScheduleInput
<1>4. schedule[from - 1].remaining = Balances(request)[from - 1]
  BY <1>1, <1>3, RowsInBalances
<1>. QED  BY <1>1, <1>2, <1>4

(* After its grace an amortising loan without a balloon costs the level    *)
(* instalment every month, unless that is lost in the rounding; the last   *)
(* row, which absorbs the rounding of all of them, is off by no more than  *)
(* a cent a month and its interest (schedule.engine.ts:93-102).            *)
THEOREM InstalmentsAlwaysLevel == Spec => []InstalmentsLevel
<1>1. IInv /\ LevelUntilCleared => InstalmentsLevel
  <2>1. ASSUME IInv, schedule # << >>, request.grace < request.term,
               request.model = "amortizing", request.balloon = 0
        PROVE  /\ LevelPayment > LoanDrift =>
                    \A k \in (request.grace + 1)..(request.term - 1) :
                        schedule[k].total = LevelPayment
               /\ Apart(schedule[request.term].total, LevelPayment) <= LoanDrift
    <3>1. request \in ScheduleInput /\ schedule = GenerateRepaymentSchedule(request)
      BY <2>1 DEF IInv, Scheduled
    <3>2. request.grace \in request.grace..(request.term - 1)
          /\ request.term \in (request.grace + 1)..request.term
      BY <2>1, <3>1 DEF ScheduleInput
    <3>3. Priced(request, Pmt(request), Drift(request.rate, request.term - request.grace))
      BY <2>1, <3>1, SchedulePriced
    <3>4. /\ Pmt(request) = LevelPayment
          /\ Drift(request.rate, request.term - request.grace) = LoanDrift
      BY <2>1, <3>1, <3>2, RestLevelled DEF LevelPayment, LoanDrift
    <3>. QED  BY <3>1, <3>2, <3>3, <3>4 DEF Priced
  <2>. QED  BY <2>1 DEF InstalmentsLevel
<1>. QED  BY <1>1, IInvHolds, LevelUntilAlwaysCleared, PTL

(* The balloon is still owed when the last instalment falls due: the level *)
(* instalments, computed without it, never eat into it, unless they are    *)
(* lost in the rounding (schedule.engine.ts:73-76 and 93-98).              *)
THEOREM BalloonAlwaysLeft == Spec => []BalloonLeftForTheEnd
<1>1. IInv => BalloonLeftForTheEnd
  <2>. SUFFICES ASSUME IInv, schedule # << >>, request.model = "amortizing",
                       \/ request.principal - request.balloon <= 0
                       \/ CalculateMonthlyPayment(request.principal - request.balloon,
                                                  request.rate, AmortisedMonths(request))
                              > LoanDrift
                PROVE  schedule[request.term].principal >= Lesser(request.balloon, request.principal)
    BY DEF BalloonLeftForTheEnd
  <2>1. request \in ScheduleInput /\ schedule = GenerateRepaymentSchedule(request)
    BY DEF IInv, Scheduled
  <2>. QED  BY <2>1, BalloonStays DEF LoanDrift
<1>. QED  BY <1>1, IInvHolds, PTL

(* Regenerating the tail of a loan paid as scheduled, after its grace,     *)
(* puts every instalment in its place and at its price, up to the rounding *)
(* of the months and its interest (schedule.engine.ts:126-146).            *)
THEOREM TailAlwaysReproduces == Spec => []TailReproducesSchedule
<1>1. IInv /\ TailInPlace => TailReproducesSchedule
  <2>. SUFFICES ASSUME IInv, tail # << >>, from > request.grace, request.balloon = 0,
                       NEW k \in 1..Len(tail)
                PROVE  Apart(tail[k].total, schedule[from + k - 1].total) <=
                           IF LevelPayment > 2 * LoanDrift /\ k < Len(tail) THEN LoanDrift
                                                                          ELSE 3 * LoanDrift
    BY DEF TailReproducesSchedule
  <2>1. /\ request \in ScheduleInput /\ schedule # << >>
        /\ schedule = GenerateRepaymentSchedule(request)
        /\ from \in 2..request.term /\ Balances(request)[from - 1] > 0
        /\ tail = RegenerateRemainingSchedule(request, Balances(request)[from - 1], from)
        /\ Len(tail) = request.term - from + 1
    BY FromBalance
  <2>2. /\ request.term \in Nat /\ request.grace \in Nat /\ request.grace < request.term
        /\ request.rate \in Rates
    BY <2>1 DEF ScheduleInput, Rates
  <2>3. k \in 1..(request.term - from + 1)
    BY <2>1
  <2>4. AmortisedMonths(request) = request.term - request.grace
    BY <2>2 DEF AmortisedMonths, Larger
  <2>5. LoanDrift = Drift(request.rate, request.term - request.grace)
    BY <2>4 DEF LoanDrift
  <2>6. CASE request.model = "amortizing"
    <3>1. request.grace \in request.grace..(request.term - 1)
      BY <2>2
    <3>2. Pmt(request) = LevelPayment
      BY <2>1, <2>2, <2>6, <3>1, RestLevelled DEF LevelPayment
    <3>. QED  BY <2>1, <2>3, <2>5, <2>6, <3>2, TailPriced
  <2>7. CASE request.model # "amortizing"
    <3>1. PICK n \in Nat : request.term - request.grace = n + 1
      <4>. request.term - request.grace - 1 \in Nat
           /\ request.term - request.grace = (request.term - request.grace - 1) + 1
        BY <2>2
      <4>. QED  OBVIOUS
    <3>2. LoanDrift \in Nat
      BY <2>2, <2>5, <3>1, DriftIs
    <3>3. tail[k].total = schedule[from + k - 1].total
      BY <2>1, <2>3, <2>7, UnamortisedTail
    <3>4. PICK i \in 1..request.term : i = from + k - 1
      BY <2>1, <2>2, <2>3
    <3>5. schedule[i].total \in Nat
      <4>. schedule \in [1..request.term -> EngineRow]
        BY <2>1, SchedulePaysOff DEF PaysOff
      <4>. QED  BY DEF EngineRow
    <3>6. Apart(tail[k].total, schedule[from + k - 1].total) = 0
      BY <3>3, <3>4, <3>5 DEF Apart
    <3>. QED  BY <3>2, <3>6
  <2>. QED  BY <2>6, <2>7
<1>. QED  BY <1>1, IInvHolds, TailAlwaysInPlace, PTL

=============================================================================
