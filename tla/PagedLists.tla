----------------------------- MODULE PagedLists -----------------------------
(***************************************************************************)
(* A client that reads one of the lists of the API page by page: findMany  *)
(* of base.repository.ts behind the list handlers of investors,            *)
(* investments and payments.  A page is two queries sent at once, the      *)
(* documents and their number; whether there is a next page follows from   *)
(* the number, and nothing ties one page to the other.                     *)
(*                                                                         *)
(* A list is sorted by one field, its key: -createdAt, dueDate or what the *)
(* client names.  No unique field breaks ties, so every page may order     *)
(* documents with equal keys anew.  The filter of a list, by owner and by  *)
(* status, is what `matches` says of a document; a write of the status     *)
(* takes a document into the list or out of it while it is read.           *)
(***************************************************************************)
EXTENDS Naturals, FiniteSets, SequencesExt

CONSTANTS
    Keys,         \* values of the field a list is sorted by
    AtStart,      \* documents there are when the client begins, at most
    MaxWrites,    \* writes of other requests while the client reads
    Asked,        \* page sizes a client asks for
    PageLimit     \* findMany: Math.min(100, ...)

VARIABLES
    documents,  \* the collection: what is not deleted, by its id
    created,    \* documents ever created
    written,    \* writes of other requests
    limit,      \* the page size
    page,       \* the page asked for, 0 before the walk
    todo,       \* queries of the page not answered yet
    data, total, \* what they answered
    shown,      \* the documents the client was shown, in order
    done,       \* a page said there is no next one
    \* What the properties remember of the past.
    expected,   \* what a full list would have shown when the walk began
    tied,       \* documents that shared their key with another during the walk
    removals,   \* a document left its place in the list during the walk
    insertions, \* a document came to a place in the list during the walk
    split       \* one came after the count of a page and before its documents

answer == <<data, total>>
history == <<expected, tied, removals, insertions, split>>
vars == <<documents, created, written, limit, page, todo, answer, shown, done, history>>

Visible(docs) == {d \in DOMAIN docs : docs[d].matches}
Ties(docs) ==
    {d \in Visible(docs) : \E e \in Visible(docs) \ {d} : docs[e].key = docs[d].key}
\* Where the documents of the list stand.
Placed(docs) == {<<d, docs[d].key>> : d \in Visible(docs)}
\* The orders a sorted query may answer in.
Orders(docs) ==
    {q \in [1 .. Cardinality(Visible(docs)) -> Visible(docs)] :
        /\ IsInjective(q)
        /\ \A i, j \in DOMAIN q : i < j => docs[q[i]].key <= docs[q[j]].key}

LimitOf(asked) == IF asked < PageLimit THEN asked ELSE PageLimit
\* Mutant: skip(page * limit), as if pages were numbered from 0.
WindowShifted(docs) ==
    LET from == page * limit + 1
        to == IF from + limit <= Len(docs) THEN page * limit + limit ELSE Len(docs)
    IN  SubSeq(docs, from, to)

\* skip((page - 1) * limit).limit(limit)
Window(docs) ==
    LET from == (page - 1) * limit + 1
        to == IF page * limit < Len(docs) THEN page * limit ELSE Len(docs)
    IN  SubSeq(docs, from, to)

Documents == [key : Keys, matches : BOOLEAN]

Init ==
    /\ limit \in {LimitOf(asked) : asked \in Asked}
    /\ \E n \in 0 .. AtStart : documents \in [1 .. n -> Documents] /\ created = n
    /\ written = 0 /\ page = 0 /\ todo = {} /\ data = <<>> /\ total = 0
    /\ shown = <<>> /\ done = FALSE
    /\ expected = {} /\ tied = {} /\ removals = FALSE /\ insertions = FALSE /\ split = FALSE

-----------------------------------------------------------------------------
(* The client. *)

\* The first page, or the next one once the page before was answered.
Ask ==
    /\ todo = {} /\ ~done
    /\ page' = page + 1 /\ todo' = {"find", "countDocuments"}
    /\ expected' = IF page = 0 THEN Visible(documents) ELSE expected
    /\ tied' = IF page = 0 THEN Ties(documents) ELSE tied
    /\ UNCHANGED <<documents, created, written, limit, answer, shown, done>>
    /\ UNCHANGED <<removals, insertions, split>>

\* Promise.all: the two queries are answered in either order.
Find ==
    /\ "find" \in todo
    /\ \E q \in Orders(documents) : data' = Window(q)
    /\ todo' = IF todo = {"find"} THEN {"answer"} ELSE {"countDocuments"}
    /\ UNCHANGED <<documents, created, written, limit, page, total, shown, done, history>>

CountDocuments ==
    /\ "countDocuments" \in todo
    /\ total' = Cardinality(Visible(documents))
    /\ todo' = IF todo = {"countDocuments"} THEN {"answer"} ELSE {"find"}
    /\ UNCHANGED <<documents, created, written, limit, page, data, shown, done, history>>

\* hasNext: page * limit < total
Answer ==
    /\ todo = {"answer"}
    /\ todo' = {} /\ shown' = shown \o data
    /\ done' = ~(page * limit < total)
    /\ data' = <<>> /\ total' = 0
    /\ UNCHANGED <<documents, created, written, limit, page, history>>

-----------------------------------------------------------------------------
(* Other requests write documents while the client reads. *)

Become(docs) ==
    LET left == Placed(documents) \ Placed(docs)
        came == Placed(docs) \ Placed(documents)
    IN  /\ page > 0 /\ ~done /\ written < MaxWrites /\ written' = written + 1
        /\ documents' = docs
        /\ removals' = (removals \/ left # {})
        /\ insertions' = (insertions \/ came # {})
        /\ split' = (split \/ (came # {} /\ todo = {"find"}))
        /\ tied' = tied \cup Ties(docs)
        /\ UNCHANGED <<limit, page, todo, answer, shown, done, expected>>

\* A new document has an id of its own.
CreateOne ==
    /\ created' = created + 1
    /\ \E new \in Documents :
           Become([d \in DOMAIN documents \cup {created + 1} |->
                      IF d = created + 1 THEN new ELSE documents[d]])

\* A soft delete: no query finds the document any more.
RemoveOne ==
    /\ \E r \in DOMAIN documents : Become([d \in DOMAIN documents \ {r} |-> documents[d]])
    /\ UNCHANGED created

\* A write of the status, or of the field the list is sorted by.
ChangeOne ==
    /\ \E c \in DOMAIN documents, new \in Documents :
           Become([d \in DOMAIN documents |-> IF d = c THEN new ELSE documents[d]])
    /\ UNCHANGED created

Next == Ask \/ Find \/ CountDocuments \/ Answer \/ CreateOne \/ RemoveOne \/ ChangeOne

Spec == Init /\ [][Next]_vars
-----------------------------------------------------------------------------
(* Properties. *)

TypeOK ==
    /\ written \in 0 .. MaxWrites /\ created \in 0 .. AtStart + MaxWrites
    /\ DOMAIN documents \subseteq 1 .. created /\ total \in 0 .. AtStart + MaxWrites
    /\ limit \in 1 .. PageLimit /\ page \in Nat
    /\ Len(data) <= limit /\ todo \subseteq {"find", "countDocuments", "answer"}

\* A client that reads until there is no next page has seen every document the
\* list had when it began and whose key no other shared, unless one left its place
\* meanwhile, or one came between the count of a page and its documents.
NothingMissed ==
    done /\ ~removals /\ ~split => expected \ tied \subseteq ToSet(shown)

\* It sees no such document twice, unless one came while it read.
NothingTwice ==
    ~insertions =>
        \A i, j \in DOMAIN shown : shown[i] = shown[j] => i = j \/ shown[i] \in tied

\* A list nobody wrote to is shown with its number of rows, ties or not.
RightNumber ==
    done /\ ~removals /\ ~insertions => Len(shown) = Cardinality(expected)

\* What reading a list page by page promises.
WalkFaithful == NothingMissed /\ NothingTwice /\ RightNumber
=============================================================================
