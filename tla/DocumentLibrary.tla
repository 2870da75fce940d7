-------------------------- MODULE DocumentLibrary --------------------------
(***************************************************************************)
(* Reports and contracts: document.service.ts behind the upload, magic-    *)
(* bytes and validation middlewares.  The file reaches the disk before     *)
(* anything about the request is checked, and the document is written      *)
(* last; nothing ever deletes a file except the check of its content.      *)
(*                                                                         *)
(* A file is a number; 0 stands for a fileUrl that names no file of the    *)
(* upload directory.  The fileUrl of a body is stored unchecked: it may    *)
(* name nothing, or any file whose name an answer gave away, so several    *)
(* documents may come to share a file.                                     *)
(***************************************************************************)
EXTENDS Naturals, Sequences, FiniteSets

CONSTANTS
    Slots,        \* requests served at a time
    Readers,      \* investors with a profile
    MaxDocuments, \* documents ever created
    MaxFiles,     \* files ever uploaded
    MaxRequests,  \* requests ever begun
    MaxShocks     \* requests cut short

Kinds == {"report", "contract"}
Admin == "admin"

VARIABLES
    documents,  \* reports and contracts, oldest first
    disk,       \* the files of the upload directory
    uploaded,   \* files ever written there
    request,    \* the request in each slot
    begun,      \* requests begun
    shocks,     \* requests cut short
    \* What the properties remember of the past.
    leftover,   \* files whose request was refused after the check of the content,
                \* cut short, or named another file, and files replaced by an update
    repointed,  \* documents whose fileUrl an administrator wrote
    entitled    \* for each file, the investors a document with it was ever assigned to
history == <<leftover, repointed, entitled>>
vars == <<documents, disk, uploaded, request, begun, shocks, history>>

NoFile == 0
Idle == [at |-> "idle", kind |-> "none", file |-> NoFile, who |-> "none", doc |-> 0]
Uploading == {"bytes", "validate", "create"}
Busy(s) == request[s].at # "idle"
Goto(s, at) == request' = [request EXCEPT ![s].at = at]
Done(s) == request' = [request EXCEPT ![s] = Idle]

Init ==
    /\ documents = <<>> /\ disk = {} /\ uploaded = 0
    /\ request = [s \in Slots |-> Idle] /\ begun = 0 /\ shocks = 0
    /\ leftover = {} /\ repointed = {} /\ entitled = [f \in 1 .. MaxFiles |-> {}]

-----------------------------------------------------------------------------
(* What the service looks up. *)

Live(d) == d \in DOMAIN documents /\ ~documents[d].deleted
\* assertAssigned: an administrator has no scope.
Assigned(d, who) == who = Admin \/ who \in documents[d].assigned
GetReport(d, who) == Live(d) /\ documents[d].kind = "report" /\ Assigned(d, who)
GetContract(d, who) == Live(d) /\ documents[d].kind = "contract" /\ Assigned(d, who)
\* resolveUploadPath
ResolveUploadPath(file) == file \in disk
\* What a fileUrl in a body can name: multer makes the names of the files up, and
\* nobody is told them before the document is created.
InFlight == {request[s].file : s \in {x \in Slots : request[x].at \in Uploading}}
Addresses == {NoFile} \cup (disk \ InFlight)

\* multer's file filter, then the first bytes against the declared type.
DetectMime(content) == CASE content = "%PDF" -> "pdf" [] content = "JFIF" -> "jpeg"
                         [] content = "PK" -> "zip" [] OTHER -> "none"
IsCompatible(declared, detected) ==
    \/ declared = detected /\ detected \in {"pdf", "jpeg"}
    \/ declared \in {"zip", "docx", "xlsx", "doc", "xls"} /\ detected = "zip"

-----------------------------------------------------------------------------
(* An administrator uploads a document. *)

\* uploadSingle: the file is on the disk under a name of its own.
Upload(s) ==
    \E k \in Kinds :
        /\ ~Busy(s) /\ begun < MaxRequests /\ uploaded < MaxFiles
        /\ begun' = begun + 1 /\ uploaded' = uploaded + 1
        /\ disk' = disk \cup {uploaded + 1}
        /\ request' = [request EXCEPT ![s] = [Idle EXCEPT !.at = "bytes", !.kind = k,
                                                          !.file = uploaded + 1]]
        /\ UNCHANGED <<documents, shocks, history>>

\* A body with a fileUrl needs no upload; validateMagicBytes lets it pass.
PostWithoutFile(s) ==
    \E k \in Kinds :
        /\ ~Busy(s) /\ begun < MaxRequests /\ begun' = begun + 1
        /\ request' = [request EXCEPT ![s] = [Idle EXCEPT !.at = "validate", !.kind = k]]
        /\ UNCHANGED <<documents, disk, uploaded, shocks, history>>

\* validateMagicBytes removes a file that is not what it declares.
ValidateMagicBytes(s) ==
    \E declared \in {"pdf", "jpeg", "docx"}, content \in {"%PDF", "JFIF", "PK", "text"} :
        /\ request[s].at = "bytes"
        /\ IF IsCompatible(declared, DetectMime(content))
           THEN Goto(s, "validate") /\ UNCHANGED disk
           ELSE Done(s) /\ disk' = disk \ {request[s].file}
        /\ UNCHANGED <<documents, uploaded, begun, shocks, history>>

\* The file a request uploaded, or a document has, as a set.
Uploaded(file) == {file} \ {NoFile}

\* The validators, and "title is required": the file stays.
ValidateFields(s) ==
    /\ request[s].at = "validate"
    /\ \/ Goto(s, "create") /\ UNCHANGED leftover
       \/ Done(s) /\ leftover' = leftover \cup Uploaded(request[s].file)
    /\ UNCHANGED <<documents, disk, uploaded, begun, shocks, repointed, entitled>>

\* Who is entitled to a file once a document with it is assigned.
Entitle(file, assigned) ==
    entitled' = [f \in 1 .. MaxFiles |->
                    IF f = file THEN entitled[f] \cup assigned ELSE entitled[f]]

\* fileUrl of the body goes before the file that was uploaded; "file is required"
\* if there is neither.
CreateDocument(s, kind) ==
    /\ request[s].at = "create" /\ request[s].kind = kind
    /\ Len(documents) < MaxDocuments
    /\ \E assigned \in SUBSET Readers, file \in Addresses \cup {request[s].file} :
        /\ documents' = Append(documents,
               [kind |-> kind, assigned |-> assigned, deleted |-> FALSE, file |-> file])
        /\ leftover' = leftover \cup (Uploaded(request[s].file) \ {file})
        /\ repointed' = IF file \in Addresses THEN repointed \cup {Len(documents) + 1}
                        ELSE repointed
        /\ Entitle(file, assigned)
    /\ Done(s)
    /\ UNCHANGED <<disk, uploaded, begun, shocks>>
CreateReport(s) == CreateDocument(s, "report")
CreateContract(s) == CreateDocument(s, "contract")

-----------------------------------------------------------------------------
(* An administrator changes or deletes a document, one await each. *)

OneStep(s, d, kind) ==
    /\ ~Busy(s) /\ begun < MaxRequests /\ begun' = begun + 1
    /\ Live(d) /\ documents[d].kind = kind
    /\ UNCHANGED <<disk, uploaded, request, shocks>>

\* Mutant: the file a document no longer names is removed.
UpdateDocumentUnlinking(s, kind) ==
    \E d \in DOMAIN documents, assigned \in SUBSET Readers :
        \E file \in Addresses \cup {documents[d].file} :
            /\ ~Busy(s) /\ begun < MaxRequests /\ begun' = begun + 1
            /\ Live(d) /\ documents[d].kind = kind
            /\ documents' = [documents EXCEPT ![d] =
                   [kind |-> kind, assigned |-> assigned, deleted |-> FALSE, file |-> file]]
            /\ disk' = IF file = documents[d].file THEN disk ELSE disk \ {documents[d].file}
            /\ repointed' = IF file = documents[d].file THEN repointed ELSE repointed \cup {d}
            /\ Entitle(file, assigned)
            /\ UNCHANGED <<uploaded, request, shocks, leftover>>

\* The investors and the fileUrl are written as the body has them; the file the
\* document had stays.
UpdateDocument(s, kind) ==
    \E d \in DOMAIN documents, assigned \in SUBSET Readers :
        \E file \in Addresses \cup {documents[d].file} :
            /\ OneStep(s, d, kind)
            /\ documents' = [documents EXCEPT ![d] =
                   [kind |-> kind, assigned |-> assigned, deleted |-> FALSE, file |-> file]]
            /\ leftover' = leftover \cup (Uploaded(documents[d].file) \ {file})
            /\ repointed' = IF file = documents[d].file THEN repointed ELSE repointed \cup {d}
            /\ Entitle(file, assigned)
UpdateReport(s) == UpdateDocument(s, "report")
UpdateContract(s) == UpdateDocument(s, "contract")

DeleteDocument(s, kind) ==
    \E d \in DOMAIN documents :
        /\ OneStep(s, d, kind)
        /\ documents' = [documents EXCEPT ![d].deleted = TRUE]
        /\ UNCHANGED history
DeleteReport(s) == DeleteDocument(s, "report")
DeleteContract(s) == DeleteDocument(s, "contract")

-----------------------------------------------------------------------------
(* A download: the document is found and checked, its file resolved, the     *)
(* audit row awaited, and only then is the file sent.                        *)

StartDownload(s, d, who) ==
    /\ ~Busy(s) /\ begun < MaxRequests /\ begun' = begun + 1
    /\ ResolveUploadPath(documents[d].file)
    /\ request' = [request EXCEPT ![s] = [Idle EXCEPT !.at = "send", !.doc = d, !.who = who,
                                                      !.file = documents[d].file]]
    /\ UNCHANGED <<documents, disk, uploaded, shocks, history>>
DownloadReport(s) == \E d \in DOMAIN documents, who \in Readers \cup {Admin} :
                         GetReport(d, who) /\ StartDownload(s, d, who)
DownloadContract(s) == \E d \in DOMAIN documents, who \in Readers \cup {Admin} :
                           GetContract(d, who) /\ StartDownload(s, d, who)

SendFile(s) ==
    /\ request[s].at = "send"
    /\ Done(s)
    /\ UNCHANGED <<documents, disk, uploaded, begun, shocks, history>>

\* A rejected write or a crash: a file that was uploaded stays.
CutShort(s) ==
    /\ Busy(s) /\ shocks < MaxShocks /\ shocks' = shocks + 1
    /\ leftover' = IF request[s].at = "send" THEN leftover
                   ELSE leftover \cup Uploaded(request[s].file)
    /\ Done(s)
    /\ UNCHANGED <<documents, disk, uploaded, begun, repointed, entitled>>

Next == \E s \in Slots :
    \/ Upload(s) \/ PostWithoutFile(s) \/ ValidateMagicBytes(s) \/ ValidateFields(s)
    \/ CreateReport(s) \/ CreateContract(s) \/ UpdateReport(s) \/ UpdateContract(s)
    \/ DeleteReport(s) \/ DeleteContract(s)
    \/ DownloadReport(s) \/ DownloadContract(s) \/ SendFile(s) \/ CutShort(s)

Spec == Init /\ [][Next]_vars
-----------------------------------------------------------------------------
(* Properties. *)

TypeOK ==
    /\ disk \subseteq 1 .. uploaded /\ uploaded \in 0 .. MaxFiles
    /\ \A d \in DOMAIN documents :
           documents[d].assigned \subseteq Readers /\ documents[d].file \in 0 .. uploaded
    /\ \A s \in Slots : request[s].file \in 0 .. uploaded
    /\ leftover \subseteq 1 .. uploaded /\ repointed \subseteq DOMAIN documents
    /\ entitled \in [1 .. MaxFiles -> SUBSET Readers]

\* A document keeps its file: nothing takes a file off the disk that a document
\* names or a download is about to send, also where documents share one.  Two
\* documents with files of their own upload never do.
UploadedFilesServed ==
    /\ \A d \in DOMAIN documents : documents[d].file \in disk \cup {NoFile}
    /\ \A d, e \in DOMAIN documents \ repointed :
           /\ documents[d].file # NoFile
           /\ documents[e].file = documents[d].file => e = d
    /\ \A s \in Slots : request[s].at = "send" => request[s].file \in disk

\* A file is sent to an administrator, or to an investor some document with it was
\* assigned to, however documents are reassigned, repointed and deleted meanwhile.
SentToEntitled ==
    \A s \in Slots : request[s].at = "send" /\ request[s].who # Admin =>
        request[s].who \in entitled[request[s].file]

\* A file of the upload directory belongs to a document or to a request being
\* served; any other was left by a refusal after the check of its content, a
\* failure, or a document that points elsewhere.
OrphansExplained ==
    \A f \in disk \ leftover :
        \/ \E d \in DOMAIN documents : documents[d].file = f
        \/ \E s \in Slots : request[s].file = f

\* What the documents, the downloads and the files promise of each other.
LibraryConsistent == UploadedFilesServed /\ SentToEntitled /\ OrphansExplained
=============================================================================
