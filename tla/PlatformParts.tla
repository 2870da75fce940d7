---------------------------- MODULE PlatformParts ----------------------------
(***************************************************************************)
(* Parts of the backend that share nothing, side by side: each has         *)
(* variables of its own here and is an instance of its module.  MCPlatform *)
(* adds the ledger, the sessions, the schedule and the calendar, and says  *)
(* how the parts move.                                                     *)
(***************************************************************************)

CONSTANTS
    Slots,              \* two names: the requests served at a time, and the investments
    MaxShocks,          \* failures of the stores in a behaviour of a part
    MaxInvestments, Principals, TotalsPage, MaxChanges,         \* of the totals
    MaxAttempts, MaxCodes, CodeRequests,                        \* of the recovery
    Emails, MaxAccounts, UserRequests,                          \* of the accounts
    Readers, MaxDocuments, MaxFiles, DocumentRequests,          \* of the documents
    MaxTerm, StatementPage, StatementRequests,                  \* of the statements
    Keys, AtStart, MaxListWrites, Asked, ListPage               \* of the lists

VARIABLES
    totalInvestments, totalTotals, totalRemoved, totalRequest, totalChanges,
    totalShocks, totalStale,
    codeUp, codeShocks, codeChanged, codeInRedis, codeInMemory, codeGenerated,
    codeResetTokens, codePointer, codeExchanged, codeRequest, codeBegun,
    codeMet, codeAccepted, codeWrong, codeSpent, codeDead,
    userUniqueIndex, userUsers, userInvestors, userRequest, userBegun,
    userShocks, userMixed, userCrossed, userDetached, userBroken,
    docDocuments, docDisk, docUploaded, docRequest, docBegun, docShocks,
    docLeftover, docRepointed, docEntitled,
    readTerm, readPaid, readRepaid, readExports, readAnswers, readRequest,
    readBegun, readShocks, readTorn,
    listDocuments, listCreated, listWritten, listLimit, listPage, listTodo,
    listData, listTotal, listShown, listDone, listExpected, listTied,
    listRemovals, listInsertions, listSplit

totalVars ==
    <<totalInvestments, totalTotals, totalRemoved, totalRequest,
      totalChanges, totalShocks, totalStale>>
codeVars ==
    <<codeUp, codeShocks, codeChanged, codeInRedis, codeInMemory,
      codeGenerated, codeResetTokens, codePointer, codeExchanged,
      codeRequest, codeBegun, codeMet, codeAccepted, codeWrong, codeSpent,
      codeDead>>
userVars ==
    <<userUniqueIndex, userUsers, userInvestors, userRequest, userBegun,
      userShocks, userMixed, userCrossed, userDetached, userBroken>>
docVars ==
    <<docDocuments, docDisk, docUploaded, docRequest, docBegun, docShocks,
      docLeftover, docRepointed, docEntitled>>
readVars ==
    <<readTerm, readPaid, readRepaid, readExports, readAnswers, readRequest,
      readBegun, readShocks, readTorn>>
listVars ==
    <<listDocuments, listCreated, listWritten, listLimit, listPage, listTodo,
      listData, listTotal, listShown, listDone, listExpected, listTied,
      listRemovals, listInsertions, listSplit>>

-----------------------------------------------------------------------------
Totals == INSTANCE InvestorTotals WITH
    PageLimit <- TotalsPage, investments <- totalInvestments,
    totals <- totalTotals, removed <- totalRemoved, request <- totalRequest,
    changes <- totalChanges, shocks <- totalShocks, stale <- totalStale

Recovery == INSTANCE OneTimeCodes WITH
    MaxRequests <- CodeRequests,
    up <- codeUp, shocks <- codeShocks, changed <- codeChanged,
    inRedis <- codeInRedis, inMemory <- codeInMemory,
    generated <- codeGenerated, resetTokens <- codeResetTokens,
    pointer <- codePointer, exchanged <- codeExchanged,
    request <- codeRequest, begun <- codeBegun, met <- codeMet,
    accepted <- codeAccepted, wrong <- codeWrong, spent <- codeSpent,
    dead <- codeDead

Directory == INSTANCE UserDirectory WITH
    MaxRequests <- UserRequests,
    uniqueIndex <- userUniqueIndex, users <- userUsers,
    investors <- userInvestors, request <- userRequest, begun <- userBegun,
    shocks <- userShocks, mixed <- userMixed, crossed <- userCrossed,
    detached <- userDetached, broken <- userBroken

Library == INSTANCE DocumentLibrary WITH
    MaxRequests <- DocumentRequests, documents <- docDocuments,
    disk <- docDisk, uploaded <- docUploaded, request <- docRequest,
    begun <- docBegun, shocks <- docShocks, leftover <- docLeftover,
    repointed <- docRepointed, entitled <- docEntitled

Reading == INSTANCE Statements WITH
    PageLimit <- StatementPage, MaxRequests <- StatementRequests,
    term <- readTerm, paid <- readPaid,
    repaid <- readRepaid, exports <- readExports, answers <- readAnswers,
    request <- readRequest, begun <- readBegun, shocks <- readShocks,
    torn <- readTorn

Walk == INSTANCE PagedLists WITH
    MaxWrites <- MaxListWrites, PageLimit <- ListPage,
    documents <- listDocuments, created <- listCreated, written <- listWritten,
    limit <- listLimit, page <- listPage, todo <- listTodo,
    data <- listData, total <- listTotal, shown <- listShown,
    done <- listDone, expected <- listExpected, tied <- listTied,
    removals <- listRemovals, insertions <- listInsertions,
    split <- listSplit
=============================================================================
