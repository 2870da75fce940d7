------------------------- MODULE ServicesProofs -------------------------
(***************************************************************************)
(* The parts of MCServices, proved for every value of its constants.       *)
(*                                                                         *)
(* A section for each part, with its invariant, a lemma for each action    *)
(* and the theorem about the part by itself; then the theorems about the   *)
(* composition, in which a step of another part changes no variable of     *)
(* this one.  Signing in is not instantiated but extended: its definitions *)
(* have no prefix here.                                                    *)
(***************************************************************************)
EXTENDS MCServices, FiniteSetTheorems, TLAPS

-----------------------------------------------------------------------------
(***************************************************************************)
(* Lockout of SignIn holds for any number of requests at a time, any       *)
(* maximum of attempts from two on and any limit of the address.           *)
(*                                                                         *)
(* Lockout is not inductive: that the document counts what was guessed     *)
(* rests on what the requests in flight have loaded.  Copies says that a   *)
(* copy that is not stale is the document; Alone says that as long as no   *)
(* two requests met, one at most is served, none is stale, and the         *)
(* attempts lag behind the guesses by the one being counted.               *)
(***************************************************************************)

(* Where a request has the account loaded and may save it.                 *)
Loaded == {"increment", "reset", "save", "unlock"}

(* What is loaded and not stale is what is stored; a login goes on only    *)
(* from a copy that was not locked.                                        *)
Copies ==
    \A s \in Slots :
        /\ At(s, "increment") => request[s].lock # "held"
        /\ request[s].at \in Loaded /\ ~request[s].stale =>
               request[s].attempts = attempts /\ request[s].lock = lock

(* While no two requests have met.                                         *)
Alone ==
    ~met =>
        /\ \A s, x \in Slots : Busy(s) /\ Busy(x) => s = x
        /\ \A s \in Slots : ~request[s].stale
        /\ (\A s \in Slots : ~At(s, "increment")) => guessed = attempts
        /\ \A s \in Slots : At(s, "increment") => guessed = NextAttempts(request[s])

(* A slot that serves nothing is idle.                                     *)
Settled == \A s \in Slots : At(s, "idle") <=> ~Busy(s)

(* The part about the attempts and the lock, and the part about sessions   *)
(* and the counter of the address.                                         *)
Tracked ==
    /\ Settled /\ Copies /\ Alone
    /\ AttemptsNotLost /\ LockedAtTheMaximum /\ GuessesBounded
Watched == NoOrphanSessions /\ CounterExpires /\ (~up => failed)

IInv == TypeOK /\ Tracked /\ Watched

-----------------------------------------------------------------------------
(* What a step does to the requests.                                       *)

(* The request of s ends, or goes on to a place where nothing is loaded.   *)
Moved(s) ==
    /\ request' \in [Slots -> Requests]
    /\ \A x \in Slots \ {s} : request'[x] = request[x]
    /\ request'[s].at \notin Loaded
    /\ request'[s].at = "idle" <=> request'[s].op = "idle"
    /\ request'[s].stale => request[s].stale

(* The request of s goes on at `place` with the copy (n, l).               *)
Copied(s, place, n, l, stale) ==
    /\ request'[s].op = request[s].op /\ request'[s].at = place
    /\ request'[s].attempts = n /\ request'[s].lock = l /\ request'[s].stale = stale

(* Every other request being served has a stale copy now.                  *)
OthersStale(s) ==
    \A x \in Slots \ {s} :
        /\ request'[x].op = request[x].op /\ request'[x].at = request[x].at
        /\ request'[x].attempts = request[x].attempts /\ request'[x].lock = request[x].lock
        /\ request'[x].stale = Busy(x)

(* An empty slot is a request like any other. *)
LEMMA IdleTyped == Idle \in Requests
BY DEF Requests, Idle, Ops, Places, Locks

(* A request that ends has moved. *)
LEMMA DoneMoves ==
    ASSUME TypeOK, NEW s \in Slots, Done(s)
    PROVE  Moved(s) /\ request'[s] = Idle
<1>1. request'[s] = Idle
  BY DEF TypeOK, Done
<1>. QED  BY <1>1, IdleTyped DEF TypeOK, Done, Moved, Idle, Loaded

(* So has one that goes on without the account. *)
LEMMA GotoMoves ==
    ASSUME TypeOK, Settled, NEW s \in Slots, NEW place \in Places \ (Loaded \cup {"idle"}),
           Busy(s), Goto(s, place)
    PROVE  Moved(s) /\ At(s, place)'
<1>1. [request[s] EXCEPT !.at = place] \in Requests
  BY DEF TypeOK, Requests
<1>2. request'[s] = [request[s] EXCEPT !.at = place]
  BY DEF TypeOK, Goto
<1>3. request'[s].at = place /\ request'[s].op # "idle" /\ request'[s].stale = request[s].stale
  BY <1>2 DEF TypeOK, Requests, Busy
<1>. QED  BY <1>1, <1>3 DEF TypeOK, Goto, Moved, At

(* What a save does to the requests, field by field. *)
LEMMA SavedGives ==
    ASSUME TypeOK, NEW s \in Slots, NEW place \in Places \cup {"done"}, NEW n \in Nat,
           NEW l \in Locks, Saved(s, place, n, l)
    PROVE  /\ request' \in [Slots -> Requests] /\ OthersStale(s)
           /\ place = "done" => request'[s] = Idle
           /\ place # "done" => Copied(s, place, n, l, request[s].stale)
<1>1. \A x \in Slots : [request[x] EXCEPT !.stale = Busy(x)] \in Requests
  BY DEF TypeOK, Requests, Busy
<1>2. place # "done" => [request[s] EXCEPT !.at = place, !.attempts = n, !.lock = l] \in Requests
  BY DEF TypeOK, Requests
<1>3. \A x \in Slots : request'[x] =
           IF x # s THEN [request[x] EXCEPT !.stale = Busy(x)]
           ELSE IF place = "done" THEN Idle
           ELSE [request[s] EXCEPT !.at = place, !.attempts = n, !.lock = l]
  BY DEF Saved
<1>4. request' \in [Slots -> Requests]
  <2>1. request' = [x \in Slots |-> request'[x]]
    BY DEF Saved
  <2>. QED  BY <1>1, <1>2, <1>3, <2>1, IdleTyped
<1>5. OthersStale(s)
  BY <1>3 DEF OthersStale, TypeOK, Requests
<1>6. ASSUME place # "done" PROVE Copied(s, place, n, l, request[s].stale)
  <2>1. request[s] \in Requests
    BY DEF TypeOK
  <2>2. request'[s] = [request[s] EXCEPT !.at = place, !.attempts = n, !.lock = l]
    BY <1>3, <1>6
  <2>. QED  BY <2>1, <2>2 DEF Copied, Requests
<1>. QED  BY <1>3, <1>4, <1>5, <1>6

(* What loading the account does to them. *)
LEMMA LoadedGives ==
    ASSUME TypeOK, NEW s \in Slots, NEW place \in Places,
           request' = [request EXCEPT ![s] =
               [request[s] EXCEPT !.attempts = attempts, !.lock = lock, !.stale = FALSE,
                                  !.at = place]]
    PROVE  /\ request' \in [Slots -> Requests]
           /\ \A x \in Slots \ {s} : request'[x] = request[x]
           /\ Copied(s, place, attempts, lock, FALSE)
<1>1. [request[s] EXCEPT !.attempts = attempts, !.lock = lock, !.stale = FALSE, !.at = place]
        \in Requests
  BY DEF TypeOK, Requests
<1>2. request'[s] = [request[s] EXCEPT !.attempts = attempts, !.lock = lock, !.stale = FALSE,
                                       !.at = place]
  BY DEF TypeOK
<1>3. Copied(s, place, attempts, lock, FALSE)
  BY <1>2 DEF TypeOK, Requests, Copied
<1>. QED  BY <1>1, <1>3 DEF TypeOK

-----------------------------------------------------------------------------
(* The attempts and the lock stay tracked.                                 *)

(* Nothing that matters changes.                                           *)
LEMMA UntouchedTracks ==
    ASSUME Tracked, UNCHANGED <<request, attempts, lock, met, counted, guessed>>
    PROVE  Tracked'
BY DEF Tracked, Settled, Copies, Alone, AttemptsNotLost, LockedAtTheMaximum, GuessesBounded,
       Busy, At, NextAttempts

(* A request moves to a place where it has nothing loaded; an attempt that *)
(* was to be counted is given up only when requests have met.              *)
LEMMA MovedTracks ==
    ASSUME Tracked, NEW s \in Slots, Busy(s), Moved(s), At(s, "increment") => met,
           UNCHANGED <<attempts, lock, met, counted, guessed>>
    PROVE  Tracked'
<1>1. Settled'
  BY DEF Tracked, Settled, Moved, At, Busy
<1>2. Copies'
  BY DEF Tracked, Copies, Moved, At, Loaded
<1>3. Alone'
  BY DEF Tracked, Alone, Moved, At, Busy, Loaded, NextAttempts
<1>4. AttemptsNotLost' /\ LockedAtTheMaximum' /\ GuessesBounded'
  BY DEF Tracked, AttemptsNotLost, LockedAtTheMaximum, GuessesBounded
<1>. QED  BY <1>1, <1>2, <1>3, <1>4 DEF Tracked

(* A request saves its copy, which was not stale.                          *)
LEMMA SavedTracks ==
    ASSUME TypeOK, Tracked, NEW s \in Slots, Busy(s), ~request[s].stale,
           request' \in [Slots -> Requests], OthersStale(s), UNCHANGED met,
           \/ request'[s] = Idle
           \/ \E place \in Places \ {"idle", "increment"} :
                  Copied(s, place, attempts', lock', request[s].stale),
           attempts' = counted',
           attempts' >= MaxAttempts => lock' # "none",
           ~met => guessed' = attempts' /\ guessed' <= MaxAttempts
    PROVE  Tracked'
<1>1. Settled'
  BY DEF Tracked, Settled, OthersStale, Copied, Idle, At, Busy
<1>2. Copies'
  <2>1. ASSUME NEW x \in Slots, x # s
        PROVE  /\ At(x, "increment")' => request'[x].lock # "held"
               /\ request'[x].at \notin Loaded \/ request'[x].stale
    BY <2>1 DEF Tracked, Settled, Copies, OthersStale, At, Busy, Loaded
  <2>2. /\ ~At(s, "increment")'
        /\ request'[s].at \in Loaded =>
               request'[s].attempts = attempts' /\ request'[s].lock = lock'
    BY DEF Copied, Idle, At, Loaded
  <2>. QED  BY <2>1, <2>2 DEF Copies
<1>3. Alone'
  BY DEF Tracked, Settled, Alone, OthersStale, Copied, Idle, At, Busy, TypeOK, Requests
<1>4. AttemptsNotLost' /\ LockedAtTheMaximum' /\ GuessesBounded'
  BY DEF AttemptsNotLost, LockedAtTheMaximum, GuessesBounded
<1>. QED  BY <1>1, <1>2, <1>3, <1>4 DEF Tracked

(* A request loads the account; a wrong password is about to be counted.   *)
LEMMA LoadedTracks ==
    ASSUME TypeOK, Tracked, NEW s \in Slots, Busy(s), ~At(s, "increment"),
           NEW place \in {"reset", "increment", "save"},
           \A x \in Slots \ {s} : request'[x] = request[x],
           Copied(s, place, attempts, lock, FALSE),
           UNCHANGED <<attempts, lock, met, counted>>,
           place = "increment" =>
               lock # "held" /\ guessed' = IF lock = "lapsed" THEN 1 ELSE guessed + 1,
           place # "increment" => guessed' = guessed
    PROVE  Tracked'
<1>1. Settled'
  BY DEF Tracked, Settled, Copied, At, Busy
<1>2. Copies'
  BY DEF Tracked, Copies, Copied, At, Loaded
<1>3. ~met => guessed = attempts /\ \A x \in Slots \ {s} : ~At(x, "increment") /\ ~Busy(x)
  BY DEF Tracked, Settled, Alone, At, Busy
<1>4. Alone'
  BY <1>3 DEF Tracked, Alone, Copied, At, Busy, NextAttempts
<1>5. ~met => guessed' <= MaxAttempts
  BY <1>3, AttemptBounds DEF Tracked, GuessesBounded, LockedAtTheMaximum, TypeOK, Locks
<1>6. AttemptsNotLost' /\ LockedAtTheMaximum' /\ GuessesBounded'
  BY <1>5 DEF Tracked, AttemptsNotLost, LockedAtTheMaximum, GuessesBounded
<1>. QED  BY <1>1, <1>2, <1>4, <1>6 DEF Tracked

(* The counter of the address and the sessions stay as they are.           *)
LEMMA QuietWatches ==
    ASSUME Watched, NEW s \in Slots, ~At(s, "expire"),
           \A x \in Slots \ {s} : request'[x].at = request[x].at,
           UNCHANGED <<connection, counter, orphans, met>>
    PROVE  Watched'
BY DEF Watched, NoOrphanSessions, CounterExpires, At, connection, counter

-----------------------------------------------------------------------------
(* One lemma for each action.                                              *)

(* A login, a change or a reset of the password begins. *)
LEMMA BeginStep ==
    ASSUME IInv, NEW s \in Slots, NEW op \in Ops \ {"idle"},
           NEW at \in {"assert", "loadForAuth"}, Begin(s, op, at)
    PROVE  IInv'
<1>1. [Idle EXCEPT !.op = op, !.at = at] \in Requests
  BY DEF Idle, Requests, Ops, Places, Locks
<1>2. /\ request' \in [Slots -> Requests]
      /\ \A x \in Slots \ {s} : request'[x] = request[x]
      /\ request'[s] = [Idle EXCEPT !.op = op, !.at = at]
  BY <1>1 DEF IInv, TypeOK, Begin
<1>3. At(s, at)' /\ request'[s].op = op /\ ~request'[s].stale
  BY <1>2 DEF Idle, At
<1>4. TypeOK'
  BY <1>2 DEF IInv, TypeOK, Begin, connection, account, counter, ghosts
<1>5. Tracked'
  <2>1. Settled' /\ Copies'
    BY <1>2, <1>3 DEF IInv, Tracked, Settled, Copies, Begin, account, At, Busy, Loaded
  <2>2. Alone'
    BY <1>2, <1>3 DEF IInv, Tracked, Settled, Alone, Begin, account, ghosts, At, Busy,
                      NextAttempts
  <2>3. AttemptsNotLost' /\ LockedAtTheMaximum' /\ GuessesBounded'
    BY DEF IInv, Tracked, AttemptsNotLost, LockedAtTheMaximum, GuessesBounded, Begin,
           account, ghosts
  <2>. QED  BY <2>1, <2>2, <2>3 DEF Tracked
<1>6. Watched'
  BY <1>2 DEF IInv, Tracked, Settled, Watched, NoOrphanSessions, CounterExpires, Begin,
              connection, counter, ghosts, At, Busy
<1>. QED  BY <1>4, <1>5, <1>6 DEF IInv

(* The counter of the address is asked. *)
LEMMA AssertNotBruteForcedStep ==
    ASSUME IInv, NEW s \in Slots, AssertNotBruteForced(s)
    PROVE  IInv'
<1>1. Busy(s) /\ ~At(s, "increment") /\ ~At(s, "expire")
  BY DEF IInv, Tracked, Settled, AssertNotBruteForced, At
<1>2. Moved(s)
  BY <1>1, DoneMoves, GotoMoves DEF IInv, Tracked, AssertNotBruteForced, Places, Loaded
<1>3. TypeOK'
  BY <1>2 DEF IInv, TypeOK, Moved, AssertNotBruteForced, connection, account, counter, ghosts
<1>4. Tracked'
  BY <1>1, <1>2, MovedTracks DEF IInv, AssertNotBruteForced, account, ghosts
<1>5. Watched'
  BY <1>1, <1>2, QuietWatches DEF IInv, Moved, AssertNotBruteForced, ghosts
<1>. QED  BY <1>3, <1>4, <1>5 DEF IInv

(* The account is loaded, or the login is answered 403. *)
LEMMA LoadUserStep ==
    ASSUME IInv, NEW s \in Slots, LoadUser(s)
    PROVE  IInv'
<1>1. Busy(s) /\ ~At(s, "increment") /\ ~At(s, "expire")
  BY DEF IInv, Tracked, Settled, LoadUser, At
<1>2. CASE lock = "held" \/ ~isActive
  <2>1. Moved(s)
    BY <1>1, <1>2, DoneMoves DEF IInv, LoadUser
  <2>2. UNCHANGED <<guessed, orphans, counted, met, begun, connection, account, counter>>
    BY <1>2 DEF LoadUser
  <2>3. TypeOK'
    BY <2>1, <2>2 DEF IInv, TypeOK, Moved, connection, account, counter
  <2>4. Tracked'
    BY <1>1, <2>1, <2>2, MovedTracks DEF IInv, account
  <2>5. Watched'
    BY <1>1, <2>1, <2>2, QuietWatches DEF IInv, Moved
  <2>. QED  BY <2>3, <2>4, <2>5 DEF IInv
<1>3. CASE ~(lock = "held" \/ ~isActive)
  <2>. DEFINE place == IF request[s].op = "right" THEN "reset" ELSE "increment"
  <2>1. request' = [request EXCEPT ![s] =
            [request[s] EXCEPT !.attempts = attempts, !.lock = lock, !.stale = FALSE,
                               !.at = place]]
    BY <1>3 DEF LoadUser
  <2>2. /\ request' \in [Slots -> Requests]
        /\ \A x \in Slots \ {s} : request'[x] = request[x]
        /\ Copied(s, place, attempts, lock, FALSE)
    BY <2>1, LoadedGives DEF IInv, Places
  <2>3. guessed' = IF request[s].op = "right" THEN guessed
                   ELSE IF lock = "lapsed" THEN 1 ELSE guessed + 1
    BY <1>3 DEF LoadUser
  <2>4. UNCHANGED <<orphans, counted, met, begun, connection, account, counter>>
    BY DEF LoadUser
  <2>5. TypeOK'
    BY <2>2, <2>3, <2>4 DEF IInv, TypeOK, connection, account, counter
  <2>6. Tracked'
    <3>1. /\ place = "increment" =>
                 lock # "held" /\ guessed' = IF lock = "lapsed" THEN 1 ELSE guessed + 1
          /\ place # "increment" => guessed' = guessed
      BY <1>3, <2>3
    <3>2. place \in {"reset", "increment", "save"}
      OBVIOUS
    <3>3. UNCHANGED <<attempts, lock, met, counted>>
      BY <2>4 DEF account
    <3>. HIDE DEF place
    <3>. QED  BY <1>1, <2>2, <3>1, <3>2, <3>3, LoadedTracks DEF IInv
  <2>7. Watched'
    BY <1>1, <2>2, <2>4, QuietWatches DEF IInv
  <2>. QED  BY <2>5, <2>6, <2>7 DEF IInv
<1>. QED  BY <1>2, <1>3

(* A wrong password is counted, which may lock the account. *)
LEMMA IncrementLoginAttemptsStep ==
    ASSUME IInv, NEW s \in Slots, IncrementLoginAttempts(s)
    PROVE  IInv'
<1>. DEFINE n == NextAttempts(request[s])
            l == NextLock(request[s])
<1>1. Busy(s) /\ ~At(s, "expire") /\ ~request[s].stale
  BY DEF IInv, Tracked, Settled, IncrementLoginAttempts, At
<1>2. n \in Nat /\ l \in Locks
  BY DEF IInv, TypeOK, Requests, Locks, NextAttempts, NextLock
<1>3. /\ request' \in [Slots -> Requests] /\ OthersStale(s)
      /\ Copied(s, "hit", n, l, request[s].stale)
  <2>. HIDE DEF n, l
  <2>1. Saved(s, "hit", n, l)
    BY DEF IncrementLoginAttempts, n, l
  <2>. QED  BY <1>2, <2>1, SavedGives DEF IInv, Places
<1>4. /\ attempts' = n /\ lock' = l
      /\ counted' = IF request[s].lock = "lapsed" THEN 1 ELSE counted + 1
      /\ UNCHANGED <<connection, isActive, counter, begun, met, guessed, orphans>>
  BY DEF IncrementLoginAttempts
<1>5. attempts = request[s].attempts /\ lock = request[s].lock /\ lock # "held"
  BY <1>1 DEF IInv, Tracked, Copies, IncrementLoginAttempts, At, Loaded
<1>6. TypeOK'
  BY <1>2, <1>3, <1>4 DEF IInv, TypeOK, connection, counter
<1>7. Tracked'
  <2>1. attempts' = counted'
    BY <1>4, <1>5 DEF IInv, Tracked, AttemptsNotLost, NextAttempts
  <2>2. attempts < MaxAttempts \/ lock = "lapsed"
    BY <1>5, AttemptBounds DEF IInv, TypeOK, Tracked, LockedAtTheMaximum, Locks
  <2>3. attempts' <= MaxAttempts /\ (attempts' >= MaxAttempts => lock' # "none")
    BY <1>4, <1>5, <2>2, AttemptBounds DEF IInv, TypeOK, NextAttempts, NextLock
  <2>4. ~met => guessed' = attempts' /\ guessed' <= MaxAttempts
    BY <1>4, <2>3 DEF IInv, Tracked, Alone, IncrementLoginAttempts
  <2>5. Copied(s, "hit", attempts', lock', request[s].stale)
    BY <1>3, <1>4
  <2>. HIDE DEF n, l
  <2>. QED
    BY <1>1, <1>3, <1>4, <2>1, <2>3, <2>4, <2>5, SavedTracks DEF IInv, Places
<1>8. Watched'
  BY <1>1, <1>3, <1>4, QuietWatches DEF IInv, OthersStale
<1>. QED  BY <1>6, <1>7, <1>8 DEF IInv

(* It is not counted: others have saved the account since. *)
LEMMA SaveRefusedStep ==
    ASSUME IInv, NEW s \in Slots, SaveRefused(s)
    PROVE  IInv'
<1>1. Busy(s) /\ met /\ ~At(s, "expire")
  BY DEF IInv, Tracked, Settled, Alone, SaveRefused, At
<1>2. Moved(s)
  BY DoneMoves DEF IInv, SaveRefused
<1>3. TypeOK'
  BY <1>2 DEF IInv, TypeOK, Moved, SaveRefused, connection, account, counter, ghosts
<1>4. Tracked'
  BY <1>1, <1>2, MovedTracks DEF IInv, SaveRefused, account, ghosts
<1>5. Watched'
  BY <1>1, <1>2, QuietWatches DEF IInv, Moved, SaveRefused, ghosts
<1>. QED  BY <1>3, <1>4, <1>5 DEF IInv

(* The counter of the address goes up. *)
LEMMA HitBruteForceStep ==
    ASSUME IInv, NEW s \in Slots, HitBruteForce(s)
    PROVE  IInv'
<1>1. Busy(s) /\ ~At(s, "increment") /\ ~At(s, "expire")
  BY DEF IInv, Tracked, Settled, HitBruteForce, At
<1>2. Moved(s)
  BY <1>1, DoneMoves, GotoMoves DEF IInv, Tracked, HitBruteForce, Places, Loaded
<1>3. up /\ hits = 0 => At(s, "expire")'
  BY <1>1, GotoMoves DEF IInv, Tracked, HitBruteForce, Places, Loaded
<1>4. hits' = hits \/ (up /\ hits' = hits + 1)
  BY DEF HitBruteForce
<1>5. TypeOK'
  BY <1>2, <1>4 DEF IInv, TypeOK, Moved, HitBruteForce, connection, account, ghosts
<1>6. Tracked'
  BY <1>1, <1>2, MovedTracks DEF IInv, HitBruteForce, account, ghosts
<1>7. Watched'
  <2>1. NoOrphanSessions' /\ (~up => failed)'
    BY DEF IInv, Watched, NoOrphanSessions, HitBruteForce, connection, ghosts
  <2>2. CounterExpires'
    BY <1>1, <1>2, <1>3, <1>4
       DEF IInv, TypeOK, Watched, CounterExpires, HitBruteForce, Moved, connection, At
  <2>. QED  BY <2>1, <2>2 DEF Watched
<1>. QED  BY <1>5, <1>6, <1>7 DEF IInv

(* It gets its time to live. *)
LEMMA ExpireCounterStep ==
    ASSUME IInv, NEW s \in Slots, ExpireCounter(s)
    PROVE  IInv'
<1>1. Busy(s) /\ ~At(s, "increment")
  BY DEF IInv, Tracked, Settled, ExpireCounter, At
<1>2. Moved(s)
  BY DoneMoves DEF IInv, ExpireCounter
<1>3. TypeOK'
  BY <1>2 DEF IInv, TypeOK, Moved, ExpireCounter, connection, account, ghosts
<1>4. Tracked'
  BY <1>1, <1>2, MovedTracks DEF IInv, ExpireCounter, account, ghosts
<1>5. Watched'
  BY DEF IInv, Watched, NoOrphanSessions, CounterExpires, ExpireCounter, connection, ghosts
<1>. QED  BY <1>3, <1>4, <1>5 DEF IInv

(* A right password takes the attempts and the lock away. *)
LEMMA ResetLoginAttemptsStep ==
    ASSUME IInv, NEW s \in Slots, ResetLoginAttempts(s)
    PROVE  IInv'
<1>1. Busy(s) /\ ~At(s, "increment") /\ ~At(s, "expire")
  BY DEF IInv, Tracked, Settled, ResetLoginAttempts, At
<1>2. UNCHANGED <<connection, isActive, counter, begun, met, orphans>>
  BY DEF ResetLoginAttempts
<1>3. CASE /\ ~request[s].stale /\ Saved(s, "clear", 0, "none")
           /\ attempts' = 0 /\ lock' = "none" /\ counted' = 0 /\ guessed' = 0
  <2>1. /\ request' \in [Slots -> Requests] /\ OthersStale(s)
        /\ Copied(s, "clear", attempts', lock', request[s].stale)
    BY <1>3, SavedGives DEF IInv, Places, Locks
  <2>2. TypeOK'
    BY <1>2, <1>3, <2>1 DEF IInv, TypeOK, Locks, connection, counter
  <2>3. Tracked'
    BY <1>1, <1>2, <1>3, <2>1, AttemptBounds, SavedTracks DEF IInv, Places
  <2>4. Watched'
    BY <1>1, <1>2, <2>1, QuietWatches DEF IInv, OthersStale
  <2>. QED  BY <2>2, <2>3, <2>4 DEF IInv
<1>4. CASE /\ Goto(s, "clear") \/ Done(s)
           /\ UNCHANGED <<attempts, lock, counted, guessed>>
  <2>1. Moved(s)
    BY <1>1, <1>4, DoneMoves, GotoMoves DEF IInv, Tracked, Places, Loaded
  <2>2. TypeOK'
    BY <1>2, <1>4, <2>1 DEF IInv, TypeOK, Moved, connection, counter
  <2>3. Tracked'
    BY <1>1, <1>2, <1>4, <2>1, MovedTracks DEF IInv
  <2>4. Watched'
    BY <1>1, <1>2, <2>1, QuietWatches DEF IInv, Moved
  <2>. QED  BY <2>2, <2>3, <2>4 DEF IInv
<1>. QED  BY <1>3, <1>4 DEF ResetLoginAttempts

(* The counter of the address is deleted. *)
LEMMA ClearBruteForceStep ==
    ASSUME IInv, NEW s \in Slots, ClearBruteForce(s)
    PROVE  IInv'
<1>1. Busy(s) /\ ~At(s, "increment") /\ ~At(s, "expire")
  BY DEF IInv, Tracked, Settled, ClearBruteForce, At
<1>2. Moved(s)
  BY <1>1, GotoMoves DEF IInv, Tracked, ClearBruteForce, Places, Loaded
<1>3. TypeOK'
  BY <1>2 DEF IInv, TypeOK, Moved, ClearBruteForce, connection, account, ghosts
<1>4. Tracked'
  BY <1>1, <1>2, MovedTracks DEF IInv, ClearBruteForce, account, ghosts
<1>5. Watched'
  BY <1>1, <1>2
     DEF IInv, Watched, NoOrphanSessions, CounterExpires, ClearBruteForce, Moved, At,
         connection, ghosts
<1>. QED  BY <1>3, <1>4, <1>5 DEF IInv

(* The session is stored, and the account saved or not. *)
LEMMA IssueTokensStep ==
    ASSUME IInv, NEW s \in Slots, IssueTokens(s)
    PROVE  IInv'
<1>1. Busy(s) /\ ~At(s, "increment") /\ ~At(s, "expire")
  BY DEF IInv, Tracked, Settled, IssueTokens, At
<1>2. UNCHANGED <<connection, account, counter, begun, met, counted, guessed>>
  BY DEF IssueTokens
<1>3. CASE request[s].stale
  <2>1. Moved(s) /\ orphans' = orphans + 1
    BY <1>3, DoneMoves DEF IInv, IssueTokens
  <2>2. met
    BY <1>3 DEF IInv, Tracked, Alone
  <2>3. TypeOK'
    BY <1>2, <2>1 DEF IInv, TypeOK, Moved, connection, account, counter
  <2>4. Tracked'
    BY <1>1, <1>2, <2>1, MovedTracks DEF IInv, account
  <2>5. Watched'
    BY <1>1, <1>2, <2>1, <2>2
       DEF IInv, Watched, NoOrphanSessions, CounterExpires, Moved, At, connection, counter
  <2>. QED  BY <2>3, <2>4, <2>5 DEF IInv
<1>4. CASE ~request[s].stale
  <2>1. request' \in [Slots -> Requests] /\ OthersStale(s) /\ request'[s] = Idle
    BY <1>4, SavedGives DEF IInv, IssueTokens, Locks
  <2>2. UNCHANGED orphans
    BY <1>4 DEF IssueTokens
  <2>3. TypeOK'
    BY <1>2, <2>1, <2>2 DEF IInv, TypeOK, connection, account, counter
  <2>4. ~met => guessed = attempts /\ guessed <= MaxAttempts
    BY <1>1 DEF IInv, Tracked, Settled, Alone, GuessesBounded, At, Busy
  <2>5. Tracked'
    BY <1>1, <1>2, <1>4, <2>1, <2>4, SavedTracks
       DEF IInv, Tracked, AttemptsNotLost, LockedAtTheMaximum, account
  <2>6. Watched'
    BY <1>1, <1>2, <2>1, <2>2, QuietWatches DEF IInv, OthersStale
  <2>. QED  BY <2>3, <2>5, <2>6 DEF IInv
<1>. QED  BY <1>3, <1>4

(* A change or a reset of the password loads the account, *)
LEMMA LoadForAuthStep ==
    ASSUME IInv, NEW s \in Slots, LoadForAuth(s)
    PROVE  IInv'
<1>1. Busy(s) /\ ~At(s, "increment") /\ ~At(s, "expire")
  BY DEF IInv, Tracked, Settled, LoadForAuth, At
<1>2. request' = [request EXCEPT ![s] =
          [request[s] EXCEPT !.attempts = attempts, !.lock = lock, !.stale = FALSE,
                             !.at = "save"]]
  BY DEF LoadForAuth
<1>3. /\ request' \in [Slots -> Requests]
      /\ \A x \in Slots \ {s} : request'[x] = request[x]
      /\ Copied(s, "save", attempts, lock, FALSE)
  BY <1>2, LoadedGives DEF IInv, Places
<1>4. UNCHANGED <<connection, account, counter, begun, met, ghosts>>
  BY DEF LoadForAuth
<1>5. TypeOK'
  BY <1>3, <1>4 DEF IInv, TypeOK, connection, account, counter, ghosts
<1>6. Tracked'
  BY <1>1, <1>3, <1>4, LoadedTracks DEF IInv, account, ghosts
<1>7. Watched'
  BY <1>1, <1>3, <1>4, QuietWatches DEF IInv, ghosts
<1>. QED  BY <1>5, <1>6, <1>7 DEF IInv

(* saves it, *)
LEMMA SavePasswordStep ==
    ASSUME IInv, NEW s \in Slots, SavePassword(s)
    PROVE  IInv'
<1>1. Busy(s) /\ ~At(s, "increment") /\ ~At(s, "expire")
  BY DEF IInv, Tracked, Settled, SavePassword, At
<1>2. UNCHANGED <<connection, account, counter, begun, met, ghosts>>
  BY DEF SavePassword
<1>3. CASE request[s].stale
  <2>1. Moved(s)
    BY <1>3, DoneMoves DEF IInv, SavePassword
  <2>2. TypeOK'
    BY <1>2, <2>1 DEF IInv, TypeOK, Moved, connection, account, counter, ghosts
  <2>3. Tracked'
    BY <1>1, <1>2, <2>1, MovedTracks DEF IInv, account, ghosts
  <2>4. Watched'
    BY <1>1, <1>2, <2>1, QuietWatches DEF IInv, Moved, ghosts
  <2>. QED  BY <2>2, <2>3, <2>4 DEF IInv
<1>4. CASE ~request[s].stale
  <2>1. request[s].attempts = attempts /\ request[s].lock = lock
    BY <1>4 DEF IInv, Tracked, Copies, SavePassword, At, Loaded
  <2>2. /\ request' \in [Slots -> Requests] /\ OthersStale(s)
        /\ request'[s] = Idle \/ Copied(s, "unlock", attempts, lock, request[s].stale)
    <3>1. \E place \in {"done", "unlock"} : Saved(s, place, attempts, lock)
      BY <1>4, <2>1 DEF SavePassword
    <3>. QED  BY <3>1, SavedGives DEF IInv, TypeOK, Places
  <2>3. TypeOK'
    BY <1>2, <2>2 DEF IInv, TypeOK, connection, account, counter, ghosts
  <2>4. ~met => guessed = attempts /\ guessed <= MaxAttempts
    BY <1>1 DEF IInv, Tracked, Settled, Alone, GuessesBounded, At, Busy
  <2>5. Tracked'
    <3>1. /\ attempts' = counted' /\ (attempts' >= MaxAttempts => lock' # "none")
          /\ ~met => guessed' = attempts' /\ guessed' <= MaxAttempts
      BY <1>2, <2>4 DEF IInv, Tracked, AttemptsNotLost, LockedAtTheMaximum, account, ghosts
    <3>2. \/ request'[s] = Idle
          \/ \E place \in Places \ {"idle", "increment"} :
                 Copied(s, place, attempts', lock', request[s].stale)
      BY <1>2, <2>2 DEF account, Places
    <3>. QED  BY <1>1, <1>2, <1>4, <2>2, <3>1, <3>2, SavedTracks DEF IInv
  <2>6. Watched'
    BY <1>1, <1>2, <2>2, QuietWatches DEF IInv, OthersStale, ghosts
  <2>. QED  BY <2>3, <2>5, <2>6 DEF IInv
<1>. QED  BY <1>3, <1>4

(* and a reset takes the attempts and the lock away. *)
LEMMA UnlockStep ==
    ASSUME IInv, NEW s \in Slots, Unlock(s)
    PROVE  IInv'
<1>1. Busy(s) /\ ~At(s, "increment") /\ ~At(s, "expire")
  BY DEF IInv, Tracked, Settled, Unlock, At
<1>2. UNCHANGED <<connection, isActive, counter, begun, met, orphans>>
  BY DEF Unlock
<1>3. CASE Dirty(request[s]) /\ ~request[s].stale
  <2>1. /\ attempts' = 0 /\ lock' = "none" /\ counted' = 0 /\ guessed' = 0
        /\ Saved(s, "done", 0, "none")
    BY <1>3 DEF Unlock
  <2>2. request' \in [Slots -> Requests] /\ OthersStale(s) /\ request'[s] = Idle
    BY <2>1, SavedGives DEF IInv, Locks
  <2>3. TypeOK'
    BY <1>2, <2>1, <2>2 DEF IInv, TypeOK, Locks, connection, counter
  <2>4. Tracked'
    BY <1>1, <1>2, <1>3, <2>1, <2>2, AttemptBounds, SavedTracks DEF IInv
  <2>5. Watched'
    BY <1>1, <1>2, <2>2, QuietWatches DEF IInv, OthersStale
  <2>. QED  BY <2>3, <2>4, <2>5 DEF IInv
<1>4. CASE ~(Dirty(request[s]) /\ ~request[s].stale)
  <2>1. Moved(s) /\ UNCHANGED <<attempts, lock, counted, guessed>>
    BY <1>4, DoneMoves DEF IInv, Unlock
  <2>2. TypeOK'
    BY <1>2, <2>1 DEF IInv, TypeOK, Moved, connection, counter
  <2>3. Tracked'
    BY <1>1, <1>2, <2>1, MovedTracks DEF IInv
  <2>4. Watched'
    BY <1>1, <1>2, <2>1, QuietWatches DEF IInv, Moved
  <2>. QED  BY <2>2, <2>3, <2>4 DEF IInv
<1>. QED  BY <1>3, <1>4

(* The lock lapses, in the document and in the copies. *)
LEMMA LockLapsesStep ==
    ASSUME IInv, LockLapses
    PROVE  IInv'
<1>1. UNCHANGED <<connection, attempts, isActive, counter, begun, met, ghosts>>
  BY DEF LockLapses
<1>2. request' \in [Slots -> Requests]
  <2>1. \A x \in Slots : request[x] \in Requests
                         /\ [request[x] EXCEPT !.lock = "lapsed"] \in Requests
    BY DEF IInv, TypeOK, Requests, Locks
  <2>. QED  BY <2>1 DEF LockLapses
<1>3. \A x \in Slots :
         /\ request'[x].op = request[x].op /\ request'[x].at = request[x].at
         /\ request'[x].attempts = request[x].attempts
         /\ request'[x].stale = request[x].stale
         /\ request'[x].lock = IF request[x].lock = "held" THEN "lapsed" ELSE request[x].lock
  BY DEF LockLapses, IInv, TypeOK, Requests
<1>4. TypeOK'
  BY <1>1, <1>2 DEF LockLapses, IInv, TypeOK, Locks, connection, counter, ghosts
<1>5. Tracked'
  <2>1. Settled' /\ Copies'
    BY <1>1, <1>3 DEF LockLapses, IInv, Tracked, Settled, Copies, At, Busy
  <2>2. Alone'
    BY <1>1, <1>3 DEF IInv, Tracked, Alone, Copies, At, Busy, NextAttempts, ghosts
  <2>3. AttemptsNotLost' /\ LockedAtTheMaximum' /\ GuessesBounded'
    BY <1>1 DEF LockLapses, IInv, Tracked, AttemptsNotLost, LockedAtTheMaximum,
                GuessesBounded, ghosts
  <2>. QED  BY <2>1, <2>2, <2>3 DEF Tracked
<1>6. Watched'
  BY <1>1, <1>3 DEF IInv, Watched, NoOrphanSessions, CounterExpires, At, connection, counter,
                    ghosts
<1>. QED  BY <1>4, <1>5, <1>6 DEF IInv

(* The account is activated or deactivated. *)
LEMMA SetActiveStep ==
    ASSUME IInv, SetActive
    PROVE  IInv'
<1>1. TypeOK'
  BY DEF SetActive, Shock, IInv, TypeOK, connection, account, counter, ghosts
<1>2. Tracked'
  BY UntouchedTracks DEF SetActive, IInv, account, ghosts
<1>3. Watched'
  BY DEF SetActive, IInv, Watched, NoOrphanSessions, CounterExpires, connection, counter, ghosts, At
<1>. QED  BY <1>1, <1>2, <1>3 DEF IInv

(* The time to live of the counter passes. *)
LEMMA CounterLapsesStep ==
    ASSUME IInv, CounterLapses
    PROVE  IInv'
<1>1. TypeOK'
  BY DEF CounterLapses, IInv, TypeOK, connection, account, counter, ghosts
<1>2. Tracked'
  BY UntouchedTracks DEF CounterLapses, IInv, account, ghosts
<1>3. Watched'
  BY DEF CounterLapses, IInv, Watched, NoOrphanSessions, CounterExpires, connection, counter,
         ghosts, At
<1>. QED  BY <1>1, <1>2, <1>3 DEF IInv

(* and comes back. *)
LEMMA RedisBackStep ==
    ASSUME IInv, RedisBack
    PROVE  IInv'
<1>1. TypeOK'
  BY DEF RedisBack, IInv, TypeOK, connection, account, counter, ghosts
<1>2. Tracked'
  BY UntouchedTracks DEF RedisBack, IInv, account, ghosts
<1>3. Watched'
  BY DEF RedisBack, IInv, Watched, NoOrphanSessions, CounterExpires, connection, counter, ghosts, At
<1>. QED  BY <1>1, <1>2, <1>3 DEF IInv

(* The connection to Redis is lost, *)
LEMMA RedisLostStep ==
    ASSUME IInv, RedisLost
    PROVE  IInv'
<1>1. /\ up' = FALSE /\ failed' = TRUE /\ shocks' = shocks + 1
      /\ UNCHANGED <<account, counter, request, begun, met, ghosts>>
  BY Zenon DEF RedisLost, Shock
<1>2. TypeOK'
  <2>1. shocks' = shocks + 1 /\ shocks \in Nat
    BY <1>1, Zenon DEF IInv, TypeOK
  <2>2. shocks' \in Nat
    BY <2>1
  <2>3. up' \in BOOLEAN /\ failed' \in BOOLEAN
    BY <1>1, Zenon
  <2>. QED  BY <1>1, <2>2, <2>3, Zenon DEF IInv, TypeOK, account, counter, ghosts
<1>3. Tracked'
  BY <1>1, UntouchedTracks DEF IInv, account, ghosts
<1>4. Watched'
  BY <1>1, Zenon DEF IInv, Watched, NoOrphanSessions, CounterExpires, ghosts
<1>. QED  BY <1>2, <1>3, <1>4 DEF IInv

-----------------------------------------------------------------------------
(* The invariant holds at the start. *)
LEMMA InitStep == Init => IInv
<1>. SUFFICES ASSUME Init PROVE IInv
  OBVIOUS
<1>1. TypeOK
  BY IdleTyped DEF Init, TypeOK, Locks
<1>2. Settled /\ Copies
  BY DEF Init, Settled, Copies, Loaded, Idle, Busy, At
<1>3. Alone
  BY DEF Init, Alone, Idle, Busy, At
<1>4. AttemptsNotLost /\ LockedAtTheMaximum /\ GuessesBounded /\ Watched
  BY AttemptBounds DEF Init, AttemptsNotLost, LockedAtTheMaximum, GuessesBounded, Watched,
                       NoOrphanSessions, CounterExpires
<1>. QED  BY <1>1, <1>2, <1>3, <1>4 DEF IInv, Tracked

(* Every step keeps it. *)
LEMMA NextStep == IInv /\ [Next]_vars => IInv'
<1>. SUFFICES ASSUME IInv, [Next]_vars PROVE IInv'
  OBVIOUS
<1>1. ASSUME NEW s \in Slots, Serve(s) PROVE IInv'
  <2>1. CASE StartLogin(s) \/ StartChange(s) \/ StartReset(s)
    BY <2>1, BeginStep DEF StartLogin, StartChange, StartReset, Ops
  <2>. QED
    BY <1>1, <2>1, AssertNotBruteForcedStep, LoadUserStep, IncrementLoginAttemptsStep,
       SaveRefusedStep, HitBruteForceStep, ExpireCounterStep, ResetLoginAttemptsStep,
       ClearBruteForceStep, IssueTokensStep, LoadForAuthStep, SavePasswordStep, UnlockStep
       DEF Serve
<1>2. CASE UNCHANGED vars
  <2>1. TypeOK'
    BY <1>2 DEF IInv, TypeOK, vars, connection, account, counter, ghosts
  <2>2. Tracked'
    BY <1>2, UntouchedTracks DEF IInv, vars, account, ghosts
  <2>3. Watched'
    BY <1>2 DEF IInv, Watched, NoOrphanSessions, CounterExpires, vars, connection, counter,
                ghosts, At
  <2>. QED  BY <2>1, <2>2, <2>3 DEF IInv
<1>. QED
  BY <1>1, <1>2, SetActiveStep, LockLapsesStep, CounterLapsesStep, RedisLostStep,
     RedisBackStep DEF Next

(* A wrong password is never lost, an account at the maximum of attempts   *)
(* is locked, undisturbed guessing stops at the maximum, no session is     *)
(* left behind undisturbed, and the address's counter expires: what        *)
(* user.model.ts and redis.helper.ts promise of login, for any number of   *)
(* requests at a time.                                                     *)
THEOREM LockoutHolds == Spec => []Lockout
<1>1. IInv => Lockout
  BY DEF IInv, Tracked, Watched, Lockout
<1>. QED  BY InitStep, NextStep, <1>1, PTL DEF Spec

-----------------------------------------------------------------------------
(***************************************************************************)
(* GrantsDecide of AccessControl, for any users, requests at a time and    *)
(* number of changes.                                                      *)
(*                                                                         *)
(* GrantsDecide says of steps what no single step shows: that a permission *)
(* was held earlier.  The invariant carries it along the way a permission  *)
(* takes: what the documents and a valid token grant is in heldSince       *)
(* (AccessHeld), a request copies all three when it is authenticated and   *)
(* keeps them while the documents change (AccessCarried), and behind the   *)
(* guard it has the permission the guard wants.  While its user is being   *)
(* loaded, what the user holds is in heldNow (AccessLoading).              *)
(***************************************************************************)

AccessTokens == [valid : BOOLEAN, permissions : SUBSET Access!Permissions]
AccessRequests == [at : {"idle", "load", "guard", "service"}, op : Access!Ops \cup {"none"},
             user : Users \cup {"none"}, role : Access!Roles \cup {Access!NoRole},
             owned : SUBSET Access!Permissions, carried : SUBSET Access!Permissions,
             ever : SUBSET Access!Permissions]

(* The shape of the documents, of tokens, requests and what is remembered. *)
AccessDocuments ==
    /\ grantRoleOf \in [Users -> Access!Roles \cup {Access!NoRole}]
    /\ grantOverrides \in [Users -> SUBSET Access!Permissions]
    /\ grantStatus \in [Users -> {"active", "inactive", "deleted"}]
    /\ grantGrants \in [Access!Roles -> SUBSET Access!Permissions]
    /\ Access!SystemRoles \subseteq grantRoleLive /\ grantRoleLive \subseteq Access!Roles
    /\ grantPermLive \subseteq Access!Permissions
AccessShapes ==
    /\ AccessDocuments
    /\ grantToken \in [Users -> AccessTokens]
    /\ grantHeldSince \in [Users -> SUBSET Access!Permissions]
    /\ grantHeldNow \in [AccessSlots -> SUBSET Access!Permissions]
    /\ grantRequest \in [AccessSlots -> AccessRequests]

(* What the documents and a valid token grant was held since it was issued. *)
AccessHeld == \A u \in Users :
    grantToken[u].valid => Access!Owned(u) \subseteq grantHeldSince[u]
      /\ grantToken[u].permissions \subseteq grantHeldSince[u]

(* What a request carries since it arrived, what its user held when it was *)
(* loaded (`now`: since the request arrived), what the guard let through.  *)
AccessCarries(r, now) ==
    /\ r.at # "idle" => r.carried \subseteq r.ever
    /\ r.at \in {"guard", "service"} => r.owned \subseteq now
    /\ r.at = "service" /\ r.op # "deleteMe" => Access!Passes(r, Access!Slug(r.op))
AccessCarried == \A s \in AccessSlots : AccessCarries(grantRequest[s], grantHeldNow[s])

(* Between a request and the loading of its user, what the user holds is   *)
(* remembered.                                                             *)
AccessLoading == \A s \in AccessSlots :
    grantRequest[s].at = "load" =>
        /\ grantRequest[s].user \in Users
        /\ Access!Owned(grantRequest[s].user) \subseteq grantHeldNow[s]

(* The token of a user that logged out is in the blacklist.                *)
AccessListed ==
    ~grantLost => /\ grantUp
                  /\ \A u \in Users : grantToken[u].valid /\ u \in grantLeft =>
                       u \in grantBlacklist

AccessIInv == AccessShapes /\ AccessHeld /\ AccessCarried /\ AccessLoading /\ AccessListed

-----------------------------------------------------------------------------
(* Nobody has signed in and no request is served at the start.             *)
LEMMA AccessInitStep ==
    ASSUME Bundles \subseteq SUBSET Access!Permissions
    PROVE  Access!Init => AccessIInv
<1>. SUFFICES ASSUME Access!Init PROVE AccessIInv
  OBVIOUS
<1>1. Access!NoRequest \in AccessRequests /\ Access!NoRequest.at = "idle"
  BY DEF Access!NoRequest, AccessRequests, Access!NoRole
<1>2. Access!NoToken \in AccessTokens /\ ~Access!NoToken.valid
  BY DEF Access!NoToken, AccessTokens
<1>3. AccessShapes
  <2>1. grantGrants \in [Access!Roles -> SUBSET Access!Permissions]
    <3>1. PICK d \in Bundles :
             grantGrants = [r \in Access!Roles |-> CASE r = "admin" -> Access!Permissions
                                                    [] r = "desk" -> d
                                                    [] OTHER -> {}]
      BY DEF Access!Init
    <3>. QED  BY <3>1
  <2>2. AccessDocuments
    BY <2>1 DEF Access!Init, AccessDocuments, Access!Roles, Access!SystemRoles
  <2>. QED  BY <1>1, <1>2, <2>2 DEF Access!Init, AccessShapes
<1>4. \A u \in Users : grantToken[u] = Access!NoToken
  BY DEF Access!Init
<1>5. AccessHeld /\ AccessListed
  BY <1>2, <1>4, Zenon DEF AccessHeld, AccessListed, Access!Init
<1>6. AccessCarried /\ AccessLoading
  BY <1>1 DEF Access!Init, AccessCarried, AccessCarries, AccessLoading
<1>. QED  BY <1>3, <1>5, <1>6 DEF AccessIInv

(* Documents are changed and what the users hold is remembered: a token    *)
(* still grants only what was held, a request being loaded as well.        *)
LEMMA AccessDocumentsChange ==
    ASSUME AccessIInv, Access!Remember, AccessDocuments', grantToken' = grantToken,
           \A s \in AccessSlots : grantRequest'[s].at = "load" =>
               grantRequest'[s] = grantRequest[s]
    PROVE  /\ AccessHeld' /\ AccessLoading'
           /\ grantHeldSince' \in [Users -> SUBSET Access!Permissions]
           /\ grantHeldNow' \in [AccessSlots -> SUBSET Access!Permissions]
           /\ \A s \in AccessSlots : grantHeldNow[s] \subseteq grantHeldNow'[s]
<1>1. \A u \in Users : Access!Owned(u)' \subseteq grantPermLive'
  BY DEF Access!Owned
<1>. grantPermLive' \subseteq Access!Permissions
  BY DEF AccessDocuments
<1>2. \A u \in Users : /\ grantHeldSince'[u] = grantHeldSince[u] \cup Access!Owned(u)'
                       /\ grantHeldSince[u] \in SUBSET Access!Permissions
  BY DEF Access!Remember, AccessIInv, AccessShapes
<1>3. grantHeldSince' = [u \in Users |-> grantHeldSince'[u]]
  BY DEF Access!Remember
<1>4. grantHeldSince' \in [Users -> SUBSET Access!Permissions]
  BY <1>1, <1>2, <1>3
<1>5. ASSUME NEW u \in Users, grantToken'[u].valid
      PROVE  Access!Owned(u)' \subseteq grantHeldSince'[u]
               /\ grantToken'[u].permissions \subseteq grantHeldSince'[u]
  BY <1>2, <1>5 DEF AccessIInv, AccessHeld
<1>6. \A s \in AccessSlots : grantHeldNow'[s] =
          IF grantRequest[s].at = "load"
          THEN grantHeldNow[s] \cup Access!Owned(grantRequest[s].user)' ELSE grantHeldNow[s]
  BY DEF Access!Remember
<1>7. ASSUME NEW s \in AccessSlots
      PROVE  /\ grantHeldNow'[s] \in SUBSET Access!Permissions
             /\ grantHeldNow[s] \subseteq grantHeldNow'[s]
  <2>1. Access!Owned(grantRequest[s].user)' \subseteq grantPermLive'
    BY DEF Access!Owned
  <2>2. grantHeldNow[s] \in SUBSET Access!Permissions
    BY DEF AccessIInv, AccessShapes
  <2>. QED  BY <1>6, <2>1, <2>2
<1>8. grantHeldNow' = [s \in AccessSlots |-> grantHeldNow'[s]]
  BY DEF Access!Remember
<1>9. grantHeldNow' \in [AccessSlots -> SUBSET Access!Permissions]
  BY <1>7, <1>8
<1>10. ASSUME NEW s \in AccessSlots, grantRequest'[s].at = "load"
       PROVE  /\ grantRequest'[s].user \in Users
              /\ Access!Owned(grantRequest[s].user)' \subseteq grantHeldNow'[s]
  <2>1. grantRequest'[s] = grantRequest[s] /\ grantRequest[s].at = "load"
    BY <1>10
  <2>2. grantRequest'[s].user \in Users
    BY <2>1 DEF AccessIInv, AccessLoading
  <2>. QED  BY <1>6, <2>1, <2>2
<1>11. AccessLoading'
  BY <1>10, Zenon DEF AccessLoading
<1>. QED  BY <1>4, <1>5, <1>7, <1>9, <1>11 DEF AccessHeld

(* What a request carries stays carried while more is remembered.          *)
LEMMA AccessCarriesMore ==
    ASSUME NEW r, NEW now, NEW more, AccessCarries(r, now), now \subseteq more
    PROVE  AccessCarries(r, more)
BY DEF AccessCarries

(* Documents are changed and no request moves.                             *)
LEMMA AccessChangeKeeps ==
    ASSUME AccessIInv, Access!Remember, AccessDocuments',
           UNCHANGED <<grantUp, grantLost, grantToken, grantBlacklist, grantRequest,
           grantLeft>>
    PROVE  AccessIInv'
<1>1. /\ AccessHeld' /\ AccessLoading'
      /\ grantHeldSince' \in [Users -> SUBSET Access!Permissions]
      /\ grantHeldNow' \in [AccessSlots -> SUBSET Access!Permissions]
      /\ \A s \in AccessSlots : grantHeldNow[s] \subseteq grantHeldNow'[s]
  BY AccessDocumentsChange
<1>2. AccessShapes'
  BY <1>1 DEF AccessIInv, AccessShapes
<1>3. AccessCarried'
  BY <1>1, AccessCarriesMore, Zenon DEF AccessIInv, AccessCarried
<1>4. AccessListed'
  BY DEF AccessIInv, AccessListed
<1>. QED  BY <1>1, <1>2, <1>3, <1>4 DEF AccessIInv

(* Neither documents nor tokens change, and nothing is remembered anew.    *)
LEMMA AccessHeldStays ==
    ASSUME AccessIInv, UNCHANGED <<Access!documents, grantToken, grantHeldSince>>
    PROVE  AccessHeld' /\ AccessDocuments'
<1>1. \A u \in Users : Access!Owned(u)' = Access!Owned(u)
  BY DEF Access!Owned, Access!RoleSlug, Access!documents
<1>2. AccessHeld'
  BY <1>1, Zenon DEF AccessIInv, AccessHeld
<1>. QED  BY <1>2 DEF Access!documents, AccessDocuments, AccessIInv, AccessShapes

(* Nor does a request that is being loaded.                                *)
LEMMA AccessLoadingStays ==
    ASSUME AccessIInv, UNCHANGED <<Access!documents, grantHeldNow, grantRequest>>
    PROVE  AccessLoading'
<1>. SUFFICES ASSUME NEW s \in AccessSlots, grantRequest'[s].at = "load"
              PROVE  /\ grantRequest'[s].user \in Users
                     /\ Access!Owned(grantRequest[s].user)' \subseteq grantHeldNow'[s]
  BY DEF AccessLoading
<1>1. Access!Owned(grantRequest[s].user)' = Access!Owned(grantRequest[s].user)
  BY DEF Access!Owned, Access!RoleSlug, Access!documents
<1>. QED  BY <1>1 DEF AccessIInv, AccessLoading

(* login and refresh: the token carries what the documents grant.          *)
LEMMA AccessSignInStep == ASSUME AccessIInv, NEW u \in Users, Access!SignIn(u)
                          PROVE AccessIInv'
<1>. DEFINE t == [valid |-> TRUE, permissions |-> Access!Owned(u)]
<1>1. \A x \in Users : Access!Owned(x)' = Access!Owned(x)
  BY DEF Access!SignIn, Access!Owned, Access!RoleSlug, Access!documents
<1>2. Access!Owned(u) \subseteq Access!Permissions
  BY DEF AccessIInv, AccessShapes, AccessDocuments, Access!Owned
<1>3. t \in AccessTokens
  BY <1>2 DEF AccessTokens
<1>4. /\ grantToken' = [grantToken EXCEPT ![u] = t]
      /\ grantHeldSince' = [grantHeldSince EXCEPT ![u] = Access!Owned(u)]
      /\ grantBlacklist' = grantBlacklist \ {u} /\ grantLeft' = grantLeft \ {u}
      /\ grantUp' = grantUp /\ grantLost' = grantLost /\ grantRequest' = grantRequest
      /\ AccessDocuments' /\ grantHeldNow' = grantHeldNow /\ AccessLoading'
  BY AccessLoadingStays DEF Access!SignIn, Access!documents, AccessDocuments, AccessIInv, AccessShapes
<1>5. t.permissions = Access!Owned(u)
  OBVIOUS
<1>. HIDE DEF t
<1>6. AccessShapes'
  BY <1>2, <1>3, <1>4 DEF AccessIInv, AccessShapes
<1>7. grantToken'[u] = t /\ grantHeldSince'[u] = Access!Owned(u)
  BY <1>4 DEF AccessIInv, AccessShapes
<1>8. ASSUME NEW x \in Users, x # u
      PROVE  grantToken'[x] = grantToken[x] /\ grantHeldSince'[x] = grantHeldSince[x]
  BY <1>4, <1>8 DEF AccessIInv, AccessShapes
<1>9. Access!Owned(u)' \subseteq grantHeldSince'[u]
        /\ grantToken'[u].permissions \subseteq grantHeldSince'[u]
  BY <1>1, <1>5, <1>7
<1>10. ASSUME NEW x \in Users, x # u, grantToken'[x].valid
       PROVE  Access!Owned(x)' \subseteq grantHeldSince'[x]
                /\ grantToken'[x].permissions \subseteq grantHeldSince'[x]
  BY <1>1, <1>8, <1>10, Zenon DEF AccessIInv, AccessHeld
<1>11. AccessHeld'
  BY <1>9, <1>10, Zenon DEF AccessHeld
<1>12. ASSUME NEW x \in Users, ~grantLost, grantToken'[x].valid, x \in grantLeft'
       PROVE x \in grantBlacklist'
  <2>1. x # u /\ x \in grantLeft
    BY <1>4, <1>12
  <2>2. x \in grantBlacklist
    BY <1>8, <1>12, <2>1, Zenon DEF AccessIInv, AccessListed
  <2>. QED  BY <1>4, <2>1, <2>2
<1>13. AccessListed'
  BY <1>4, <1>12, Zenon DEF AccessIInv, AccessListed
<1>. QED  BY <1>4, <1>6, <1>11, <1>13 DEF AccessIInv, AccessCarried

(* The access token expires.                                               *)
LEMMA AccessTokenExpiresStep == ASSUME AccessIInv, NEW u \in Users, Access!TokenExpires(u)
                                PROVE AccessIInv'
<1>1. \A x \in Users : Access!Owned(x)' = Access!Owned(x)
  BY DEF Access!TokenExpires, Access!Owned, Access!RoleSlug, Access!documents
<1>2. Access!NoToken \in AccessTokens /\ ~Access!NoToken.valid
  BY DEF Access!NoToken, AccessTokens
<1>3. /\ grantToken' = [grantToken EXCEPT ![u] = Access!NoToken]
      /\ grantBlacklist' = grantBlacklist \ {u}
      /\ grantUp' = grantUp /\ grantLost' = grantLost /\ grantLeft' = grantLeft
      /\ grantRequest' = grantRequest
      /\ grantHeldSince' = grantHeldSince /\ AccessDocuments'
      /\ grantHeldNow' = grantHeldNow /\ AccessLoading'
  BY AccessLoadingStays
     DEF Access!TokenExpires, Access!held, Access!documents, AccessDocuments, AccessIInv, AccessShapes
<1>4. grantToken'[u] = Access!NoToken /\ \A x \in Users : x # u =>
        grantToken'[x] = grantToken[x]
  BY <1>3 DEF AccessIInv, AccessShapes
<1>5. AccessShapes'
  BY <1>2, <1>3 DEF AccessIInv, AccessShapes
<1>6. AccessHeld'
  BY <1>1, <1>2, <1>3, <1>4, Zenon DEF AccessIInv, AccessHeld
<1>7. ASSUME NEW x \in Users, ~grantLost, grantToken'[x].valid, x \in grantLeft'
      PROVE x \in grantBlacklist'
  <2>1. x # u
    BY <1>2, <1>4, <1>7, Zenon
  <2>2. x \in grantBlacklist
    BY <1>3, <1>4, <1>7, <2>1, Zenon DEF AccessIInv, AccessListed
  <2>. QED  BY <1>3, <2>1, <2>2
<1>8. AccessListed'
  BY <1>3, <1>7, Zenon DEF AccessIInv, AccessListed
<1>. QED  BY <1>3, <1>5, <1>6, <1>8 DEF AccessIInv, AccessCarried

(* logout blacklists the token.                                            *)
LEMMA AccessLogoutStep == ASSUME AccessIInv, NEW u \in Users, Access!Logout(u)
                          PROVE AccessIInv'
<1>1. AccessHeld' /\ AccessDocuments' /\ AccessLoading'
  BY AccessHeldStays, AccessLoadingStays DEF Access!Logout, Access!held
<1>2. AccessShapes' /\ AccessCarried'
  BY <1>1 DEF AccessIInv, AccessShapes, AccessCarried, Access!Logout, Access!held
<1>3. ASSUME NEW x \in Users, ~grantLost, grantToken'[x].valid, x \in grantLeft'
      PROVE x \in grantBlacklist'
  <2>1. grantUp /\ grantBlacklist' = grantBlacklist \cup {u}
          /\ grantLeft' = grantLeft \cup {u} /\ grantToken' = grantToken
    BY <1>3 DEF AccessIInv, AccessListed, Access!Logout, Access!RedisSet
  <2>2. CASE x = u
    BY <2>1, <2>2
  <2>3. CASE x # u
    <3>1. x \in grantLeft /\ grantToken[x].valid
      BY <1>3, <2>1, <2>3
    <3>. QED  BY <1>3, <2>1, <3>1, Zenon DEF AccessIInv, AccessListed
  <2>. QED  BY <2>2, <2>3
<1>4. grantUp' = grantUp /\ grantLost' = grantLost
  BY DEF Access!Logout
<1>5. AccessListed'
  BY <1>3, <1>4, Zenon DEF AccessIInv, AccessListed
<1>. QED  BY <1>1, <1>2, <1>5 DEF AccessIInv

-----------------------------------------------------------------------------
(* A request moves and nothing it reads does.                              *)
LEMMA AccessRequestMoves ==
    ASSUME AccessIInv, NEW s \in AccessSlots, NEW r \in AccessRequests,
           NEW now \in SUBSET Access!Permissions, AccessCarries(r, now),
           r.at = "load" => r.user \in Users /\ Access!Owned(r.user) \subseteq now,
           grantRequest' = [grantRequest EXCEPT ![s] = r],
           grantHeldNow' = [grantHeldNow EXCEPT ![s] = now],
           UNCHANGED <<grantUp, grantLost, Access!documents, grantToken, grantBlacklist,
           grantHeldSince, grantLeft>>
    PROVE  AccessIInv'
<1>1. AccessHeld' /\ AccessDocuments'
  BY AccessHeldStays
<1>2. AccessShapes'
  BY <1>1 DEF AccessIInv, AccessShapes
<1>3. /\ grantRequest'[s] = r /\ grantHeldNow'[s] = now
      /\ \A x \in AccessSlots : x # s =>
             grantRequest'[x] = grantRequest[x] /\ grantHeldNow'[x] = grantHeldNow[x]
  BY DEF AccessIInv, AccessShapes
<1>4. AccessCarried'
  BY <1>3, Zenon DEF AccessIInv, AccessCarried
<1>5. AccessListed'
  BY DEF AccessIInv, AccessListed
<1>6. ASSUME NEW x \in AccessSlots, grantRequest'[x].at = "load"
      PROVE  /\ grantRequest'[x].user \in Users
             /\ Access!Owned(grantRequest[x].user)' \subseteq grantHeldNow'[x]
  <2>1. CASE x = s
    <3>1. Access!Owned(grantRequest[x].user)' = Access!Owned(r.user)
      BY <1>3, <2>1 DEF Access!Owned, Access!RoleSlug, Access!documents
    <3>. QED  BY <1>3, <1>6, <2>1, <3>1
  <2>2. CASE x # s
    <3>1. Access!Owned(grantRequest[x].user)' = Access!Owned(grantRequest[x].user)
      BY <1>3, <2>2 DEF Access!Owned, Access!RoleSlug, Access!documents
    <3>. QED  BY <1>3, <1>6, <2>2, <3>1 DEF AccessIInv, AccessLoading
  <2>. QED  BY <2>1, <2>2
<1>7. AccessLoading'
  BY <1>6, Zenon DEF AccessLoading
<1>. QED  BY <1>1, <1>2, <1>4, <1>5, <1>7 DEF AccessIInv

(* It moves on, or is refused, and what its user held stays.               *)
LEMMA AccessRequestGoesOn ==
    ASSUME AccessIInv, NEW s \in AccessSlots, NEW r \in AccessRequests,
           AccessCarries(r, grantHeldNow[s]), r.at # "load",
           grantRequest' = [grantRequest EXCEPT ![s] = r],
           UNCHANGED <<grantUp, grantLost, Access!documents, grantToken, grantBlacklist,
           grantHeldSince, grantHeldNow, grantLeft>>
    PROVE  AccessIInv'
<1>1. /\ grantHeldNow[s] \in SUBSET Access!Permissions
      /\ grantHeldNow' = [grantHeldNow EXCEPT ![s] = grantHeldNow[s]]
  BY DEF AccessIInv, AccessShapes
<1>. QED  BY <1>1, AccessRequestMoves

(* An empty slot is a request like any other.                              *)
LEMMA AccessNoRequest ==
    /\ Access!NoRequest \in AccessRequests /\ Access!NoRequest.at = "idle"
    /\ \A now : AccessCarries(Access!NoRequest, now)
BY DEF Access!NoRequest, AccessRequests, Access!NoRole, AccessCarries

(* authenticate copies what the token carries.                             *)
LEMMA AccessPresentTokenStep == ASSUME AccessIInv, NEW s \in AccessSlots,
      Access!PresentToken(s) PROVE AccessIInv'
<1>. PICK u \in Users, op \in Access!Ops :
        /\ grantToken[u].valid
        /\ grantRequest' = [grantRequest EXCEPT ![s] =
               [at |-> "load", op |-> op, user |-> u, role |-> Access!NoRole, owned |-> {},
                carried |-> grantToken[u].permissions, ever |-> grantHeldSince[u]]]
        /\ grantHeldNow' = [grantHeldNow EXCEPT ![s] = Access!Owned(u)]
  BY DEF Access!PresentToken
<1>. DEFINE r ==
    [at |-> "load", op |-> op, user |-> u, role |-> Access!NoRole, owned |-> {},
     carried |-> grantToken[u].permissions, ever |-> grantHeldSince[u]]
<1>2. Access!Owned(u) \subseteq Access!Permissions
  BY DEF AccessIInv, AccessShapes, AccessDocuments, Access!Owned
<1>3. grantToken[u].permissions \subseteq grantHeldSince[u]
  BY Zenon DEF AccessIInv, AccessHeld
<1>4. grantToken[u].permissions \subseteq Access!Permissions
        /\ grantHeldSince[u] \subseteq Access!Permissions
  BY DEF AccessIInv, AccessShapes, AccessTokens
<1>5. /\ r \in AccessRequests /\ r.at = "load" /\ r.user = u
      /\ r.carried = grantToken[u].permissions /\ r.ever = grantHeldSince[u]
  BY <1>4 DEF AccessRequests, Access!Ops, Access!NoRequest, Access!NoRole
<1>6. grantRequest' = [grantRequest EXCEPT ![s] = r]
  OBVIOUS
<1>. HIDE DEF r
<1>7. AccessCarries(r, Access!Owned(u))
  BY <1>3, <1>5 DEF AccessCarries
<1>. QED  BY <1>2, <1>5, <1>6, <1>7, AccessRequestMoves DEF Access!PresentToken

(* And loads its user, who holds what it holds then.                       *)
LEMMA AccessLoadUserStep == ASSUME AccessIInv, NEW s \in AccessSlots,
      Access!LoadUser(s) PROVE AccessIInv'
<1>. DEFINE r == grantRequest[s]
            q == [r EXCEPT !.at = IF r.op = "deleteMe" THEN "service" ELSE "guard",
                           !.role = Access!RoleSlug(r.user), !.owned = Access!Owned(r.user)]
<1>1. /\ r \in AccessRequests /\ AccessCarries(r, grantHeldNow[s]) /\ r.at = "load"
      /\ r.user \in Users /\ Access!Owned(r.user) \subseteq grantHeldNow[s]
  BY DEF AccessIInv, AccessShapes, AccessCarried, AccessLoading, Access!LoadUser
<1>2. Access!RoleSlug(r.user) \in Access!Roles \cup {Access!NoRole}
  BY <1>1 DEF AccessIInv, AccessShapes, AccessDocuments, Access!RoleSlug
<1>3. Access!Owned(r.user) \subseteq Access!Permissions
  BY <1>1 DEF AccessIInv, AccessShapes, AccessDocuments, Access!Owned
<1>4. CASE grantStatus[r.user] = "active" /\ r.user \notin grantLocked
  <2>1. /\ q \in AccessRequests /\ q.at = (IF r.op = "deleteMe" THEN "service" ELSE "guard")
        /\ q.op = r.op /\ q.owned = Access!Owned(r.user)
        /\ q.carried = r.carried /\ q.ever = r.ever
    BY <1>1, <1>2, <1>3 DEF AccessRequests
  <2>2. AccessCarries(q, grantHeldNow[s]) /\ q.at # "load"
    BY <1>1, <2>1 DEF AccessCarries
  <2>3. grantRequest' = [grantRequest EXCEPT ![s] = q]
    BY <1>4 DEF Access!LoadUser
  <2>. HIDE DEF q
  <2>. QED  BY <2>1, <2>2, <2>3, AccessRequestGoesOn DEF Access!LoadUser, Access!held
<1>5. CASE ~(grantStatus[r.user] = "active" /\ r.user \notin grantLocked)
  <2>1. grantRequest' = [grantRequest EXCEPT ![s] = Access!NoRequest]
    BY <1>5 DEF Access!LoadUser
  <2>. QED  BY <2>1, AccessNoRequest, AccessRequestGoesOn DEF Access!LoadUser, Access!held
<1>. QED  BY <1>4, <1>5

(* requirePermission lets a request through or answers 403.                *)
LEMMA AccessGuardStep == ASSUME AccessIInv, NEW s \in AccessSlots, Access!Guard(s)
                         PROVE AccessIInv'
<1>. DEFINE r == grantRequest[s]
            q == [r EXCEPT !.at = "service"]
<1>1. r \in AccessRequests /\ AccessCarries(r, grantHeldNow[s]) /\ r.at = "guard"
  BY DEF AccessIInv, AccessShapes, AccessCarried, Access!Guard
<1>3. /\ q \in AccessRequests /\ q.at = "service" /\ q.op = r.op /\ q.role = r.role
      /\ q.owned = r.owned /\ q.carried = r.carried /\ q.ever = r.ever
  BY <1>1 DEF AccessRequests
<1>4. CASE Access!Passes(r, Access!Slug(r.op))
  <2>1. AccessCarries(q, grantHeldNow[s])
    BY <1>1, <1>3, <1>4 DEF AccessCarries, Access!Passes
  <2>2. grantRequest' = [grantRequest EXCEPT ![s] = q]
    BY <1>4 DEF Access!Guard
  <2>. HIDE DEF q
  <2>. QED  BY <1>3, <2>1, <2>2, AccessRequestGoesOn DEF Access!Guard, Access!held
<1>5. CASE ~Access!Passes(r, Access!Slug(r.op))
  <2>1. grantRequest' = [grantRequest EXCEPT ![s] = Access!NoRequest]
    BY <1>5 DEF Access!Guard
  <2>. QED  BY <2>1, AccessNoRequest, AccessRequestGoesOn DEF Access!Guard, Access!held
<1>. QED  BY <1>4, <1>5

(* What the service may have written of a user.                            *)
LEMMA AccessServeWrites == ASSUME AccessIInv, NEW s \in AccessSlots, Access!Serve(s)
                           PROVE AccessDocuments'
<1>. DEFINE r == grantRequest[s]
<1>1. PICK target \in IF r.op = "deleteMe" THEN {r.user} ELSE Users :
        IF ~Access!Allowed(r, target) \/ grantStatus[target] = "deleted" \/ r.op = "getUser"
        THEN UNCHANGED <<grantRoleOf, grantOverrides, grantStatus>>
        ELSE IF r.op = "updateUser" THEN Access!Update(target)
        ELSE grantStatus' = [grantStatus EXCEPT ![target] = "deleted"]
          /\ UNCHANGED <<grantRoleOf, grantOverrides>>
  BY Zenon DEF Access!Serve
<1>2. UNCHANGED <<grantGrants, grantRoleLive, grantPermLive>> /\ AccessDocuments
  BY DEF Access!Serve, AccessIInv, AccessShapes
<1>3. CASE UNCHANGED <<grantRoleOf, grantOverrides, grantStatus>>
  BY <1>2, <1>3 DEF AccessDocuments
<1>4. CASE Access!Update(target)
  BY <1>2, <1>4 DEF AccessDocuments, Access!Update
<1>5. CASE grantStatus' = [grantStatus EXCEPT ![target] = "deleted"]
             /\ UNCHANGED <<grantRoleOf, grantOverrides>>
  BY <1>2, <1>5 DEF AccessDocuments
<1>. QED  BY <1>1, <1>3, <1>4, <1>5

(* The service answers, and may have changed a user.                       *)
LEMMA AccessServeStep == ASSUME AccessIInv, NEW s \in AccessSlots, Access!Serve(s)
                         PROVE AccessIInv'
<1>1. /\ grantRequest' = [grantRequest EXCEPT ![s] = Access!NoRequest] /\ Access!Remember
      /\ UNCHANGED <<grantUp, grantLost, grantToken, grantBlacklist, grantLeft>>
  BY DEF Access!Serve
<1>0. AccessDocuments'
  BY AccessServeWrites
<1>5. grantRequest'[s] = Access!NoRequest /\ \A x \in AccessSlots : x # s =>
        grantRequest'[x] = grantRequest[x]
  BY <1>1 DEF AccessIInv, AccessShapes
<1>6. \A x \in AccessSlots : grantRequest'[x].at = "load" => grantRequest'[x] = grantRequest[x]
  BY <1>5, AccessNoRequest
<1>2. /\ AccessHeld' /\ AccessLoading'
      /\ grantHeldSince' \in [Users -> SUBSET Access!Permissions]
      /\ grantHeldNow' \in [AccessSlots -> SUBSET Access!Permissions]
      /\ \A x \in AccessSlots : grantHeldNow[x] \subseteq grantHeldNow'[x]
  BY <1>0, <1>1, <1>6, AccessDocumentsChange
<1>4. AccessShapes'
  BY <1>0, <1>1, <1>2, AccessNoRequest DEF AccessIInv, AccessShapes
<1>7. ASSUME NEW x \in AccessSlots
      PROVE  AccessCarries(grantRequest'[x], grantHeldNow'[x])
  BY <1>2, <1>5, AccessNoRequest, AccessCarriesMore, Zenon DEF AccessIInv, AccessCarried
<1>8. AccessCarried'
  BY <1>7, Zenon DEF AccessCarried
<1>9. AccessListed'
  BY <1>1 DEF AccessIInv, AccessListed
<1>. QED  BY <1>2, <1>4, <1>8, <1>9 DEF AccessIInv

-----------------------------------------------------------------------------
(* assignPermissions, and updateRole with permissions.                     *)
LEMMA AccessAssignPermissionsStep == ASSUME AccessIInv, NEW r \in Access!Roles,
      Access!AssignPermissions(r) PROVE AccessIInv'
<1>1. AccessDocuments'
  BY DEF Access!AssignPermissions, Access!RoleChange, AccessIInv, AccessShapes,
     AccessDocuments
<1>. QED  BY <1>1, AccessChangeKeeps DEF Access!AssignPermissions, Access!RoleChange

(* deleteRole.                                                             *)
LEMMA AccessDeleteRoleStep == ASSUME AccessIInv, NEW r \in Access!Roles,
      Access!DeleteRole(r) PROVE AccessIInv'
<1>1. AccessDocuments'
  BY DEF Access!DeleteRole, Access!RoleChange, AccessIInv, AccessShapes, AccessDocuments
<1>. QED  BY <1>1, AccessChangeKeeps DEF Access!DeleteRole, Access!RoleChange

(* createRole, for the slug of a deleted role too.                         *)
LEMMA AccessCreateRoleStep == ASSUME AccessIInv, NEW r \in Access!Roles,
      Access!CreateRole(r) PROVE AccessIInv'
<1>1. AccessDocuments'
  BY DEF Access!CreateRole, AccessIInv, AccessShapes, AccessDocuments
<1>. QED  BY <1>1, AccessChangeKeeps DEF Access!CreateRole

(* deletePermission.                                                       *)
LEMMA AccessDeletePermissionStep ==
    ASSUME AccessIInv, NEW p \in Access!Permissions, Access!DeletePermission(p)
    PROVE AccessIInv'
<1>1. AccessDocuments'
  BY DEF Access!DeletePermission, Access!PermissionChange, AccessIInv, AccessShapes,
     AccessDocuments
<1>. QED  BY <1>1, AccessChangeKeeps DEF Access!DeletePermission, Access!PermissionChange

(* createPermission.                                                       *)
LEMMA AccessCreatePermissionStep ==
    ASSUME AccessIInv, NEW p \in Access!Permissions, Access!CreatePermission(p)
    PROVE AccessIInv'
<1>1. AccessDocuments'
  BY DEF Access!CreatePermission, Access!PermissionChange, AccessIInv, AccessShapes,
     AccessDocuments
<1>. QED  BY <1>1, AccessChangeKeeps DEF Access!CreatePermission, Access!PermissionChange

(* updatePermission, which may rename.                                     *)
LEMMA AccessUpdatePermissionStep ==
    ASSUME AccessIInv, NEW p \in Access!Permissions, NEW q \in Access!Permissions,
           Access!UpdatePermission(p, q) PROVE AccessIInv'
<1>1. AccessDocuments'
  BY DEF Access!UpdatePermission, Access!PermissionChange, AccessIInv, AccessShapes,
     AccessDocuments
<1>. QED  BY <1>1, AccessChangeKeeps DEF Access!UpdatePermission, Access!PermissionChange

(* The seeders run again.                                                  *)
LEMMA AccessSeedAccessStep == ASSUME AccessIInv, Access!SeedAccess PROVE AccessIInv'
<1>1. AccessDocuments'
  BY DEF Access!SeedAccess, AccessIInv, AccessShapes, AccessDocuments, Access!Roles,
     Access!SystemRoles
<1>. QED  BY <1>1, AccessChangeKeeps DEF Access!SeedAccess

(* An account is locked and unlocked, and Redis goes away and comes back.  *)
LEMMA AccessConnectionSteps ==
    ASSUME AccessIInv,
           \/ Access!RedisLost \/ Access!RedisBack
           \/ \E u \in Users : Access!Lock(u) \/ Access!LockLapses(u)
    PROVE  AccessIInv'
<1>1. UNCHANGED <<Access!documents, grantToken, grantBlacklist, grantRequest,
      grantHeldSince, grantHeldNow, grantLeft>>
  BY DEF Access!RedisLost, Access!RedisBack, Access!Lock, Access!LockLapses, Access!held
<1>2. AccessHeld' /\ AccessDocuments' /\ AccessLoading'
  BY <1>1, AccessHeldStays, AccessLoadingStays
<1>3. AccessShapes' /\ AccessCarried'
  BY <1>1, <1>2 DEF AccessIInv, AccessShapes, AccessCarried
<1>4. grantLost' = TRUE \/ (grantLost' = grantLost /\ (grantUp' = TRUE \/ grantUp' = grantUp))
  BY DEF Access!RedisLost, Access!RedisBack, Access!Lock, Access!LockLapses
<1>5. AccessListed'
  BY <1>1, <1>4 DEF AccessIInv, AccessListed
<1>. QED  BY <1>2, <1>3, <1>5 DEF AccessIInv

(* Every step keeps the invariant, whichever it is.                        *)
LEMMA AccessNextStep == AccessIInv /\ [Access!Next]_(Access!vars) => AccessIInv'
<1>. SUFFICES ASSUME AccessIInv, [Access!Next]_(Access!vars) PROVE AccessIInv'
  OBVIOUS
<1>1. CASE UNCHANGED Access!vars
  <2>1. UNCHANGED <<grantUp, grantLost, Access!documents, grantToken, grantBlacklist,
        grantRequest, grantHeldSince, grantHeldNow, grantLeft>>
    BY <1>1 DEF Access!vars, Access!documents, Access!held
  <2>2. AccessHeld' /\ AccessDocuments' /\ AccessLoading'
    BY <2>1, AccessHeldStays, AccessLoadingStays
  <2>. QED  BY <2>1, <2>2 DEF AccessIInv, AccessShapes, AccessCarried, AccessListed
<1>2. ASSUME NEW u \in Users,
             \/ Access!SignIn(u) \/ Access!TokenExpires(u) \/ Access!Logout(u)
             \/ Access!Lock(u) \/ Access!LockLapses(u)
      PROVE  AccessIInv'
  BY <1>2, AccessSignInStep, AccessTokenExpiresStep, AccessLogoutStep, AccessConnectionSteps
<1>3. ASSUME NEW s \in AccessSlots,
             \/ Access!PresentToken(s) \/ Access!LoadUser(s)
             \/ Access!Guard(s) \/ Access!Serve(s)
      PROVE  AccessIInv'
  BY <1>3, AccessPresentTokenStep, AccessLoadUserStep, AccessGuardStep, AccessServeStep
<1>. QED
  BY <1>1, <1>2, <1>3, AccessAssignPermissionsStep, AccessDeleteRoleStep,
     AccessCreateRoleStep,
     AccessDeletePermissionStep, AccessCreatePermissionStep, AccessUpdatePermissionStep,
     AccessSeedAccessStep,
     AccessConnectionSteps DEF Access!Next

-----------------------------------------------------------------------------
(* A request behind the guard has a permission that was held.              *)
LEMMA AccessGuardUsesThem == AccessIInv => Access!GuardUsesRecentGrants
<1>. SUFFICES ASSUME AccessIInv, NEW s \in AccessSlots, grantRequest[s].at = "service",
                     grantRequest[s].op # "deleteMe", grantRequest[s].role # "admin"
              PROVE  Access!Slug(grantRequest[s].op)
                         \in grantRequest[s].ever \cup grantHeldNow[s]
  BY DEF Access!GuardUsesRecentGrants
<1>1. AccessCarries(grantRequest[s], grantHeldNow[s])
  BY DEF AccessIInv, AccessCarried
<1>. QED  BY <1>1 DEF AccessCarries, Access!Passes

(* A slot whose request ends in a step was the one being served, unless a  *)
(* guard refused it.                                                       *)
LEMMA AccessWhoIsServed ==
    ASSUME AccessIInv, Access!Next, NEW s \in AccessSlots, grantRequest[s].at = "service",
           grantRequest'[s] = Access!NoRequest
    PROVE  Access!Serve(s)
<1>1. grantRequest[s] # Access!NoRequest
  BY DEF Access!NoRequest
<1>2. grantRequest' # grantRequest
  BY <1>1
<1>3. PICK x \in AccessSlots : \/ Access!PresentToken(x) \/ Access!LoadUser(x)
                              \/ Access!Guard(x) \/ Access!Serve(x)
  BY <1>2, Zenon
     DEF Access!Next, Access!SignIn, Access!TokenExpires, Access!Logout, Access!Lock,
     Access!LockLapses,
     Access!AssignPermissions, Access!DeleteRole,
     Access!CreateRole, Access!RoleChange, Access!DeletePermission,
     Access!CreatePermission, Access!UpdatePermission,
     Access!PermissionChange, Access!SeedAccess, Access!RedisLost, Access!RedisBack
<1>4. CASE x = s
  BY <1>3, <1>4 DEF Access!PresentToken, Access!LoadUser, Access!Guard
<1>5. CASE x # s
  <2>1. grantRequest'[s] = grantRequest[s]
    BY <1>3, <1>5
       DEF Access!PresentToken, Access!LoadUser, Access!Guard, Access!Serve, AccessIInv,
           AccessShapes
  <2>. QED  BY <1>1, <2>1
<1>. QED  BY <1>4, <1>5

(* A request that changes another account had the policy's permission.     *)
LEMMA AccessOthersNeedHolders == AccessIInv /\ Access!Next => Access!OthersChangedByHolders
<1>. SUFFICES ASSUME AccessIInv, Access!Next, NEW s \in AccessSlots, NEW u \in Users,
                     grantRequest[s].at = "service", grantRequest'[s] = Access!NoRequest,
                     u # grantRequest[s].user,
                     <<grantRoleOf[u], grantOverrides[u],
                     grantStatus[u]>>' # <<grantRoleOf[u], grantOverrides[u],
                     grantStatus[u]>>
              PROVE  grantHeldNow[s] \cap {Access!Slug(grantRequest[s].op), "user:manage",
                                          "system:manage"} # {}
  BY DEF Access!OthersChangedByHolders
<1>. DEFINE r == grantRequest[s]
<1>1. Access!Serve(s)
  BY AccessWhoIsServed
<1>2. PICK target \in IF r.op = "deleteMe" THEN {r.user} ELSE Users :
        IF ~Access!Allowed(r, target) \/ grantStatus[target] = "deleted" \/ r.op = "getUser"
        THEN UNCHANGED <<grantRoleOf, grantOverrides, grantStatus>>
        ELSE IF r.op = "updateUser" THEN Access!Update(target)
        ELSE grantStatus' = [grantStatus EXCEPT ![target] = "deleted"]
          /\ UNCHANGED <<grantRoleOf, grantOverrides>>
  BY <1>1, Zenon DEF Access!Serve
<1>3. ~UNCHANGED <<grantRoleOf, grantOverrides, grantStatus>>
  OBVIOUS
<1>4. Access!Allowed(r, target) /\ r.op # "getUser"
  BY <1>2, <1>3
<1>5. grantRoleOf'[u] # grantRoleOf[u] \/ grantOverrides'[u] # grantOverrides[u]
        \/ grantStatus'[u] # grantStatus[u]
  OBVIOUS
<1>6. ASSUME target # u PROVE FALSE
  <2>1. CASE Access!Update(target)
    BY <1>5, <1>6, <2>1 DEF Access!Update, AccessIInv, AccessShapes, AccessDocuments
  <2>2. CASE grantStatus' = [grantStatus EXCEPT ![target] = "deleted"]
               /\ UNCHANGED <<grantRoleOf, grantOverrides>>
    BY <1>5, <1>6, <2>2 DEF AccessIInv, AccessShapes, AccessDocuments
  <2>. QED  BY <1>2, <1>3, <2>1, <2>2
<1>7. r.op # "deleteMe" /\ target # r.user
  BY <1>2, <1>6
<1>8. Access!HasPermission(r.owned, Access!Slug(r.op))
  BY <1>4, <1>7 DEF Access!Allowed
<1>9. AccessCarries(r, grantHeldNow[s])
  BY DEF AccessIInv, AccessCarried
<1>. QED  BY <1>8, <1>9 DEF AccessCarries, Access!HasPermission

(* A step that authenticates finds no logged-out user.                     *)
LEMMA AccessLoggedOutRefused == AccessIInv /\ Access!Next => Access!LoggedOutTokensRefused
<1>. SUFFICES ASSUME AccessIInv, Access!Next, NEW s \in AccessSlots,
                     grantRequest[s].at = "idle",
                     grantRequest'[s].at # "idle", ~grantLost
              PROVE  grantRequest'[s].user \notin grantLeft
  BY DEF Access!LoggedOutTokensRefused
<1>1. grantRequest' # grantRequest
  OBVIOUS
<1>2. PICK x \in AccessSlots : \/ Access!PresentToken(x) \/ Access!LoadUser(x)
                              \/ Access!Guard(x) \/ Access!Serve(x)
  BY <1>1, Zenon
     DEF Access!Next, Access!SignIn, Access!TokenExpires, Access!Logout, Access!Lock,
     Access!LockLapses,
     Access!AssignPermissions, Access!DeleteRole,
     Access!CreateRole, Access!RoleChange, Access!DeletePermission,
     Access!CreatePermission, Access!UpdatePermission,
     Access!PermissionChange, Access!SeedAccess, Access!RedisLost, Access!RedisBack
<1>3. x = s
  <2>. SUFFICES ASSUME x # s PROVE FALSE
    OBVIOUS
  <2>1. grantRequest'[s] = grantRequest[s]
    BY <1>2 DEF Access!PresentToken, Access!LoadUser, Access!Guard, Access!Serve,
       AccessIInv, AccessShapes
  <2>. QED  BY <2>1
<1>4. Access!PresentToken(s)
  BY <1>2, <1>3 DEF Access!LoadUser, Access!Guard, Access!Serve
<1>5. PICK u \in Users, op \in Access!Ops :
        /\ grantToken[u].valid /\ ~Access!RedisExists(grantBlacklist, grantUp, u)
        /\ grantRequest' = [grantRequest EXCEPT ![s] =
               [at |-> "load", op |-> op, user |-> u, role |-> Access!NoRole, owned |-> {},
                carried |-> grantToken[u].permissions, ever |-> grantHeldSince[u]]]
  BY <1>4, Zenon DEF Access!PresentToken
<1>6. grantRequest'[s].user = u
  BY <1>5 DEF AccessIInv, AccessShapes, Access!NoRequest
<1>7. grantUp /\ u \notin grantBlacklist
  BY <1>5 DEF AccessIInv, AccessListed, Access!RedisExists, Access!RedisGet
<1>8. u \notin grantLeft
  BY <1>5, <1>7, Zenon DEF AccessIInv, AccessListed
<1>. QED  BY <1>6, <1>8

(* Whatever administrators change while requests are served, what a        *)
(* request passes was granted to its user since its token was issued, it   *)
(* changes the account of another only with what its user held after it    *)
(* arrived, and a token that was logged out authenticates nothing while    *)
(* Redis answers (auth.middleware.ts, permission.middleware.ts,            *)
(* user.policy.ts), for any users and any sets of permissions of the roles.*)
THEOREM GrantsAlwaysDecide ==
    ASSUME Bundles \subseteq SUBSET Access!Permissions
    PROVE  Access!Spec => Access!GrantsDecide
<1>1. AccessIInv /\ AccessIInv' /\ [Access!Next]_(Access!vars) =>
        [Access!GuardUsesRecentGrants' /\ Access!OthersChangedByHolders
            /\ Access!LoggedOutTokensRefused]_(Access!vars)
  <2>1. AccessIInv' => Access!GuardUsesRecentGrants'
    BY AccessGuardUsesThem, PTL
  <2>. QED  BY <2>1, AccessOthersNeedHolders, AccessLoggedOutRefused
<1>. QED  BY AccessInitStep, AccessNextStep, <1>1, PTL DEF Access!Spec, Access!GrantsDecide

-----------------------------------------------------------------------------
(***************************************************************************)
(* ProcessSafe of ServerLifecycle, for any number of retries and outages.  *)
(*                                                                         *)
(* Two things have to be known besides.  Of Redis: while the client is     *)
(* reconnecting, reconnectStrategy was called once more than reconnections *)
(* failed in a row, and never beyond the bound.                            *)
(* Of the process: what start() has reached and shutdown() has left behind *)
(* when a signal came after the server was serving.                        *)
(***************************************************************************)

(* The client's own count is right, and it was given up exactly past it.   *)
ProcessRetrying ==
    /\ runRetries \in Nat /\ runFailedInARow \in Nat
    /\ runRedis \in {"none", "ready"} => runRetries = 0 /\ runFailedInARow = 0
    /\ runRedis = "retrying" => runRetries = runFailedInARow + 1 /\ runRetries <= RedisRetries
    /\ runRedis = "none" => runGiveUp = "none"
    /\ runRedis = "disabled" /\ runGiveUp = "retries" => runFailedInARow = RedisRetries

(* What start() leaves behind at each place.                               *)
ProcessStarted ==
    /\ runBoot \notin {"database", "failed"} /\ Process!Running => runMongo = "up"
    /\ runBoot \notin {"database", "redis", "failed"} => runRedis # "none"
    /\ runBoot = "serving" => runHttp \in {"listening", "closed"}
    /\ runStop = "no" => runExit # "ok"

(* What shutdown() has closed at each place, when the server was serving.  *)
ProcessStopped ==
    ~runEarly /\ runStop # "no" =>
        /\ runBoot = "serving" /\ ~runCron
        /\ runStop # "workers" => ~runWorkers
        /\ runStop \notin {"workers", "sockets"} => ~runIo
        /\ runStop \in {"redis", "database"} => runHttp = "closed"
        /\ runStop = "database" => runRedis \in {"closed", "disabled"}
        /\ runExit = "ok" => runStop = "database" /\ runMongo = "closed"

ProcessPlaces == {"no", "workers", "sockets", "http", "redis", "database"}
ProcessClients == {"none", "ready", "retrying", "disabled", "closed"}

ProcessIInv == runStop \in ProcessPlaces /\ runRedis \in ProcessClients /\ ProcessRetrying
  /\ ProcessStarted /\ ProcessStopped

(* start() reaches MongoDB, or gives up. *)
LEMMA ProcessConnectDatabaseStep ==
    ASSUME RedisRetries \in Nat, ProcessIInv, Process!ConnectDatabase
    PROVE  ProcessIInv'
<1>1. runStop' \in ProcessPlaces /\ runRedis' \in ProcessClients
  BY DEF ProcessIInv, Process!ConnectDatabase, ProcessPlaces, ProcessClients,
     Process!redisVars, Process!parts
<1>2. ProcessRetrying'
  BY DEF ProcessIInv, ProcessRetrying, Process!ConnectDatabase, Process!redisVars,
     Process!parts
<1>3. ProcessStarted'
  BY DEF ProcessIInv, ProcessStarted, Process!ConnectDatabase, Process!Running,
     Process!redisVars, Process!parts
<1>4. ProcessStopped'
  BY DEF ProcessIInv, ProcessStarted, ProcessStopped, ProcessPlaces, ProcessClients,
     Process!ConnectDatabase, Process!Running, Process!redisVars, Process!parts
<1>. QED  BY <1>1, <1>2, <1>3, <1>4 DEF ProcessIInv

(* The first connection to Redis. *)
LEMMA ProcessConnectRedisStep ==
    ASSUME RedisRetries \in Nat, ProcessIInv, Process!ConnectRedis
    PROVE  ProcessIInv'
<1>1. runStop' \in ProcessPlaces /\ runRedis' \in ProcessClients
  BY DEF ProcessIInv, Process!ConnectRedis, ProcessPlaces, ProcessClients, Process!parts
<1>2. ProcessRetrying'
  BY DEF ProcessIInv, ProcessRetrying, Process!ConnectRedis, Process!parts
<1>3. ProcessStarted'
  BY DEF ProcessIInv, ProcessRetrying, ProcessStarted, Process!ConnectRedis,
     Process!Running, Process!parts
<1>4. ProcessStopped'
  BY DEF ProcessIInv, ProcessStarted, ProcessStopped, ProcessPlaces, ProcessClients,
     Process!ConnectRedis, Process!Running, Process!parts
<1>. QED  BY <1>1, <1>2, <1>3, <1>4 DEF ProcessIInv

(* Workers, cron jobs and the HTTP server are created. *)
LEMMA ProcessStartBackgroundStep ==
    ASSUME RedisRetries \in Nat, ProcessIInv, Process!StartBackground
    PROVE  ProcessIInv'
<1>1. runStop' \in ProcessPlaces /\ runRedis' \in ProcessClients
  BY DEF ProcessIInv, Process!StartBackground, ProcessPlaces, ProcessClients,
     Process!redisVars
<1>2. ProcessRetrying'
  BY DEF ProcessIInv, ProcessRetrying, Process!StartBackground, Process!redisVars
<1>3. ProcessStarted'
  BY DEF ProcessIInv, ProcessStarted, Process!StartBackground, Process!Running,
     Process!redisVars
<1>4. ProcessStopped'
  BY DEF ProcessIInv, ProcessStarted, ProcessStopped, ProcessPlaces, ProcessClients,
     Process!StartBackground, Process!Running, Process!redisVars
<1>. QED  BY <1>1, <1>2, <1>3, <1>4 DEF ProcessIInv

(* Socket.IO opens or not. *)
LEMMA ProcessInitSocketsStep ==
    ASSUME RedisRetries \in Nat, ProcessIInv, Process!InitSockets
    PROVE  ProcessIInv'
<1>1. runStop' \in ProcessPlaces /\ runRedis' \in ProcessClients
  BY DEF ProcessIInv, Process!InitSockets, ProcessPlaces, ProcessClients, Process!redisVars
<1>2. ProcessRetrying'
  BY DEF ProcessIInv, ProcessRetrying, Process!InitSockets, Process!redisVars
<1>3. ProcessStarted'
  BY DEF ProcessIInv, ProcessStarted, Process!InitSockets, Process!Running,
     Process!redisVars
<1>4. ProcessStopped'
  BY DEF ProcessIInv, ProcessStarted, ProcessStopped, ProcessPlaces, ProcessClients,
     Process!InitSockets, Process!Running, Process!redisVars
<1>. QED  BY <1>1, <1>2, <1>3, <1>4 DEF ProcessIInv

(* The server listens, or the process exits. *)
LEMMA ProcessListenStep ==
    ASSUME RedisRetries \in Nat, ProcessIInv, Process!Listen
    PROVE  ProcessIInv'
<1>1. runStop' \in ProcessPlaces /\ runRedis' \in ProcessClients
  BY DEF ProcessIInv, Process!Listen, ProcessPlaces, ProcessClients, Process!redisVars
<1>2. ProcessRetrying'
  BY DEF ProcessIInv, ProcessRetrying, Process!Listen, Process!redisVars
<1>3. ProcessStarted'
  BY DEF ProcessIInv, ProcessStarted, Process!Listen, Process!Running, Process!redisVars
<1>4. ProcessStopped'
  BY DEF ProcessIInv, ProcessStarted, ProcessStopped, ProcessPlaces, ProcessClients,
     Process!Listen, Process!Running, Process!redisVars
<1>. QED  BY <1>1, <1>2, <1>3, <1>4 DEF ProcessIInv

(* The Redis server goes away, *)
LEMMA ProcessRedisLostStep ==
    ASSUME RedisRetries \in Nat, ProcessIInv, Process!RedisLost
    PROVE  ProcessIInv'
<1>1. runStop' \in ProcessPlaces /\ runRedis' \in ProcessClients
  BY DEF ProcessIInv, Process!RedisLost, Process!ReconnectStrategy, ProcessPlaces,
     ProcessClients, Process!parts
<1>2. ProcessRetrying'
  BY DEF ProcessIInv, ProcessRetrying, Process!RedisLost, Process!ReconnectStrategy, Process!parts
<1>3. ProcessStarted'
  BY DEF ProcessIInv, ProcessStarted, Process!RedisLost, Process!ReconnectStrategy,
     Process!Running, Process!parts
<1>4. ProcessStopped'
  BY DEF ProcessIInv, ProcessStarted, ProcessStopped, ProcessPlaces, ProcessClients,
     Process!RedisLost, Process!ReconnectStrategy, Process!Running, Process!parts
<1>. QED  BY <1>1, <1>2, <1>3, <1>4 DEF ProcessIInv

(* and comes back. *)
LEMMA ProcessRedisReturnsStep ==
    ASSUME RedisRetries \in Nat, ProcessIInv, Process!RedisReturns
    PROVE  ProcessIInv'
<1>1. runStop' \in ProcessPlaces /\ runRedis' \in ProcessClients
  BY DEF ProcessIInv, Process!RedisReturns, ProcessPlaces, ProcessClients, Process!parts
<1>2. ProcessRetrying'
  BY DEF ProcessIInv, ProcessRetrying, Process!RedisReturns, Process!parts
<1>3. ProcessStarted'
  BY DEF ProcessIInv, ProcessStarted, Process!RedisReturns, Process!Running, Process!parts
<1>4. ProcessStopped'
  BY DEF ProcessIInv, ProcessStarted, ProcessStopped, ProcessPlaces, ProcessClients,
     Process!RedisReturns, Process!Running, Process!parts
<1>. QED  BY <1>1, <1>2, <1>3, <1>4 DEF ProcessIInv

(* One reconnection: it succeeds, fails, or was one too many. *)
LEMMA ProcessReconnectStep ==
    ASSUME RedisRetries \in Nat, ProcessIInv, Process!Reconnect
    PROVE  ProcessIInv'
<1>1. runStop' \in ProcessPlaces /\ runRedis' \in ProcessClients
  BY DEF ProcessIInv, Process!Reconnect, Process!ReconnectStrategy, ProcessPlaces,
     ProcessClients, Process!parts
<1>2. ProcessRetrying'
  BY DEF ProcessIInv, ProcessRetrying, Process!Reconnect, Process!ReconnectStrategy, Process!parts
<1>3. ProcessStarted'
  BY DEF ProcessIInv, ProcessStarted, Process!Reconnect, Process!ReconnectStrategy,
     Process!Running, Process!parts
<1>4. ProcessStopped'
  BY DEF ProcessIInv, ProcessStarted, ProcessStopped, ProcessPlaces, ProcessClients,
     Process!Reconnect, Process!ReconnectStrategy, Process!Running, Process!parts
<1>. QED  BY <1>1, <1>2, <1>3, <1>4 DEF ProcessIInv

(* A readiness probe begins to wait, *)
LEMMA ProcessProbeStep ==
    ASSUME RedisRetries \in Nat, ProcessIInv, Process!Probe
    PROVE  ProcessIInv'
<1>1. runStop' \in ProcessPlaces /\ runRedis' \in ProcessClients
  BY DEF ProcessIInv, Process!Probe, ProcessPlaces, ProcessClients, Process!parts
<1>2. ProcessRetrying'
  BY DEF ProcessIInv, ProcessRetrying, Process!Probe, Process!parts
<1>3. ProcessStarted'
  BY DEF ProcessIInv, ProcessStarted, Process!Probe, Process!Running, Process!parts
<1>4. ProcessStopped'
  BY DEF ProcessIInv, ProcessStarted, ProcessStopped, ProcessPlaces, ProcessClients,
     Process!Probe, Process!Running, Process!parts
<1>. QED  BY <1>1, <1>2, <1>3, <1>4 DEF ProcessIInv

(* and gives up or not. *)
LEMMA ProcessProbeEndsStep ==
    ASSUME RedisRetries \in Nat, ProcessIInv, Process!ProbeEnds
    PROVE  ProcessIInv'
<1>1. runStop' \in ProcessPlaces /\ runRedis' \in ProcessClients
  BY DEF ProcessIInv, Process!ProbeEnds, ProcessPlaces, ProcessClients, Process!parts
<1>2. ProcessRetrying'
  BY DEF ProcessIInv, ProcessRetrying, Process!ProbeEnds, Process!parts
<1>3. ProcessStarted'
  BY DEF ProcessIInv, ProcessStarted, Process!ProbeEnds, Process!Running, Process!parts
<1>4. ProcessStopped'
  BY DEF ProcessIInv, ProcessStarted, ProcessStopped, ProcessPlaces, ProcessClients,
     Process!ProbeEnds, Process!Running, Process!parts
<1>. QED  BY <1>1, <1>2, <1>3, <1>4 DEF ProcessIInv

(* shutdown() begins, *)
LEMMA ProcessSignalStep ==
    ASSUME RedisRetries \in Nat, ProcessIInv, Process!Signal
    PROVE  ProcessIInv'
<1>1. runStop' \in ProcessPlaces /\ runRedis' \in ProcessClients
  BY DEF ProcessIInv, Process!Signal, ProcessPlaces, ProcessClients, Process!redisVars
<1>2. ProcessRetrying'
  BY DEF ProcessIInv, ProcessRetrying, Process!Signal, Process!redisVars
<1>3. ProcessStarted'
  BY DEF ProcessIInv, ProcessStarted, Process!Signal, Process!Running, Process!redisVars
<1>4. ProcessStopped'
  BY DEF ProcessIInv, ProcessStarted, ProcessStopped, ProcessPlaces, ProcessClients,
     Process!Signal, Process!Running, Process!redisVars
<1>. QED  BY <1>1, <1>2, <1>3, <1>4 DEF ProcessIInv

(* closes the workers, *)
LEMMA ProcessStopWorkersStep ==
    ASSUME RedisRetries \in Nat, ProcessIInv, Process!StopWorkers
    PROVE  ProcessIInv'
<1>1. runStop' \in ProcessPlaces /\ runRedis' \in ProcessClients
  BY DEF ProcessIInv, Process!StopWorkers, ProcessPlaces, ProcessClients, Process!redisVars
<1>2. ProcessRetrying'
  BY DEF ProcessIInv, ProcessRetrying, Process!StopWorkers, Process!redisVars
<1>3. ProcessStarted'
  BY DEF ProcessIInv, ProcessStarted, Process!StopWorkers, Process!Running,
     Process!redisVars
<1>4. ProcessStopped'
  BY DEF ProcessIInv, ProcessStarted, ProcessStopped, ProcessPlaces, ProcessClients,
     Process!StopWorkers, Process!Running, Process!redisVars
<1>. QED  BY <1>1, <1>2, <1>3, <1>4 DEF ProcessIInv

(* the sockets, *)
LEMMA ProcessCloseSocketsStep ==
    ASSUME RedisRetries \in Nat, ProcessIInv, Process!CloseSockets
    PROVE  ProcessIInv'
<1>1. runStop' \in ProcessPlaces /\ runRedis' \in ProcessClients
  BY DEF ProcessIInv, Process!CloseSockets, ProcessPlaces, ProcessClients, Process!redisVars
<1>2. ProcessRetrying'
  BY DEF ProcessIInv, ProcessRetrying, Process!CloseSockets, Process!redisVars
<1>3. ProcessStarted'
  BY DEF ProcessIInv, ProcessStarted, Process!CloseSockets, Process!Running,
     Process!redisVars
<1>4. ProcessStopped'
  BY DEF ProcessIInv, ProcessStarted, ProcessStopped, ProcessPlaces, ProcessClients,
     Process!CloseSockets, Process!Running, Process!redisVars
<1>. QED  BY <1>1, <1>2, <1>3, <1>4 DEF ProcessIInv

(* the HTTP server, *)
LEMMA ProcessCloseHttpStep ==
    ASSUME RedisRetries \in Nat, ProcessIInv, Process!CloseHttp
    PROVE  ProcessIInv'
<1>1. runStop' \in ProcessPlaces /\ runRedis' \in ProcessClients
  BY DEF ProcessIInv, Process!CloseHttp, ProcessPlaces, ProcessClients, Process!redisVars
<1>2. ProcessRetrying'
  BY DEF ProcessIInv, ProcessRetrying, Process!CloseHttp, Process!redisVars
<1>3. ProcessStarted'
  BY DEF ProcessIInv, ProcessStarted, Process!CloseHttp, Process!Running, Process!redisVars
<1>4. ProcessStopped'
  BY DEF ProcessIInv, ProcessStarted, ProcessStopped, ProcessPlaces, ProcessClients,
     Process!CloseHttp, Process!Running, Process!redisVars
<1>. QED  BY <1>1, <1>2, <1>3, <1>4 DEF ProcessIInv

(* Redis *)
LEMMA ProcessDisconnectRedisStep ==
    ASSUME RedisRetries \in Nat, ProcessIInv, Process!DisconnectRedis
    PROVE  ProcessIInv'
<1>1. runStop' \in ProcessPlaces /\ runRedis' \in ProcessClients
  BY DEF ProcessIInv, Process!DisconnectRedis, ProcessPlaces, ProcessClients, Process!parts
<1>2. ProcessRetrying'
  BY DEF ProcessIInv, ProcessRetrying, Process!DisconnectRedis, Process!parts
<1>3. ProcessStarted'
  BY DEF ProcessIInv, ProcessStarted, Process!DisconnectRedis, Process!Running,
     Process!parts
<1>4. ProcessStopped'
  BY DEF ProcessIInv, ProcessStarted, ProcessStopped, ProcessPlaces, ProcessClients,
     Process!DisconnectRedis, Process!Running, Process!parts
<1>. QED  BY <1>1, <1>2, <1>3, <1>4 DEF ProcessIInv

(* and MongoDB, and exits. *)
LEMMA ProcessDisconnectDatabaseStep ==
    ASSUME RedisRetries \in Nat, ProcessIInv, Process!DisconnectDatabase
    PROVE  ProcessIInv'
<1>1. runStop' \in ProcessPlaces /\ runRedis' \in ProcessClients
  BY DEF ProcessIInv, Process!DisconnectDatabase, ProcessPlaces, ProcessClients,
     Process!redisVars, Process!parts
<1>2. ProcessRetrying'
  BY DEF ProcessIInv, ProcessRetrying, Process!DisconnectDatabase, Process!redisVars,
     Process!parts
<1>3. ProcessStarted'
  BY DEF ProcessIInv, ProcessStarted, Process!DisconnectDatabase, Process!Running,
     Process!redisVars, Process!parts
<1>4. ProcessStopped'
  BY DEF ProcessIInv, ProcessStarted, ProcessStopped, ProcessPlaces, ProcessClients,
     Process!DisconnectDatabase, Process!Running, Process!redisVars, Process!parts
<1>. QED  BY <1>1, <1>2, <1>3, <1>4 DEF ProcessIInv

(* The timer is faster. *)
LEMMA ProcessForceExitStep ==
    ASSUME RedisRetries \in Nat, ProcessIInv, Process!ForceExit
    PROVE  ProcessIInv'
<1>1. runStop' \in ProcessPlaces /\ runRedis' \in ProcessClients
  BY DEF ProcessIInv, Process!ForceExit, ProcessPlaces, ProcessClients, Process!redisVars,
     Process!parts
<1>2. ProcessRetrying'
  BY DEF ProcessIInv, ProcessRetrying, Process!ForceExit, Process!redisVars, Process!parts
<1>3. ProcessStarted'
  BY DEF ProcessIInv, ProcessStarted, Process!ForceExit, Process!Running,
     Process!redisVars, Process!parts
<1>4. ProcessStopped'
  BY DEF ProcessIInv, ProcessStarted, ProcessStopped, ProcessPlaces, ProcessClients,
     Process!ForceExit, Process!Running, Process!redisVars, Process!parts
<1>. QED  BY <1>1, <1>2, <1>3, <1>4 DEF ProcessIInv

(* The invariant holds when the process is created.                        *)
LEMMA ProcessInitStep == Process!Init => ProcessIInv
BY DEF Process!Init, ProcessIInv, ProcessRetrying, ProcessStarted, ProcessStopped,
   ProcessPlaces, ProcessClients, Process!Running

(* Every step of the process keeps the invariant, whichever it is.         *)
LEMMA ProcessNextStep == ASSUME RedisRetries \in Nat
                         PROVE ProcessIInv /\ [Process!Next]_(Process!vars) => ProcessIInv'
<1>. SUFFICES ASSUME ProcessIInv, [Process!Next]_(Process!vars) PROVE ProcessIInv'
  OBVIOUS
<1>1. CASE UNCHANGED Process!vars
  BY <1>1 DEF ProcessIInv, ProcessRetrying, ProcessStarted, ProcessStopped,
          Process!Running, Process!vars, Process!redisVars, Process!parts
<1>. QED
  BY <1>1, ProcessConnectDatabaseStep, ProcessConnectRedisStep, ProcessStartBackgroundStep,
     ProcessInitSocketsStep,
     ProcessListenStep, ProcessRedisLostStep, ProcessRedisReturnsStep,
     ProcessReconnectStep, ProcessProbeStep, ProcessProbeEndsStep,
     ProcessSignalStep, ProcessStopWorkersStep, ProcessCloseSocketsStep,
     ProcessCloseHttpStep, ProcessDisconnectRedisStep,
     ProcessDisconnectDatabaseStep, ProcessForceExitStep DEF Process!Next

(* A process that was serving when it was told to stop and exits with code *)
(* 0 has closed everything (server.ts, shutdown), and an outage never      *)
(* disables Redis on the failures of another (redis.ts, reconnectStrategy),*)
(* whatever the bounds.                                                    *)
THEOREM ProcessIsSafe == ASSUME RedisRetries \in Nat
                                PROVE Process!Spec => []Process!ProcessSafe
<1>1. ProcessIInv => Process!ProcessSafe
  BY DEF ProcessIInv, ProcessRetrying, ProcessStarted, ProcessStopped, Process!ProcessSafe,
     Process!CleanExit, Process!OutagesSurvived, ProcessPlaces
<1>. QED  BY ProcessInitStep, ProcessNextStep, <1>1, PTL DEF Process!Spec

-----------------------------------------------------------------------------
(***************************************************************************)
(* JobsDelivered of JobQueue, for any number of events and jobs, any       *)
(* number of attempts and any faults.                                      *)
(*                                                                         *)
(* What a job has done is tied to where it is: before it is performed,     *)
(* each of its effects is owed to a mail reported as an error or to a dead *)
(* worker; once it is performed it has one more (QueuesEffects).  What     *)
(* the events asked for is what was added and what the listeners still     *)
(* hold, counted with Cardinality: one for each listener and one more for  *)
(* each that has its mail left (QueuesPromises).                           *)
(***************************************************************************)

QueuesMailFirst == <<"email", "notification">>
QueuesNotificationOnly == <<"notification">>

QueuesStates == Queues!Unfinished \cup {"none", "completed", "failed"}
QueuesRecords ==
    [queue : {"none", "email", "notification"}, state : QueuesStates, tries : Nat,
            valid : BOOLEAN]

(* The jobs, and the numbers that are not taken yet.                       *)
QueuesShapes ==
    /\ jobAdded \in Nat
    /\ jobJobs \in [Queues!Jobs -> QueuesRecords]
    /\ jobEffects \in [Queues!Jobs -> Nat] /\ jobUnsure \in [Queues!Jobs -> Nat]
    /\ jobStalls \in [Queues!Jobs -> Nat]
    /\ \A j \in Queues!Jobs : j > jobAdded => jobJobs[j].state = "none"

(* What a job may have done, by its state.                                 *)
QueuesSound(j) ==
    /\ jobJobs[j].state = "none" => jobEffects[j] = 0
    /\ jobJobs[j].queue = "notification" => jobJobs[j].valid
    /\ ~jobJobs[j].valid => jobEffects[j] = 0
    /\ jobJobs[j].state \in {"performed", "completed"} => jobEffects[j] >= 1
    /\ jobEffects[j] <= jobUnsure[j] + jobStalls[j]
           + IF jobJobs[j].state \in {"performed", "completed"} THEN 1 ELSE 0
QueuesEffects == \A j \in Queues!Jobs : QueuesSound(j)

QueuesMailsFirst == {h \in jobHandlers : h.todo = QueuesMailFirst}

(* What the listeners hold.                                                *)
QueuesPromises ==
    /\ jobEvents \in Nat /\ jobCut \in Nat /\ jobWanted \in Nat
    /\ IsFiniteSet(jobHandlers)
    /\ jobHandlers \subseteq [event : 1 .. jobEvents,
           todo : {QueuesMailFirst, QueuesNotificationOnly}]
    /\ \A g, h \in jobHandlers : g.event = h.event => g = h
    /\ jobCut = 0 =>
         jobWanted = jobAdded + Cardinality(jobHandlers) + Cardinality(QueuesMailsFirst)

QueuesIInv == QueuesShapes /\ QueuesEffects /\ QueuesPromises

-----------------------------------------------------------------------------
(* The two things a listener can have left are not the same.               *)
LEMMA QueuesTodosDiffer == QueuesMailFirst # QueuesNotificationOnly
BY DEF QueuesMailFirst, QueuesNotificationOnly

(* The size of a set is the same in the part and here.                     *)
LEMMA QueuesSameSize == \A S : Queues!Cardinality(S) = Cardinality(S)
BY DEF Queues!Cardinality, Cardinality

(* The invariant holds before the first event.                             *)
LEMMA QueuesInitStep == ASSUME MaxJobs \in Nat PROVE Queues!Init => QueuesIInv
<1>. SUFFICES ASSUME Queues!Init PROVE QueuesIInv
  OBVIOUS
<1>1. Queues!NoJob \in QueuesRecords
  BY DEF Queues!NoJob, QueuesRecords, QueuesStates
<1>2. QueuesShapes
  BY <1>1 DEF Queues!Init, QueuesShapes, Queues!NoJob, Queues!Jobs
<1>3. QueuesEffects
  BY DEF Queues!Init, QueuesEffects, QueuesSound, Queues!NoJob
<1>4. QueuesMailsFirst = {}
  BY DEF Queues!Init, QueuesMailsFirst
<1>5. QueuesPromises
  BY <1>4, FS_EmptySet DEF Queues!Init, QueuesPromises
<1>. QED  BY <1>2, <1>3, <1>5 DEF QueuesIInv

(* A step of one job that leaves the numbers and the listeners alone keeps *)
(* the invariant if it keeps what the job may have done.                   *)
LEMMA QueuesOneJobMoves ==
    ASSUME QueuesIInv, NEW j \in Queues!Jobs, NEW r \in QueuesRecords,
           NEW e \in Nat, NEW u \in Nat,
           jobJobs[j].state # "none", r.state # "none",
           r.queue = jobJobs[j].queue, r.valid = jobJobs[j].valid,
           jobJobs' = [jobJobs EXCEPT ![j] = r],
           jobEffects' = [jobEffects EXCEPT ![j] = e],
           jobUnsure' = [jobUnsure EXCEPT ![j] = u],
           ~r.valid => e = 0,
           r.state \in {"performed", "completed"} => e >= 1,
           e <= u + jobStalls[j] + IF r.state \in {"performed", "completed"} THEN 1 ELSE 0,
           UNCHANGED <<jobAdded, jobStalls, jobHandlers, jobEvents, jobCut, jobWanted>>
    PROVE  QueuesIInv'
<1>1. QueuesShapes'
  BY DEF QueuesIInv, QueuesShapes
<1>2. QueuesSound(j)'
  BY DEF QueuesIInv, QueuesShapes, QueuesEffects, QueuesSound
<1>3. ASSUME NEW x \in Queues!Jobs, x # j PROVE QueuesSound(x)'
  <2>1. jobJobs'[x] = jobJobs[x] /\ jobEffects'[x] = jobEffects[x]
          /\ jobUnsure'[x] = jobUnsure[x]
    BY <1>3 DEF QueuesIInv, QueuesShapes
  <2>. QED  BY <2>1 DEF QueuesIInv, QueuesEffects, QueuesSound
<1>4. QueuesPromises'
  BY DEF QueuesIInv, QueuesPromises, QueuesMailsFirst
<1>. QED  BY <1>1, <1>2, <1>3, <1>4 DEF QueuesIInv, QueuesEffects

(* A job that only changes its state, between two that allow the same.     *)
LEMMA QueuesStateChange ==
    ASSUME QueuesIInv, NEW j \in Queues!Jobs, NEW s \in QueuesStates,
           jobJobs[j].state # "none", s # "none", Queues!SetState(j, s),
           s \in {"performed", "completed"} <=> jobJobs[j].state \in {"performed",
               "completed"},
           UNCHANGED <<jobEffects, jobUnsure, jobAdded, jobStalls, jobHandlers, jobEvents,
           jobCut, jobWanted>>
    PROVE  QueuesIInv'
<1>. DEFINE r == [jobJobs[j] EXCEPT !.state = s]
<1>1. jobJobs[j] \in QueuesRecords /\ jobEffects[j] \in Nat /\ jobUnsure[j] \in Nat
  BY DEF QueuesIInv, QueuesShapes
<1>2. r \in QueuesRecords /\ r.state = s /\ r.queue = jobJobs[j].queue
        /\ r.valid = jobJobs[j].valid
  BY <1>1 DEF QueuesRecords
<1>3. jobJobs' = [jobJobs EXCEPT ![j] = r]
  BY DEF Queues!SetState
<1>4. jobEffects' = [jobEffects EXCEPT ![j] = jobEffects[j]]
        /\ jobUnsure' = [jobUnsure EXCEPT ![j] = jobUnsure[j]]
  BY DEF QueuesIInv, QueuesShapes
<1>5. QueuesSound(j)
  BY DEF QueuesIInv, QueuesEffects
<1>. HIDE DEF r
<1>. QED  BY <1>1, <1>2, <1>3, <1>4, <1>5, QueuesOneJobMoves DEF QueuesSound

(* A worker takes a waiting job.                                           *)
LEMMA QueuesTakeStep == ASSUME QueuesIInv, NEW j \in Queues!Jobs, Queues!Take(j)
                        PROVE QueuesIInv'
BY QueuesStateChange DEF Queues!Take, QueuesStates, Queues!Unfinished

(* A job whose back-off is over waits again.                               *)
LEMMA QueuesBackoffEndsStep == ASSUME QueuesIInv, NEW j \in Queues!Jobs,
      Queues!BackoffEnds(j) PROVE QueuesIInv'
BY QueuesStateChange DEF Queues!BackoffEnds, QueuesStates, Queues!Unfinished

(* A performed job is completed.                                           *)
LEMMA QueuesCompleteStep == ASSUME QueuesIInv, NEW j \in Queues!Jobs, Queues!Complete(j)
                            PROVE QueuesIInv'
BY QueuesStateChange DEF Queues!Complete, QueuesStates, Queues!Unfinished

(* A job that has its effect, a mail or a notification, has one more.      *)
LEMMA QueuesPerforms ==
    ASSUME QueuesIInv, NEW j \in Queues!Jobs, jobJobs[j].state = "active", jobJobs[j].valid,
           jobEffects' = [jobEffects EXCEPT ![j] = @ + 1], Queues!SetState(j, "performed"),
           UNCHANGED <<jobUnsure, jobAdded, jobStalls, jobHandlers, jobEvents, jobCut,
           jobWanted>>
    PROVE  QueuesIInv'
<1>. DEFINE r == [jobJobs[j] EXCEPT !.state = "performed"]
<1>1. jobJobs[j] \in QueuesRecords /\ jobEffects[j] \in Nat /\ jobUnsure[j] \in Nat
        /\ jobStalls[j] \in Nat
  BY DEF QueuesIInv, QueuesShapes
<1>2. r \in QueuesRecords /\ r.state = "performed" /\ r.queue = jobJobs[j].queue
        /\ r.valid = jobJobs[j].valid
  BY <1>1 DEF QueuesRecords, QueuesStates, Queues!Unfinished
<1>3. jobJobs' = [jobJobs EXCEPT ![j] = r]
  BY DEF Queues!SetState
<1>4. jobUnsure' = [jobUnsure EXCEPT ![j] = jobUnsure[j]]
  BY DEF QueuesIInv, QueuesShapes
<1>5. jobEffects[j] <= jobUnsure[j] + jobStalls[j]
  BY <1>1 DEF QueuesIInv, QueuesEffects, QueuesSound
<1>6. jobEffects[j] + 1 \in Nat /\ jobEffects[j] + 1 >= 1
  BY <1>1
<1>7. jobEffects[j] + 1 <= jobUnsure[j] + jobStalls[j] + 1
  BY <1>1, <1>5
<1>. HIDE DEF r
<1>. QED  BY <1>1, <1>2, <1>3, <1>4, <1>6, <1>7, QueuesOneJobMoves

(* processEmailJob sends the mail.                                         *)
LEMMA QueuesSendEmailStep == ASSUME QueuesIInv, NEW j \in Queues!Jobs, Queues!SendEmail(j)
                             PROVE QueuesIInv'
BY QueuesPerforms DEF Queues!SendEmail

(* processNotificationJob stores the notification.                         *)
LEMMA QueuesNotifyStep == ASSUME QueuesIInv, NEW j \in Queues!Jobs, Queues!Notify(j)
                          PROVE QueuesIInv'
<1>1. jobJobs[j].valid
  BY DEF QueuesIInv, QueuesEffects, QueuesSound, Queues!Notify
<1>. QED  BY <1>1, QueuesPerforms DEF Queues!Notify

(* An attempt that fails, having sent `sent` mails reported as an error.   *)
LEMMA QueuesAttemptFails ==
    ASSUME QueuesIInv, NEW j \in Queues!Jobs, NEW sent \in Nat,
           jobJobs[j].state = "active", Queues!Failed(j),
           sent = 0 \/ jobJobs[j].valid,
           jobEffects' = [jobEffects EXCEPT ![j] = @ + sent],
           jobUnsure' = [jobUnsure EXCEPT ![j] = @ + sent],
           UNCHANGED <<jobAdded, jobStalls, jobHandlers, jobEvents, jobCut, jobWanted>>
    PROVE  QueuesIInv'
<1>. DEFINE s == IF jobJobs[j].tries + 1 < Attempts THEN "delayed" ELSE "failed"
            r == [jobJobs[j] EXCEPT !.tries = @ + 1, !.state = s]
<1>0. s \in QueuesStates /\ s \notin {"none", "performed", "completed"}
  BY DEF QueuesStates, Queues!Unfinished
<1>. HIDE DEF s
<1>1. jobJobs[j] \in QueuesRecords /\ jobEffects[j] \in Nat /\ jobUnsure[j] \in Nat
        /\ jobStalls[j] \in Nat
  BY DEF QueuesIInv, QueuesShapes
<1>2. r \in QueuesRecords /\ r.state = s /\ r.queue = jobJobs[j].queue
        /\ r.valid = jobJobs[j].valid
  <2>1. jobJobs[j].tries + 1 \in Nat
    BY <1>1 DEF QueuesRecords
  <2>. QED  BY <1>0, <1>1, <2>1 DEF QueuesRecords
<1>3. jobJobs' = [jobJobs EXCEPT ![j] = r]
  BY DEF Queues!Failed, s
<1>4. jobEffects[j] <= jobUnsure[j] + jobStalls[j] /\ (~jobJobs[j].valid =>
          jobEffects[j] = 0)
  BY <1>1 DEF QueuesIInv, QueuesEffects, QueuesSound
<1>5. ~r.valid => jobEffects[j] + sent = 0
  BY <1>1, <1>2, <1>4
<1>6. jobEffects[j] + sent \in Nat /\ jobUnsure[j] + sent \in Nat
      /\ jobEffects[j] + sent <= jobUnsure[j] + sent + jobStalls[j] + 0
  BY <1>1, <1>4
<1>. HIDE DEF r
<1>. QED  BY <1>0, <1>1, <1>2, <1>3, <1>5, <1>6, QueuesOneJobMoves

(* A mail with no recipient fails at every attempt.                        *)
LEMMA QueuesRejectEmailStep == ASSUME QueuesIInv, NEW j \in Queues!Jobs,
      Queues!RejectEmail(j) PROVE QueuesIInv'
<1>1. jobEffects' = [jobEffects EXCEPT ![j] = @ + 0]
        /\ jobUnsure' = [jobUnsure EXCEPT ![j] = @ + 0]
  BY DEF QueuesIInv, QueuesShapes, Queues!RejectEmail
<1>. QED  BY <1>1, QueuesAttemptFails DEF Queues!RejectEmail

(* sendMail raises, with or without the mail gone.                         *)
LEMMA QueuesMailErrorStep == ASSUME QueuesIInv, NEW j \in Queues!Jobs, Queues!MailError(j)
                             PROVE QueuesIInv'
<1>1. PICK sent \in {0, 1} : /\ jobEffects' = [jobEffects EXCEPT ![j] = @ + sent]
                             /\ jobUnsure' = [jobUnsure EXCEPT ![j] = @ + sent]
  BY DEF Queues!MailError
<1>. QED  BY <1>1, QueuesAttemptFails DEF Queues!MailError

-----------------------------------------------------------------------------
(* A listener that is put in, with what it has to add.                     *)
LEMMA QueuesPublished ==
    ASSUME QueuesIInv, NEW todo \in {QueuesMailFirst, QueuesNotificationOnly},
           jobEvents' = jobEvents + 1,
           jobHandlers' = jobHandlers \cup {[event |-> jobEvents + 1, todo |-> todo]},
           jobWanted' = jobWanted + 1 + IF todo = QueuesMailFirst THEN 1 ELSE 0,
           UNCHANGED <<jobJobs, jobAdded, jobEffects, jobUnsure, jobStalls, jobCut>>
    PROVE  QueuesIInv'
<1>. DEFINE h == [event |-> jobEvents + 1, todo |-> todo]
<1>0. h.event = jobEvents + 1 /\ h.todo = todo /\ jobEvents \in Nat
  BY DEF QueuesIInv, QueuesPromises
<1>1. h \notin jobHandlers
  BY <1>0 DEF QueuesIInv, QueuesPromises
<1>2. IsFiniteSet(jobHandlers) /\ IsFiniteSet(QueuesMailsFirst)
  BY FS_Subset DEF QueuesIInv, QueuesPromises, QueuesMailsFirst
<1>3. IsFiniteSet(jobHandlers') /\ Cardinality(jobHandlers') = Cardinality(jobHandlers) + 1
  BY <1>1, <1>2, FS_AddElement
<1>4. h \in [event : 1 .. jobEvents', todo : {QueuesMailFirst, QueuesNotificationOnly}]
  BY <1>0
<1>5. Cardinality(QueuesMailsFirst') = Cardinality(QueuesMailsFirst) + IF todo = QueuesMailFirst THEN 1 ELSE 0
  <2>1. CASE todo = QueuesMailFirst
    <3>1. QueuesMailsFirst' = QueuesMailsFirst \cup {h} /\ h \notin QueuesMailsFirst
      BY <1>0, <1>1, <2>1 DEF QueuesMailsFirst
    <3>. QED  BY <3>1, <1>2, <2>1, FS_AddElement
  <2>2. CASE todo # QueuesMailFirst
    <3>1. QueuesMailsFirst' = QueuesMailsFirst
      BY <1>0, <2>2 DEF QueuesMailsFirst
    <3>. QED  BY <3>1, <1>2, <2>2, FS_CardinalityType
  <2>. QED  BY <2>1, <2>2
<1>6. Cardinality(jobHandlers) \in Nat /\ Cardinality(QueuesMailsFirst) \in Nat
  BY <1>2, FS_CardinalityType
<1>7. jobHandlers' \subseteq [event : 1 .. jobEvents',
          todo : {QueuesMailFirst, QueuesNotificationOnly}]
  BY <1>0, <1>4 DEF QueuesIInv, QueuesPromises
<1>8. \A g, x \in jobHandlers' : g.event = x.event => g = x
  BY <1>0 DEF QueuesIInv, QueuesPromises
<1>9. QueuesPromises'
  BY <1>0, <1>3, <1>5, <1>6, <1>7, <1>8 DEF QueuesIInv, QueuesPromises, QueuesShapes
<1>. QED  BY <1>9 DEF QueuesIInv, QueuesShapes, QueuesEffects, QueuesSound

(* onUserRegistered is called.                                             *)
LEMMA QueuesPublishRegisteredStep == ASSUME QueuesIInv, Queues!PublishRegistered
                                     PROVE QueuesIInv'
<1>1. CASE UNCHANGED <<jobHandlers, jobWanted>>
  BY <1>1 DEF Queues!PublishRegistered, QueuesIInv, QueuesShapes, QueuesEffects,
          QueuesSound, QueuesPromises, QueuesMailsFirst
<1>2. CASE /\ jobHandlers' = jobHandlers \cup {[event |-> jobEvents + 1,
                  todo |-> <<"email", "notification">>]}
           /\ jobWanted' = jobWanted + 2
  <2>1. jobWanted' = jobWanted + 1 + 1
    BY <1>2 DEF QueuesIInv, QueuesPromises
  <2>. QED  BY <1>2, <2>1, QueuesPublished DEF Queues!PublishRegistered, QueuesMailFirst
<1>. QED  BY <1>1, <1>2 DEF Queues!PublishRegistered

(* onUserLogin is called.                                                  *)
LEMMA QueuesPublishLoginStep == ASSUME QueuesIInv, Queues!PublishLogin PROVE QueuesIInv'
<1>1. jobWanted' = jobWanted + 1 + 0
  BY DEF QueuesIInv, QueuesPromises, Queues!PublishLogin
<1>. QED  BY <1>1, QueuesPublished, QueuesTodosDiffer
   DEF Queues!PublishLogin, QueuesNotificationOnly

(* queue.add takes the next number, and what the events asked for and what *)
(* is left of it change together.                                          *)
LEMMA QueuesAddedKeeps ==
    ASSUME QueuesIInv, MaxJobs \in Nat, NEW valid \in BOOLEAN,
           NEW queue \in {"email", "notification"},
           queue = "notification" => valid, Queues!Added(queue, valid)
    PROVE  QueuesShapes' /\ QueuesEffects' /\ jobAdded' = jobAdded + 1
<1>. DEFINE r == [queue |-> queue, state |-> "waiting", tries |-> 0, valid |-> valid]
<1>1. jobAdded \in Nat /\ jobAdded + 1 \in Queues!Jobs
  BY DEF QueuesIInv, QueuesShapes, Queues!Jobs, Queues!Added
<1>. PICK n \in Queues!Jobs : n = jobAdded + 1
  BY <1>1
<1>2. r \in QueuesRecords /\ r.queue = queue /\ r.state = "waiting" /\ r.valid = valid
  BY DEF QueuesRecords, QueuesStates, Queues!Unfinished
<1>3. jobJobs' = [jobJobs EXCEPT ![n] = r] /\ jobAdded' = n
      /\ jobEffects' = jobEffects /\ jobUnsure' = jobUnsure /\ jobStalls' = jobStalls
  BY DEF Queues!Added
<1>4. jobJobs[n].state = "none" /\ jobEffects[n] = 0
  BY <1>1 DEF QueuesIInv, QueuesShapes, QueuesEffects, QueuesSound
<1>. HIDE DEF r
<1>5. jobJobs' \in [Queues!Jobs -> QueuesRecords] /\ jobJobs'[n] = r
      /\ \A x \in Queues!Jobs : x # n => jobJobs'[x] = jobJobs[x]
  BY <1>2, <1>3 DEF QueuesIInv, QueuesShapes
<1>6. ASSUME NEW x \in Queues!Jobs, x > jobAdded' PROVE jobJobs'[x].state = "none"
  <2>1. x # n /\ x > jobAdded
    BY <1>1, <1>3, <1>6 DEF Queues!Jobs
  <2>. QED  BY <1>5, <2>1 DEF QueuesIInv, QueuesShapes
<1>7. QueuesShapes'
  BY <1>1, <1>3, <1>5, <1>6 DEF QueuesIInv, QueuesShapes
<1>8. QueuesSound(n)'
  <2>1. queue = "notification" => r.valid
    BY <1>2
  <2>2. jobEffects[n] <= jobUnsure[n] + jobStalls[n]
    BY <1>4 DEF QueuesIInv, QueuesShapes
  <2>3. jobJobs'[n].queue = queue /\ jobJobs'[n].state = "waiting" /\ jobEffects'[n] = 0
    BY <1>2, <1>3, <1>4, <1>5
  <2>. QED  BY <1>2, <1>3, <1>4, <1>5, <2>1, <2>2, <2>3
     DEF QueuesIInv, QueuesShapes, QueuesSound
<1>9. ASSUME NEW x \in Queues!Jobs, x # n PROVE QueuesSound(x)'
  BY <1>3, <1>5, <1>9 DEF QueuesIInv, QueuesEffects, QueuesSound
<1>. QED  BY <1>1, <1>3, <1>7, <1>8, <1>9 DEF QueuesEffects

(* The mail is added and the listener goes on to its notification.         *)
LEMMA QueuesEnqueueEmailStep ==
    ASSUME QueuesIInv, MaxJobs \in Nat, NEW h \in jobHandlers, Queues!EnqueueEmail(h)
    PROVE QueuesIInv'
<1>. DEFINE g == [h EXCEPT !.todo = QueuesNotificationOnly]
<1>1. PICK valid \in BOOLEAN : Queues!Added("email", valid)
  BY DEF Queues!EnqueueEmail
<1>2. QueuesShapes' /\ QueuesEffects' /\ jobAdded' = jobAdded + 1
  BY <1>1, QueuesAddedKeeps
<1>3. h.todo = QueuesMailFirst /\ jobHandlers' = (jobHandlers \ {h}) \cup {g}
  BY DEF Queues!EnqueueEmail, QueuesMailFirst, QueuesNotificationOnly
<1>4. h \in [event : 1 .. jobEvents, todo : {QueuesMailFirst, QueuesNotificationOnly}]
  BY DEF QueuesIInv, QueuesPromises
<1>5. g \in [event : 1 .. jobEvents, todo : {QueuesMailFirst, QueuesNotificationOnly}]
      /\ g.event = h.event /\ g.todo = QueuesNotificationOnly
  BY <1>4
<1>6. g \notin jobHandlers
  BY <1>3, <1>5, QueuesTodosDiffer DEF QueuesIInv, QueuesPromises
<1>. HIDE DEF g
<1>7. IsFiniteSet(jobHandlers) /\ IsFiniteSet(QueuesMailsFirst)
  BY FS_Subset DEF QueuesIInv, QueuesPromises, QueuesMailsFirst
<1>8. IsFiniteSet(jobHandlers \ {h})
        /\ Cardinality(jobHandlers \ {h}) = Cardinality(jobHandlers) - 1
  BY <1>7, FS_RemoveElement
<1>9. IsFiniteSet(jobHandlers')
        /\ Cardinality(jobHandlers') = Cardinality(jobHandlers \ {h}) + 1
  BY <1>3, <1>6, <1>8, FS_AddElement
<1>10. QueuesMailsFirst' = QueuesMailsFirst \ {h} /\ h \in QueuesMailsFirst
  BY <1>3, <1>5, QueuesTodosDiffer DEF QueuesMailsFirst
<1>11. Cardinality(QueuesMailsFirst') = Cardinality(QueuesMailsFirst) - 1
  BY <1>7, <1>10, FS_RemoveElement
<1>12. Cardinality(jobHandlers) \in Nat /\ Cardinality(QueuesMailsFirst) \in Nat
  BY <1>7, FS_CardinalityType
<1>13. UNCHANGED <<jobEvents, jobCut, jobWanted>>
  BY <1>1 DEF Queues!Added
<1>14. jobHandlers' \subseteq [event : 1 .. jobEvents',
           todo : {QueuesMailFirst, QueuesNotificationOnly}]
  BY <1>3, <1>5, <1>13 DEF QueuesIInv, QueuesPromises
<1>15. \A x, y \in jobHandlers' : x.event = y.event => x = y
  BY <1>3, <1>5 DEF QueuesIInv, QueuesPromises
<1>16. QueuesPromises'
  BY <1>2, <1>8, <1>9, <1>11, <1>12, <1>13, <1>14, <1>15
     DEF QueuesIInv, QueuesPromises, QueuesShapes
<1>. QED  BY <1>2, <1>16 DEF QueuesIInv

(* A listener leaves: how many are left, and how many with a mail.         *)
LEMMA QueuesListenerLeaves ==
    ASSUME QueuesIInv, NEW h \in jobHandlers, h.todo = QueuesNotificationOnly,
           jobHandlers' = jobHandlers \ {h}
    PROVE  /\ IsFiniteSet(jobHandlers')
           /\ Cardinality(jobHandlers') = Cardinality(jobHandlers) - 1
           /\ QueuesMailsFirst' = QueuesMailsFirst
           /\ Cardinality(jobHandlers) \in Nat /\ Cardinality(QueuesMailsFirst) \in Nat
<1>1. IsFiniteSet(jobHandlers) /\ IsFiniteSet(QueuesMailsFirst)
  BY FS_Subset DEF QueuesIInv, QueuesPromises, QueuesMailsFirst
<1>2. QueuesMailsFirst' = QueuesMailsFirst
  BY QueuesTodosDiffer DEF QueuesMailsFirst
<1>. QED  BY <1>1, <1>2, FS_RemoveElement, FS_CardinalityType

(* The notification is added and the listener is done.                     *)
LEMMA QueuesEnqueueNotificationStep ==
    ASSUME QueuesIInv, MaxJobs \in Nat, NEW h \in jobHandlers,
           Queues!EnqueueNotification(h) PROVE QueuesIInv'
<1>1. QueuesShapes' /\ QueuesEffects' /\ jobAdded' = jobAdded + 1
  BY QueuesAddedKeeps DEF Queues!EnqueueNotification
<1>2. h.todo = QueuesNotificationOnly /\ jobHandlers' = jobHandlers \ {h}
  BY DEF Queues!EnqueueNotification, QueuesNotificationOnly
<1>3. UNCHANGED <<jobEvents, jobCut, jobWanted>>
  BY DEF Queues!EnqueueNotification, Queues!Added
<1>4. /\ IsFiniteSet(jobHandlers')
      /\ Cardinality(jobHandlers') = Cardinality(jobHandlers) - 1
      /\ QueuesMailsFirst' = QueuesMailsFirst
      /\ Cardinality(jobHandlers) \in Nat /\ Cardinality(QueuesMailsFirst) \in Nat
  BY <1>2, QueuesListenerLeaves
<1>5. jobCut = 0 =>
        jobWanted = jobAdded + 1 + Cardinality(jobHandlers') + Cardinality(QueuesMailsFirst')
  BY <1>4 DEF QueuesIInv, QueuesPromises, QueuesShapes
<1>6. QueuesPromises'
  BY <1>1, <1>2, <1>3, <1>4, <1>5 DEF QueuesIInv, QueuesPromises
<1>. QED  BY <1>1, <1>6 DEF QueuesIInv

(* queue.add fails: the listener is cut short.                             *)
LEMMA QueuesEnqueueFailsStep ==
    ASSUME QueuesIInv, NEW h \in jobHandlers, Queues!EnqueueFails(h) PROVE QueuesIInv'
<1>1. IsFiniteSet(jobHandlers')
  BY FS_RemoveElement DEF Queues!EnqueueFails, QueuesIInv, QueuesPromises
<1>2. QueuesPromises'
  BY <1>1 DEF Queues!EnqueueFails, QueuesIInv, QueuesPromises
<1>. QED  BY <1>2
   DEF Queues!EnqueueFails, QueuesIInv, QueuesShapes, QueuesEffects, QueuesSound

(* A crash ends the listeners; a job a worker held waits again or failed,  *)
(* and one more of its effects is owed to a dead worker.                   *)
LEMMA QueuesCrashStep == ASSUME QueuesIInv, Queues!Crash PROVE QueuesIInv'
<1>. DEFINE held == {j \in Queues!Jobs : jobJobs[j].state \in {"active", "performed"}}
<1>1. ASSUME NEW j \in Queues!Jobs, j \in held
      PROVE  /\ jobJobs'[j] \in QueuesRecords
             /\ jobJobs'[j].state \in {"waiting", "failed"} /\ jobJobs[j].state # "none"
             /\ jobJobs'[j].queue = jobJobs[j].queue /\ jobJobs'[j].valid = jobJobs[j].valid
             /\ jobStalls'[j] = jobStalls[j] + 1
  <2>. DEFINE s == IF jobStalls[j] = 0 THEN "waiting" ELSE "failed"
  <2>1. s \in {"waiting", "failed"} /\ s \in QueuesStates
    BY DEF QueuesStates, Queues!Unfinished
  <2>. HIDE DEF s
  <2>2. jobJobs'[j] = [jobJobs[j] EXCEPT !.state = s] /\ jobStalls'[j] = jobStalls[j] + 1
    BY <1>1 DEF Queues!Crash, s
  <2>3. jobJobs[j] \in QueuesRecords /\ jobJobs[j].state # "none"
    BY <1>1 DEF QueuesIInv, QueuesShapes
  <2>. QED  BY <2>1, <2>2, <2>3 DEF QueuesRecords
<1>2. ASSUME NEW j \in Queues!Jobs, j \notin held
      PROVE  jobJobs'[j] = jobJobs[j] /\ jobStalls'[j] = jobStalls[j]
  BY <1>2 DEF Queues!Crash, QueuesIInv, QueuesShapes
<1>. HIDE DEF held
<1>3. QueuesShapes'
  <2>1. jobJobs' \in [Queues!Jobs -> QueuesRecords]
    <3>1. jobJobs' = [j \in Queues!Jobs |-> jobJobs'[j]]
      BY DEF Queues!Crash
    <3>2. \A j \in Queues!Jobs : jobJobs'[j] \in QueuesRecords
      BY <1>1, <1>2 DEF QueuesIInv, QueuesShapes
    <3>. QED  BY <3>1, <3>2
  <2>2. jobStalls' \in [Queues!Jobs -> Nat]
    BY DEF Queues!Crash, QueuesIInv, QueuesShapes
  <2>3. ASSUME NEW j \in Queues!Jobs, j > jobAdded PROVE jobJobs'[j].state = "none"
    BY <1>1, <1>2, <2>3 DEF QueuesIInv, QueuesShapes
  <2>. QED  BY <2>1, <2>2, <2>3 DEF Queues!Crash, QueuesIInv, QueuesShapes
<1>4. QueuesEffects'
  <2>. SUFFICES ASSUME NEW j \in Queues!Jobs PROVE QueuesSound(j)'
    BY DEF QueuesEffects
  <2>1. jobEffects[j] \in Nat /\ jobUnsure[j] \in Nat /\ jobStalls[j] \in Nat
    BY DEF QueuesIInv, QueuesShapes
  <2>2. UNCHANGED <<jobEffects, jobUnsure>>
    BY DEF Queues!Crash
  <2>3. QueuesSound(j)
    BY DEF QueuesIInv, QueuesEffects
  <2>4. CASE j \in held
    <3>1. jobEffects[j] <= jobUnsure[j] + jobStalls[j] + 1
      BY <2>1, <2>3 DEF QueuesSound
    <3>. QED  BY <1>1, <2>1, <2>2, <2>3, <2>4, <3>1 DEF QueuesSound
  <2>5. CASE j \notin held
    BY <1>2, <2>2, <2>3, <2>5 DEF QueuesSound
  <2>. QED  BY <2>4, <2>5
<1>5. QueuesPromises'
  <2>1. IsFiniteSet(jobHandlers) /\ Cardinality(jobHandlers) \in Nat /\ jobCut \in Nat
    BY FS_CardinalityType DEF QueuesIInv, QueuesPromises
  <2>2. jobHandlers' = {} /\ jobCut' = jobCut + Cardinality(jobHandlers)
        /\ UNCHANGED <<jobEvents, jobWanted, jobAdded>>
    BY QueuesSameSize DEF Queues!Crash
  <2>3. QueuesMailsFirst' = {} /\ IsFiniteSet({}) /\ Cardinality({}) = 0
    BY <2>2, FS_EmptySet DEF QueuesMailsFirst
  <2>4. CASE jobCut' = 0
    <3>1. jobCut = 0 /\ Cardinality(jobHandlers) = 0
      BY <2>1, <2>2, <2>4
    <3>2. jobHandlers = {}
      BY <2>1, <3>1, FS_EmptySet
    <3>3. QueuesMailsFirst = {}
      BY <3>2 DEF QueuesMailsFirst
    <3>. QED  BY <2>1, <2>2, <2>3, <3>1, <3>2, <3>3 DEF QueuesIInv, QueuesPromises
  <2>5. CASE jobCut' # 0
    BY <2>1, <2>2, <2>3, <2>5 DEF QueuesIInv, QueuesPromises
  <2>. QED  BY <2>4, <2>5
<1>. QED  BY <1>3, <1>4, <1>5 DEF QueuesIInv

-----------------------------------------------------------------------------
(* Every step keeps the invariant, whichever it is.                        *)
LEMMA QueuesNextStep == ASSUME MaxJobs \in Nat
                        PROVE QueuesIInv /\ [Queues!Next]_(Queues!vars) => QueuesIInv'
<1>. SUFFICES ASSUME QueuesIInv, [Queues!Next]_(Queues!vars) PROVE QueuesIInv'
  OBVIOUS
<1>1. CASE UNCHANGED Queues!vars
  BY <1>1 DEF QueuesIInv, QueuesShapes, QueuesEffects, QueuesSound, QueuesPromises,
          QueuesMailsFirst, Queues!vars
<1>2. ASSUME NEW h \in jobHandlers, Queues!EnqueueEmail(h) \/ Queues!EnqueueNotification(h)
               \/ Queues!EnqueueFails(h)
      PROVE  QueuesIInv'
  BY <1>2, QueuesEnqueueEmailStep, QueuesEnqueueNotificationStep, QueuesEnqueueFailsStep
<1>3. ASSUME NEW j \in Queues!Jobs, \/ Queues!Take(j) \/ Queues!SendEmail(j)
               \/ Queues!RejectEmail(j) \/ Queues!MailError(j)
                                    \/ Queues!Notify(j) \/ Queues!Complete(j)
                                         \/ Queues!BackoffEnds(j)
      PROVE  QueuesIInv'
  BY <1>3, QueuesTakeStep, QueuesSendEmailStep, QueuesRejectEmailStep, QueuesMailErrorStep,
     QueuesNotifyStep, QueuesCompleteStep,
     QueuesBackoffEndsStep
<1>. QED
  BY <1>1, <1>2, <1>3, QueuesPublishRegisteredStep, QueuesPublishLoginStep, QueuesCrashStep
     DEF Queues!Next

(* Mails and notifications are made at least once for a completed job and  *)
(* more often only after a fault, and an event becomes all of its jobs     *)
(* unless a listener was cut short (user.events.ts, email.job.ts,          *)
(* notification.job.ts), whatever the bounds.                              *)
THEOREM JobsAreDelivered == ASSUME MaxJobs \in Nat
                                  PROVE Queues!Spec => []Queues!JobsDelivered
<1>1. ASSUME QueuesIInv PROVE Queues!JobsDelivered
  <2>1. Queues!DeliveredOnceWithoutFaults
    BY <1>1 DEF QueuesIInv, QueuesShapes, QueuesEffects, QueuesSound,
            Queues!DeliveredOnceWithoutFaults
  <2>2. Queues!EventsBecomeJobs
    <3>. SUFFICES ASSUME jobHandlers = {}, jobCut = 0 PROVE jobAdded = jobWanted
      BY DEF Queues!EventsBecomeJobs
    <3>1. QueuesMailsFirst = {} /\ Cardinality({}) = 0
      BY FS_EmptySet DEF QueuesMailsFirst
    <3>. QED  BY <1>1, <3>1 DEF QueuesIInv, QueuesShapes, QueuesPromises
  <2>. QED  BY <2>1, <2>2 DEF Queues!JobsDelivered
<1>. QED  BY QueuesInitStep, QueuesNextStep, <1>1, PTL DEF Queues!Spec

-----------------------------------------------------------------------------
(***************************************************************************)
(* WritesReachTheCaches of ResponseCache and its types, for any number of  *)
(* requests at a time and of writes.                                       *)
(*                                                                         *)
(* The service's cache is cleared with the responses or before them, so    *)
(* its floor is the higher one (CacheFloors); what a read has that is not  *)
(* late reaches it, wherever it was read (CacheHeld).  That no resource    *)
(* is written more often than it may be rests on a tally: the writes begun *)
(* are those in the database and those still on their way to it.           *)
(***************************************************************************)

CacheResources == PageJoins[pageView]
CacheRequests ==
    [op : Caches!Reads \cup Caches!Writes \cup {"idle"}, on : CacheResources \cup {"none"},
     clears : SUBSET Caches!Caches, page : Caches!Pages, late : BOOLEAN]

(* The writes that have begun and are not in the database.                 *)
CacheWriting == {s \in Slots : pageRequest[s].op = "write"}

CacheShapes ==
    /\ pageView \in PageViews /\ pagePrefixed \in BOOLEAN
    /\ pageUp \in BOOLEAN /\ pageLost \in BOOLEAN
    /\ pageVersion \in [CacheResources -> 0 .. MaxWrites]
    /\ pageCache \in [Caches!Caches -> Caches!Pages]
    /\ pageLate \in [Caches!Caches -> BOOLEAN]
    /\ pageFloor \in [Caches!Caches -> 0 .. MaxWrites]
    /\ pageRequest \in [Slots -> CacheRequests]
    /\ \A s \in Slots : pageRequest[s].op = "write" => pageRequest[s].on \in CacheResources
CacheTally ==
    /\ pageWritten \in 0 .. MaxWrites /\ IsFiniteSet(CacheWriting)
    /\ \A r \in CacheResources : pageVersion[r] + Cardinality(CacheWriting) =< pageWritten
CacheFloors ==
    /\ pageFloor["response"] =< pageFloor["service"]
    /\ pageFloor["service"] =< pageVersion["users"]

(* A page that is not late has the first n writes of its resource.         *)
CacheReaches(page, late, n) == page # Caches!NoPage /\ ~late => page["users"] >= n

CacheHeld ==
    /\ \A s \in Slots : Caches!Filling(pageRequest[s]) =>
          CacheReaches(pageRequest[s].page, pageRequest[s].late, pageFloor["service"])
    /\ \A c \in Caches!Caches : CacheReaches(pageCache[c], pageLate[c], pageFloor[c])

CacheIInv == CacheShapes /\ CacheTally /\ CacheFloors /\ CacheHeld

-----------------------------------------------------------------------------
(* Both pages are cleared by the writes of users and show users.           *)
LEMMA CacheOwner ==
    ASSUME CacheShapes
    PROVE  /\ [v \in PageViews |-> "users"][pageView] = "users"
           /\ "users" \in CacheResources
           /\ pageVersion["users"] \in 0 .. MaxWrites
           /\ pageFloor["service"] \in 0 .. MaxWrites
           /\ pageFloor["response"] \in 0 .. MaxWrites
BY DEF CacheShapes, PageViews, CacheResources, PageJoins, Caches!Caches

(* What a page shows of the users is a number of writes.                   *)
LEMMA CachePageTyped ==
    ASSUME CacheShapes, NEW p \in Caches!Pages, p # Caches!NoPage
    PROVE  p["users"] \in 0 .. MaxWrites
BY CacheOwner DEF Caches!Pages, CacheResources

(* What is in the database is a page, and no page is one.                  *)
LEMMA CachePagesAre ==
    ASSUME CacheShapes
    PROVE  pageVersion \in Caches!Pages /\ Caches!NoPage \in Caches!Pages
BY DEF CacheShapes, Caches!Pages, CacheResources

(* An empty slot holds a request like any other.                           *)
LEMMA CacheIdle ==
    ASSUME CacheShapes
    PROVE  /\ Caches!Idle \in CacheRequests /\ Caches!Idle.op = "idle"
           /\ ~Caches!Filling(Caches!Idle)
BY CachePagesAre DEF Caches!Idle, CacheRequests, Caches!Filling

(* The followed page stays, and with it what requests and pages are.       *)
LEMMA CacheSame ==
    ASSUME pageView' = pageView
    PROVE  /\ CacheResources' = CacheResources /\ Caches!Pages' = Caches!Pages
           /\ CacheRequests' = CacheRequests
BY DEF CacheResources, Caches!Pages, CacheRequests

(* One request moves, and is no write on its way to the database.          *)
LEMMA CacheMoves ==
    ASSUME CacheIInv, NEW s \in Slots, NEW r \in CacheRequests,
           pageRequest[s].op # "write", r.op # "write",
           Caches!Filling(r) => CacheReaches(r.page, r.late, pageFloor["service"]),
           pageRequest' = [pageRequest EXCEPT ![s] = r],
           UNCHANGED <<pageView, pagePrefixed, pageUp, pageLost, pageVersion, pageWritten,
           pageFloor>>,
           pageCache' \in [Caches!Caches -> Caches!Pages],
           pageLate' \in [Caches!Caches -> BOOLEAN],
           \A c \in Caches!Caches : CacheReaches(pageCache'[c], pageLate'[c], pageFloor[c])
    PROVE  CacheIInv'
<1>1. pageRequest'[s] = r /\ \A x \in Slots : x # s => pageRequest'[x] = pageRequest[x]
  BY DEF CacheIInv, CacheShapes
<1>2. CacheShapes'
  BY <1>1, CacheSame DEF CacheIInv, CacheShapes
<1>3. CacheWriting' = CacheWriting
  BY <1>1 DEF CacheWriting
<1>4. CacheTally'
  BY <1>3, CacheSame DEF CacheIInv, CacheTally
<1>5. CacheFloors'
  BY DEF CacheIInv, CacheFloors
<1>6. CacheHeld'
  BY <1>1, Zenon DEF CacheIInv, CacheHeld
<1>. QED  BY <1>2, <1>4, <1>5, <1>6 DEF CacheIInv

(* The caches are left alone.                                              *)
LEMMA CacheUntouched ==
    ASSUME CacheIInv, UNCHANGED <<pageCache, pageLate>>
    PROVE  /\ pageCache' \in [Caches!Caches -> Caches!Pages]
           /\ pageLate' \in [Caches!Caches -> BOOLEAN]
           /\ \A c \in Caches!Caches : CacheReaches(pageCache'[c], pageLate'[c], pageFloor[c])
BY DEF CacheIInv, CacheShapes, CacheHeld

(* A GET begins.                                                           *)
LEMMA CacheStartReadStep ==
    ASSUME CacheIInv, NEW s \in Slots, Caches!StartRead(s)
    PROVE  CacheIInv'
<1>. DEFINE r == [pageRequest[s] EXCEPT !.op = "lookup"]
<1>1. /\ r \in CacheRequests /\ r.op = "lookup" /\ pageRequest[s].op = "idle"
      /\ ~Caches!Filling(r)
  BY DEF CacheIInv, CacheShapes, CacheRequests, Caches!Reads, Caches!StartRead, Caches!Busy,
     Caches!Filling
<1>2. pageRequest' = [pageRequest EXCEPT ![s] = r]
  BY DEF Caches!StartRead, Caches!Goto
<1>. HIDE DEF r
<1>. QED
  BY <1>1, <1>2, CacheMoves, CacheUntouched
     DEF Caches!StartRead, Caches!connection, Caches!stored

(* It finds the page in the service's cache, or does not.                  *)
LEMMA CacheLookUpStep ==
    ASSUME CacheIInv, NEW s \in Slots, Caches!LookUpService(s)
    PROVE  CacheIInv'
<1>. DEFINE r ==
    IF pageUp /\ pageCache["service"] # Caches!NoPage
    THEN [pageRequest[s] EXCEPT !.op = "fillResponse", !.page = pageCache["service"],
                                !.late = pageLate["service"]]
    ELSE [pageRequest[s] EXCEPT !.op = "compute"]
<1>1. /\ pageRequest[s] \in CacheRequests /\ pageRequest[s].op = "lookup"
      /\ pageCache["service"] \in Caches!Pages /\ pageLate["service"] \in BOOLEAN
      /\ CacheReaches(pageCache["service"], pageLate["service"], pageFloor["service"])
  BY DEF CacheIInv, CacheShapes, CacheHeld, Caches!LookUpService, Caches!At, Caches!Caches
<1>2. /\ r \in CacheRequests /\ r.op # "write"
      /\ Caches!Filling(r) => r.page = pageCache["service"] /\ r.late = pageLate["service"]
  BY <1>1 DEF CacheRequests, Caches!Reads, Caches!Filling
<1>3. pageRequest' = [pageRequest EXCEPT ![s] = r]
  BY DEF Caches!LookUpService
<1>. HIDE DEF r
<1>4. Caches!Filling(r) => CacheReaches(r.page, r.late, pageFloor["service"])
  BY <1>1, <1>2
<1>. QED
  BY <1>1, <1>2, <1>3, <1>4, CacheMoves, CacheUntouched
     DEF Caches!LookUpService, Caches!connection, Caches!stored

(* The factory reads the database, which has all the floor promises.       *)
LEMMA CacheComputeStep ==
    ASSUME CacheIInv, NEW s \in Slots, Caches!Compute(s)
    PROVE  CacheIInv'
<1>. DEFINE r == [pageRequest[s] EXCEPT !.op = "fillService", !.page = pageVersion]
<1>1. pageRequest[s] \in CacheRequests /\ pageRequest[s].op = "compute"
  BY DEF CacheIInv, CacheShapes, Caches!Compute, Caches!At
<1>2. r \in CacheRequests /\ r.op = "fillService" /\ r.page = pageVersion
  BY <1>1, CachePagesAre DEF CacheIInv, CacheRequests, Caches!Reads
<1>3. pageRequest' = [pageRequest EXCEPT ![s] = r]
  BY DEF Caches!Compute
<1>. HIDE DEF r
<1>4. CacheReaches(r.page, r.late, pageFloor["service"])
  BY <1>2, CacheOwner DEF CacheIInv, CacheFloors, CacheReaches
<1>. QED
  BY <1>1, <1>2, <1>3, <1>4, CacheMoves, CacheUntouched
     DEF Caches!Compute, Caches!connection, Caches!stored

(* A read keeps its page in a cache.                                       *)
LEMMA CacheStores ==
    ASSUME CacheIInv, NEW s \in Slots, NEW c \in Caches!Caches,
           Caches!Filling(pageRequest[s]), Caches!Store(s, c)
    PROVE  /\ pageCache' \in [Caches!Caches -> Caches!Pages]
           /\ pageLate' \in [Caches!Caches -> BOOLEAN]
           /\ \A d \in Caches!Caches : CacheReaches(pageCache'[d], pageLate'[d], pageFloor[d])
<1>. DEFINE r == pageRequest[s]
<1>1. /\ r.page \in Caches!Pages /\ r.late \in BOOLEAN
      /\ CacheReaches(r.page, r.late, pageFloor["service"])
  BY DEF CacheIInv, CacheShapes, CacheRequests, CacheHeld
<1>2. CASE ~pageUp
  BY <1>2, CacheUntouched DEF Caches!Store
<1>3. CASE pageUp
  <2>1. /\ pageCache' = [pageCache EXCEPT ![c] = r.page]
        /\ pageLate' = [pageLate EXCEPT ![c] = r.late]
    BY <1>3 DEF Caches!Store
  <2>2. /\ pageCache' \in [Caches!Caches -> Caches!Pages]
        /\ pageLate' \in [Caches!Caches -> BOOLEAN]
        /\ pageCache'[c] = r.page /\ pageLate'[c] = r.late
        /\ \A d \in Caches!Caches :
              d # c => pageCache'[d] = pageCache[d] /\ pageLate'[d] = pageLate[d]
    BY <1>1, <2>1 DEF CacheIInv, CacheShapes
  <2>3. CacheReaches(r.page, r.late, pageFloor[c])
    <3>1. pageFloor[c] =< pageFloor["service"] /\ CacheShapes
      BY CacheOwner DEF CacheIInv, CacheFloors, Caches!Caches
    <3>2. pageFloor[c] \in 0 .. MaxWrites
      BY <3>1 DEF CacheShapes
    <3>3. r.page # Caches!NoPage => r.page["users"] \in 0 .. MaxWrites
      BY <1>1, <3>1, CachePageTyped
    <3>. QED  BY <1>1, <3>1, <3>2, <3>3, CacheOwner DEF CacheReaches
  <2>4. ASSUME NEW d \in Caches!Caches
        PROVE  CacheReaches(pageCache'[d], pageLate'[d], pageFloor[d])
    BY <2>2, <2>3, Zenon DEF CacheIInv, CacheHeld
  <2>. QED  BY <2>2, <2>4
<1>. QED  BY <1>2, <1>3

(* The service's cache is filled.                                          *)
LEMMA CacheFillServiceStep ==
    ASSUME CacheIInv, NEW s \in Slots, Caches!FillService(s)
    PROVE  CacheIInv'
<1>. DEFINE r == [pageRequest[s] EXCEPT !.op = "fillResponse"]
<1>1. /\ pageRequest[s] \in CacheRequests /\ pageRequest[s].op = "fillService"
      /\ Caches!Filling(pageRequest[s])
  BY DEF CacheIInv, CacheShapes, Caches!FillService, Caches!At, Caches!Filling
<1>2. /\ r \in CacheRequests /\ r.op = "fillResponse"
      /\ r.page = pageRequest[s].page /\ r.late = pageRequest[s].late
  BY <1>1 DEF CacheRequests, Caches!Reads
<1>3. pageRequest' = [pageRequest EXCEPT ![s] = r]
  BY DEF Caches!FillService, Caches!Goto
<1>. HIDE DEF r
<1>4. CacheReaches(r.page, r.late, pageFloor["service"])
  BY <1>1, <1>2 DEF CacheIInv, CacheHeld
<1>5. /\ pageCache' \in [Caches!Caches -> Caches!Pages]
      /\ pageLate' \in [Caches!Caches -> BOOLEAN]
      /\ \A d \in Caches!Caches : CacheReaches(pageCache'[d], pageLate'[d], pageFloor[d])
  BY <1>1, CacheStores DEF Caches!FillService, Caches!Caches
<1>. QED
  BY <1>1, <1>2, <1>3, <1>4, <1>5, CacheMoves
     DEF Caches!FillService, Caches!Store, Caches!connection

(* And the response.                                                       *)
LEMMA CacheFillResponseStep ==
    ASSUME CacheIInv, NEW s \in Slots, Caches!FillResponse(s)
    PROVE  CacheIInv'
<1>1. /\ pageRequest[s].op = "fillResponse" /\ Caches!Filling(pageRequest[s])
      /\ pageRequest' = [pageRequest EXCEPT ![s] = Caches!Idle]
  BY DEF Caches!FillResponse, Caches!At, Caches!Filling, Caches!Done
<1>2. /\ pageCache' \in [Caches!Caches -> Caches!Pages]
      /\ pageLate' \in [Caches!Caches -> BOOLEAN]
      /\ \A d \in Caches!Caches : CacheReaches(pageCache'[d], pageLate'[d], pageFloor[d])
  BY <1>1, CacheStores DEF Caches!FillResponse, Caches!Caches
<1>3. Caches!Idle \in CacheRequests /\ Caches!Idle.op # "write" /\ ~Caches!Filling(Caches!Idle)
  BY CacheIdle DEF CacheIInv
<1>. QED
  BY <1>1, <1>2, <1>3, CacheMoves DEF Caches!FillResponse, Caches!Store, Caches!connection

-----------------------------------------------------------------------------
(* A write begins and counts at once.                                      *)
LEMMA CacheStartWriteStep ==
    ASSUME MaxWrites \in Nat, CacheIInv, NEW s \in Slots, Caches!StartWrite(s)
    PROVE  CacheIInv'
<1>1. PICK on \in CacheResources : \E c \in Caches!Clearings(on) :
      /\ pageRequest[s].op = "idle" /\ pageWritten < MaxWrites
      /\ pageWritten' = pageWritten + 1
      /\ pageRequest' = [pageRequest EXCEPT ![s] =
            [op |-> "write", on |-> on, clears |-> c, page |-> Caches!NoPage, late |-> FALSE]]
  BY DEF Caches!StartWrite, Caches!Busy, CacheResources
<1>2. PICK c \in Caches!Clearings(on) :
         pageRequest' = [pageRequest EXCEPT ![s] =
            [op |-> "write", on |-> on, clears |-> c, page |-> Caches!NoPage, late |-> FALSE]]
  BY <1>1
<1>3. UNCHANGED <<pageView, pagePrefixed, pageUp, pageLost, pageVersion, pageCache, pageFloor,
      pageLate>>
  BY DEF Caches!StartWrite, Caches!connection, Caches!stored
<1>. DEFINE r ==
    [op |-> "write", on |-> on, clears |-> c, page |-> Caches!NoPage, late |-> FALSE]
<1>4. c \subseteq Caches!Caches
  BY DEF Caches!Clearings, Caches!Caches
<1>6. r \in CacheRequests /\ r.op = "write" /\ r.on = on /\ ~Caches!Filling(r)
  BY <1>4, CachePagesAre DEF CacheIInv, CacheRequests, Caches!Writes, Caches!Filling
<1>7. pageRequest' = [pageRequest EXCEPT ![s] = r]
  BY <1>2
<1>. HIDE DEF r
<1>8. pageRequest'[s] = r /\ \A x \in Slots : x # s => pageRequest'[x] = pageRequest[x]
  BY <1>7 DEF CacheIInv, CacheShapes
<1>9. CacheShapes'
  BY <1>3, <1>6, <1>7, <1>8, CacheSame DEF CacheIInv, CacheShapes
<1>10. CacheTally'
  <2>1. CacheWriting' = CacheWriting \cup {s} /\ s \notin CacheWriting
    BY <1>1, <1>6, <1>8 DEF CacheWriting
  <2>2. /\ IsFiniteSet(CacheWriting') /\ Cardinality(CacheWriting) \in Nat
        /\ Cardinality(CacheWriting') = Cardinality(CacheWriting) + 1
    BY <2>1, FS_AddElement, FS_CardinalityType DEF CacheIInv, CacheTally
  <2>3. \A x \in CacheResources : pageVersion[x] \in 0 .. MaxWrites
    BY DEF CacheIInv, CacheShapes
  <2>. QED  BY <1>1, <1>3, <2>2, <2>3, CacheSame DEF CacheIInv, CacheTally
<1>11. CacheFloors'
  BY <1>3 DEF CacheIInv, CacheFloors
<1>12. CacheHeld'
  BY <1>3, <1>6, <1>8, Zenon DEF CacheIInv, CacheHeld
<1>. QED  BY <1>9, <1>10, <1>11, <1>12 DEF CacheIInv

(* It reaches the database; one that clears nothing ends there.            *)
LEMMA CacheWriteDatabaseStep ==
    ASSUME MaxWrites \in Nat, CacheIInv, NEW s \in Slots, Caches!WriteDatabase(s)
    PROVE  CacheIInv'
<1>. DEFINE on == pageRequest[s].on
            r == IF pageRequest[s].clears = {} THEN Caches!Idle
                 ELSE [pageRequest[s] EXCEPT !.op = "clearService", !.on = "none"]
<1>1. /\ pageRequest[s] \in CacheRequests /\ pageRequest[s].op = "write" /\ on \in CacheResources
  BY DEF CacheIInv, CacheShapes, Caches!WriteDatabase, Caches!At
<1>2. /\ pageVersion' = [pageVersion EXCEPT ![on] = @ + 1]
      /\ pageRequest' = [pageRequest EXCEPT ![s] = r]
      /\ UNCHANGED <<pageView, pagePrefixed, pageUp, pageLost, pageCache, pageFloor, pageLate,
         pageWritten>>
  BY DEF Caches!WriteDatabase, Caches!connection, Caches!stored
<1>3. r \in CacheRequests /\ r.op # "write" /\ ~Caches!Filling(r)
  BY <1>1, CacheIdle DEF CacheIInv, CacheRequests, Caches!Writes, Caches!Filling
<1>. HIDE DEF r
<1>4. pageRequest'[s] = r /\ \A x \in Slots : x # s => pageRequest'[x] = pageRequest[x]
  BY <1>2 DEF CacheIInv, CacheShapes
<1>5. /\ CacheWriting' = CacheWriting \ {s} /\ s \in CacheWriting
  BY <1>1, <1>3, <1>4 DEF CacheWriting
<1>6. /\ IsFiniteSet(CacheWriting') /\ Cardinality(CacheWriting) \in Nat
      /\ Cardinality(CacheWriting') \in Nat
      /\ Cardinality(CacheWriting') = Cardinality(CacheWriting) - 1
  BY <1>5, FS_RemoveElement, FS_CardinalityType DEF CacheIInv, CacheTally
<1>7. \A x \in CacheResources :
         /\ pageVersion[x] \in 0 .. MaxWrites
         /\ pageVersion[x] =< pageVersion'[x] /\ pageVersion'[x] =< pageVersion[x] + 1
         /\ pageVersion'[x] \in Nat
  BY <1>1, <1>2 DEF CacheIInv, CacheShapes
<1>8. CacheTally'
  BY <1>2, <1>6, <1>7, CacheSame DEF CacheIInv, CacheTally
<1>9. pageVersion' \in [CacheResources -> 0 .. MaxWrites]
  <2>1. pageWritten \in 0 .. MaxWrites /\ CacheResources' = CacheResources
    BY <1>2, CacheSame DEF CacheIInv, CacheTally
  <2>2. ASSUME NEW x \in CacheResources PROVE pageVersion'[x] \in 0 .. MaxWrites
    BY <1>2, <1>6, <1>7, <1>8, <2>1 DEF CacheTally
  <2>. QED  BY <1>2, <2>2 DEF CacheIInv, CacheShapes
<1>10. CacheShapes'
  BY <1>2, <1>3, <1>4, <1>9, CacheSame DEF CacheIInv, CacheShapes
<1>11. CacheFloors'
  BY <1>2, <1>7, CacheOwner DEF CacheIInv, CacheFloors
<1>12. CacheHeld'
  BY <1>2, <1>3, <1>4, Zenon DEF CacheIInv, CacheHeld
<1>. QED  BY <1>8, <1>10, <1>11, <1>12 DEF CacheIInv

(* Caches are cleared: the service's with the responses or before them.    *)
LEMMA CacheClears ==
    ASSUME CacheIInv, NEW s \in Slots, NEW r \in CacheRequests,
           NEW C \in {{}, {"service"}, Caches!Caches}, Caches!Clear(s, C, r),
           pageRequest[s].op # "write", r.op # "write", ~Caches!Filling(r)
    PROVE  CacheIInv'
<1>1. /\ pageCache' = [c \in Caches!Caches |-> IF c \in C THEN Caches!NoPage ELSE pageCache[c]]
      /\ pageFloor' = [c \in Caches!Caches |-> IF c \in C THEN pageVersion["users"]
                                                         ELSE pageFloor[c]]
      /\ pageLate' = [c \in Caches!Caches |-> c \notin C /\ pageLate[c]]
      /\ UNCHANGED <<pageView, pagePrefixed, pageUp, pageLost, pageVersion, pageWritten>>
  BY CacheOwner DEF CacheIInv, Caches!Clear, Caches!connection
<1>2. /\ pageRequest' \in [Slots -> CacheRequests] /\ pageRequest'[s] = r
      /\ \A x \in Slots : x # s =>
            /\ pageRequest'[x].op = pageRequest[x].op /\ pageRequest'[x].on = pageRequest[x].on
            /\ pageRequest'[x].page = pageRequest[x].page
            /\ pageRequest'[x].late = (pageRequest[x].late
                                          \/ (C # {} /\ Caches!Filling(pageRequest[x])))
  <2>1. \A x \in Slots : pageRequest[x] \in CacheRequests
    BY DEF CacheIInv, CacheShapes
  <2>2. pageRequest' = [x \in Slots |->
           IF x = s THEN r
           ELSE IF C # {} /\ Caches!Filling(pageRequest[x])
                THEN [pageRequest[x] EXCEPT !.late = TRUE]
           ELSE pageRequest[x]]
    BY DEF Caches!Clear
  <2>3. ASSUME NEW q \in CacheRequests
        PROVE  /\ [q EXCEPT !.late = TRUE] \in CacheRequests
               /\ [q EXCEPT !.late = TRUE].op = q.op /\ [q EXCEPT !.late = TRUE].on = q.on
               /\ [q EXCEPT !.late = TRUE].page = q.page
               /\ [q EXCEPT !.late = TRUE].late = TRUE
               /\ q.late \in BOOLEAN
    BY DEF CacheRequests
  <2>4. pageRequest'[s] = r
    BY <2>2
  <2>5. ASSUME NEW x \in Slots, x # s
        PROVE  /\ pageRequest'[x] \in CacheRequests
               /\ pageRequest'[x].op = pageRequest[x].op
               /\ pageRequest'[x].on = pageRequest[x].on
               /\ pageRequest'[x].page = pageRequest[x].page
               /\ pageRequest'[x].late = (pageRequest[x].late
                                             \/ (C # {} /\ Caches!Filling(pageRequest[x])))
    <3>1. pageRequest[x] \in CacheRequests
      BY <2>1
    <3>2. pageRequest[x].late \in BOOLEAN
      BY <3>1, <2>3
    <3>3. CASE C # {} /\ Caches!Filling(pageRequest[x])
      <4>1. pageRequest'[x] = [pageRequest[x] EXCEPT !.late = TRUE]
        BY <2>2, <2>5, <3>3
      <4>2. PICK q \in CacheRequests : q = pageRequest[x]
        BY <3>1
      <4>3. /\ [q EXCEPT !.late = TRUE] \in CacheRequests
            /\ [q EXCEPT !.late = TRUE].op = q.op /\ [q EXCEPT !.late = TRUE].on = q.on
            /\ [q EXCEPT !.late = TRUE].page = q.page /\ [q EXCEPT !.late = TRUE].late = TRUE
        BY <2>3
      <4>4. pageRequest'[x] = [q EXCEPT !.late = TRUE]
        BY <4>1, <4>2
      <4>5. /\ pageRequest'[x] \in CacheRequests /\ pageRequest'[x].op = q.op
            /\ pageRequest'[x].on = q.on /\ pageRequest'[x].page = q.page
            /\ pageRequest'[x].late = TRUE
        BY <4>3, <4>4, Zenon
      <4>. QED  BY <3>3, <4>2, <4>5, Zenon
    <3>4. CASE ~(C # {} /\ Caches!Filling(pageRequest[x]))
      <4>1. pageRequest'[x] = pageRequest[x]
        BY <2>2, <2>5, <3>4
      <4>. QED  BY <3>1, <3>2, <3>4, <4>1
    <3>. QED  BY <3>3, <3>4
  <2>6. \A x \in Slots : pageRequest'[x] \in CacheRequests
    BY <2>4, <2>5
  <2>7. pageRequest' \in [Slots -> CacheRequests]
    BY <2>2, <2>6
  <2>. QED  BY <2>4, <2>5, <2>7
<1>3. \A x \in Slots : x # s =>
         (Caches!Filling(pageRequest'[x]) <=> Caches!Filling(pageRequest[x]))
  BY <1>2 DEF Caches!Filling
<1>4. CacheShapes'
  <2>1. pageCache' \in [Caches!Caches -> Caches!Pages]
    BY <1>1, CachePagesAre DEF CacheIInv, CacheShapes
  <2>2. pageFloor' \in [Caches!Caches -> 0 .. MaxWrites]
    BY <1>1, CacheOwner DEF CacheIInv, CacheShapes
  <2>3. pageLate' \in [Caches!Caches -> BOOLEAN]
    BY <1>1
  <2>4. \A x \in Slots : pageRequest'[x].op = "write" => pageRequest'[x].on \in CacheResources
    BY <1>2 DEF CacheIInv, CacheShapes
  <2>. QED  BY <1>1, <1>2, <2>1, <2>2, <2>3, <2>4, CacheSame DEF CacheIInv, CacheShapes
<1>5. CacheTally'
  <2>1. CacheWriting' = CacheWriting
    BY <1>2 DEF CacheWriting
  <2>. QED  BY <1>1, <2>1, CacheSame DEF CacheIInv, CacheTally
<1>6. CacheFloors'
  BY <1>1, CacheOwner DEF CacheIInv, CacheFloors, Caches!Caches
<1>7. CASE C = {}
  <2>1. /\ \A c \in Caches!Caches : pageCache'[c] = pageCache[c] /\ pageFloor'[c] = pageFloor[c]
        /\ \A c \in Caches!Caches : pageLate'[c] = pageLate[c]
    BY <1>1, <1>7 DEF CacheIInv, CacheShapes
  <2>2. pageFloor'["service"] = pageFloor["service"]
    BY <2>1 DEF Caches!Caches
  <2>3. \A x \in Slots : x # s => pageRequest'[x].late = pageRequest[x].late
    BY <1>2, <1>7 DEF CacheIInv, CacheShapes, CacheRequests
  <2>4. CacheHeld'
    BY <1>2, <1>3, <2>1, <2>2, <2>3, Zenon DEF CacheIInv, CacheHeld
  <2>. QED  BY <1>4, <1>5, <1>6, <2>4 DEF CacheIInv
<1>8. CASE C # {}
  <2>1. ASSUME NEW x \in Slots, Caches!Filling(pageRequest'[x])
        PROVE  CacheReaches(pageRequest'[x].page, pageRequest'[x].late, pageFloor'["service"])
    BY <1>2, <1>3, <1>8, <2>1 DEF CacheReaches
  <2>2. ASSUME NEW c \in Caches!Caches
        PROVE  CacheReaches(pageCache'[c], pageLate'[c], pageFloor'[c])
    <3>1. CASE c \in C
      BY <1>1, <3>1 DEF CacheReaches
    <3>2. CASE c \notin C
      <4>1. pageCache'[c] = pageCache[c] /\ pageFloor'[c] = pageFloor[c]
              /\ pageLate'[c] = pageLate[c]
        BY <1>1, <3>2 DEF CacheIInv, CacheShapes
      <4>. QED  BY <4>1 DEF CacheIInv, CacheHeld
    <3>. QED  BY <3>1, <3>2
  <2>3. CacheHeld'
    BY <2>1, <2>2, Zenon DEF CacheHeld
  <2>. QED  BY <1>4, <1>5, <1>6, <2>3 DEF CacheIInv
<1>. QED  BY <1>7, <1>8

(* The service clears its keys before the answer.                          *)
LEMMA CacheClearServiceStep ==
    ASSUME CacheIInv, NEW s \in Slots, Caches!ClearService(s)
    PROVE  CacheIInv'
<1>. DEFINE r == [Caches!Idle EXCEPT !.op = "clearResponses"]
<1>1. r \in CacheRequests /\ r.op = "clearResponses" /\ ~Caches!Filling(r)
  BY CacheIdle DEF CacheIInv, CacheRequests, Caches!Writes, Caches!Filling
<1>2. pageRequest[s].op # "write" /\ Caches!Clear(s, Caches!ServiceClears(s), r)
  BY DEF Caches!ClearService, Caches!At
<1>3. Caches!ServiceClears(s) \in {{}, {"service"}, Caches!Caches}
  BY DEF Caches!ServiceClears
<1>. HIDE DEF r
<1>. QED  BY <1>1, <1>2, <1>3, CacheClears

(* cacheInvalidator clears both caches after it.                           *)
LEMMA CacheClearResponsesStep ==
    ASSUME CacheIInv, NEW s \in Slots, Caches!ClearResponses(s)
    PROVE  CacheIInv'
<1>. DEFINE C == IF pageUp /\ ~pagePrefixed THEN Caches!Caches ELSE {}
<1>1. pageRequest[s].op # "write" /\ Caches!Clear(s, C, Caches!Idle)
  BY DEF Caches!ClearResponses, Caches!At
<1>2. C \in {{}, {"service"}, Caches!Caches}
  OBVIOUS
<1>3. Caches!Idle \in CacheRequests /\ Caches!Idle.op # "write" /\ ~Caches!Filling(Caches!Idle)
  BY CacheIdle DEF CacheIInv
<1>. HIDE DEF C
<1>. QED  BY <1>1, <1>2, <1>3, CacheClears

(* A time to live passes.                                                  *)
LEMMA CacheExpireStep ==
    ASSUME CacheIInv, NEW c \in Caches!Caches, Caches!Expire(c)
    PROVE  CacheIInv'
<1>1. /\ pageCache' = [pageCache EXCEPT ![c] = Caches!NoPage]
      /\ pageLate' = [pageLate EXCEPT ![c] = FALSE]
      /\ UNCHANGED <<pageView, pagePrefixed, pageUp, pageLost, pageVersion, pageFloor,
         pageRequest, pageWritten>>
  BY DEF Caches!Expire, Caches!connection
<1>2. CacheShapes'
  BY <1>1, CacheSame, CachePagesAre DEF CacheIInv, CacheShapes
<1>3. CacheTally'
  BY <1>1, CacheSame DEF CacheIInv, CacheTally, CacheWriting
<1>4. CacheFloors'
  BY <1>1 DEF CacheIInv, CacheFloors
<1>5. ASSUME NEW d \in Caches!Caches
      PROVE  CacheReaches(pageCache'[d], pageLate'[d], pageFloor'[d])
  BY <1>1 DEF CacheIInv, CacheShapes, CacheHeld, CacheReaches
<1>6. CacheHeld'
  BY <1>1, <1>5, Zenon DEF CacheIInv, CacheHeld
<1>. QED  BY <1>2, <1>3, <1>4, <1>6 DEF CacheIInv

(* The connection is lost and comes back, or nothing happens.              *)
LEMMA CacheConnectionStep ==
    ASSUME CacheIInv, Caches!RedisLost \/ Caches!RedisBack \/ UNCHANGED Caches!vars
    PROVE  CacheIInv'
<1>1. /\ UNCHANGED <<pageView, pagePrefixed, pageVersion, pageCache, pageFloor, pageLate,
         pageRequest, pageWritten>>
      /\ pageUp' \in BOOLEAN /\ pageLost' \in BOOLEAN
  BY DEF Caches!RedisLost, Caches!RedisBack, Caches!vars, Caches!connection, Caches!stored,
     CacheIInv, CacheShapes
<1>2. CacheShapes'
  BY <1>1, CacheSame DEF CacheIInv, CacheShapes
<1>3. CacheTally' /\ CacheFloors' /\ CacheHeld'
  BY <1>1, CacheSame DEF CacheIInv, CacheTally, CacheWriting, CacheFloors, CacheHeld
<1>. QED  BY <1>2, <1>3 DEF CacheIInv

(* The first state: nothing is cached, nobody is served.                   *)
LEMMA CacheInitStep == ASSUME MaxWrites \in Nat PROVE Caches!Init => CacheIInv
<1>. SUFFICES ASSUME Caches!Init PROVE CacheIInv
  OBVIOUS
<1>1. pageVersion = [r \in CacheResources |-> 0] /\ pageView \in PageViews
  BY DEF Caches!Init, CacheResources
<1>2. Caches!NoPage \in Caches!Pages /\ "users" \in CacheResources
  BY <1>1 DEF Caches!Pages, CacheResources, PageViews, PageJoins
<1>3. Caches!Idle \in CacheRequests /\ Caches!Idle.op = "idle" /\ ~Caches!Filling(Caches!Idle)
  BY <1>2 DEF Caches!Idle, CacheRequests, Caches!Filling
<1>4. pageRequest = [s \in Slots |-> Caches!Idle]
  BY DEF Caches!Init
<1>5. CacheShapes
  <2>1. /\ pageView \in PageViews /\ pagePrefixed \in BOOLEAN
        /\ pageUp \in BOOLEAN /\ pageLost \in BOOLEAN
    BY <1>1, Zenon DEF Caches!Init
  <2>2. /\ pageCache \in [Caches!Caches -> Caches!Pages]
        /\ pageVersion \in [CacheResources -> 0 .. MaxWrites]
        /\ pageFloor \in [Caches!Caches -> 0 .. MaxWrites]
    BY <1>1, <1>2 DEF Caches!Init
  <2>3. pageLate \in [Caches!Caches -> BOOLEAN]
    BY DEF Caches!Init
  <2>4. /\ pageRequest \in [Slots -> CacheRequests]
        /\ \A s \in Slots : pageRequest[s].op = "write" => pageRequest[s].on \in CacheResources
    BY <1>3, <1>4
  <2>. QED  BY <2>1, <2>2, <2>3, <2>4 DEF CacheShapes
<1>6. CacheTally
  <2>1. CacheWriting = {} /\ IsFiniteSet({}) /\ Cardinality({}) = 0
    BY <1>3, <1>4, FS_EmptySet DEF CacheWriting
  <2>. QED  BY <1>1, <2>1 DEF Caches!Init, CacheTally
<1>7. CacheFloors
  BY <1>1, <1>2 DEF Caches!Init, CacheFloors, Caches!Caches
<1>8. CacheHeld
  BY <1>3, <1>4 DEF Caches!Init, CacheHeld, CacheReaches
<1>. QED  BY <1>5, <1>6, <1>7, <1>8 DEF CacheIInv

(* Every step keeps the invariant.                                         *)
LEMMA CacheNextStep ==
    ASSUME MaxWrites \in Nat
    PROVE  CacheIInv /\ [Caches!Next]_(Caches!vars) => CacheIInv'
<1>. SUFFICES ASSUME CacheIInv, [Caches!Next]_(Caches!vars) PROVE CacheIInv'
  OBVIOUS
<1>1. ASSUME NEW s \in Slots,
             Caches!StartRead(s) \/ Caches!StartWrite(s) \/ Caches!Progress(s)
      PROVE  CacheIInv'
  BY <1>1, CacheStartReadStep, CacheStartWriteStep, CacheLookUpStep, CacheComputeStep,
     CacheFillServiceStep, CacheFillResponseStep, CacheWriteDatabaseStep, CacheClearServiceStep,
     CacheClearResponsesStep DEF Caches!Progress
<1>. QED  BY <1>1, CacheExpireStep, CacheConnectionStep DEF Caches!Next

(* Once a write cleared a cache, what the cache holds was read after that  *)
(* write and all before it, or was read before the clearing and stored     *)
(* after it (cache.middleware.ts, cacheInvalidator.middleware.ts,          *)
(* cache.service.ts).                                                      *)
THEOREM WritesAlwaysReachTheCaches ==
    ASSUME MaxWrites \in Nat
    PROVE  Caches!Spec => []Caches!WritesReachTheCaches
<1>1. CacheIInv => Caches!WritesReachTheCaches
  BY CacheOwner
     DEF CacheIInv, CacheHeld, CacheReaches, Caches!WritesReachTheCaches
<1>. QED  BY CacheInitStep, CacheNextStep, <1>1, PTL DEF Caches!Spec

(* The caches keep their types, for any number of requests and writes.     *)
LEMMA CachesAreTyped ==
    ASSUME MaxWrites \in Nat
    PROVE  Caches!Spec => []Caches!TypeOK
<1>1. CacheIInv => Caches!TypeOK
  BY Zenon DEF CacheIInv, CacheShapes, CacheTally, CacheRequests, CacheResources, Caches!TypeOK
<1>. QED  BY CacheInitStep, CacheNextStep, <1>1, PTL DEF Caches!Spec

-----------------------------------------------------------------------------
(***************************************************************************)
(* The types of the process.  The counters stay within what the            *)
(* configuration allows: start() tries MongoDB again only while attempts   *)
(* are left, and a client is given up with the failure that uses up its    *)
(* retries (ProcessRetrying), so the row of failures is no longer.         *)
(***************************************************************************)

ProcessKinds ==
    /\ runBoot \in {"database", "redis", "background", "sockets", "listen", "serving", "failed"}
    /\ runMongo \in {"down", "up", "closed"}
    /\ runHttp \in {"none", "created", "listening", "closed"}
    /\ runExit \in {"running", "ok", "error"}
    /\ runGiveUp \in {"none", "boot", "retries", "probe"}

ProcessCounters ==
    /\ runAttempt \in 0 .. MongoRetries
    /\ runExit = "running" /\ runBoot = "database" => runAttempt < MongoRetries
    /\ runRetries \in 0 .. RedisRetries /\ runFailedInARow \in 0 .. RedisRetries
    /\ runOutages \in 0 .. MaxOutages

ProcessFlags ==
    /\ runServerUp \in BOOLEAN /\ runProbe \in BOOLEAN /\ runWorkers \in BOOLEAN
    /\ runCron \in BOOLEAN /\ runIo \in BOOLEAN /\ runTimer \in BOOLEAN
    /\ runStuck \in BOOLEAN /\ runEarly \in BOOLEAN /\ runProbed \in BOOLEAN

ProcessTypes == ProcessKinds /\ ProcessCounters /\ ProcessFlags

(* What is configured: one attempt to reach MongoDB at least.              *)
ProcessBounds ==
    MongoRetries \in Nat \ {0} /\ RedisRetries \in Nat /\ MaxOutages \in Nat

(* Every step of the process leaves each variable in one of its places.    *)
LEMMA ProcessKindsStep ==
    ASSUME ProcessKinds, Process!Next
    PROVE  ProcessKinds'
<1>1. CASE Process!ConnectDatabase
  BY <1>1 DEF ProcessKinds, Process!ConnectDatabase, Process!redisVars, Process!parts
<1>2. CASE Process!ConnectRedis
  BY <1>2 DEF ProcessKinds, Process!ConnectRedis, Process!redisVars, Process!parts
<1>3. CASE Process!StartBackground
  BY <1>3 DEF ProcessKinds, Process!StartBackground, Process!redisVars, Process!parts
<1>4. CASE Process!InitSockets
  BY <1>4 DEF ProcessKinds, Process!InitSockets, Process!redisVars, Process!parts
<1>5. CASE Process!Listen
  BY <1>5 DEF ProcessKinds, Process!Listen, Process!redisVars, Process!parts
<1>6. CASE Process!RedisLost
  BY <1>6 DEF ProcessKinds, Process!RedisLost, Process!ReconnectStrategy, Process!redisVars, Process!parts
<1>7. CASE Process!RedisReturns
  BY <1>7 DEF ProcessKinds, Process!RedisReturns, Process!redisVars, Process!parts
<1>8. CASE Process!Reconnect
  BY <1>8 DEF ProcessKinds, Process!Reconnect, Process!ReconnectStrategy, Process!redisVars, Process!parts
<1>9. CASE Process!Probe
  BY <1>9 DEF ProcessKinds, Process!Probe, Process!redisVars, Process!parts
<1>10. CASE Process!ProbeEnds
  BY <1>10 DEF ProcessKinds, Process!ProbeEnds, Process!redisVars, Process!parts
<1>11. CASE Process!Signal
  BY <1>11 DEF ProcessKinds, Process!Signal, Process!redisVars, Process!parts
<1>12. CASE Process!StopWorkers
  BY <1>12 DEF ProcessKinds, Process!StopWorkers, Process!redisVars, Process!parts
<1>13. CASE Process!CloseSockets
  BY <1>13 DEF ProcessKinds, Process!CloseSockets, Process!redisVars, Process!parts
<1>14. CASE Process!CloseHttp
  BY <1>14 DEF ProcessKinds, Process!CloseHttp, Process!redisVars, Process!parts
<1>15. CASE Process!DisconnectRedis
  BY <1>15 DEF ProcessKinds, Process!DisconnectRedis, Process!redisVars, Process!parts
<1>16. CASE Process!DisconnectDatabase
  BY <1>16 DEF ProcessKinds, Process!DisconnectDatabase, Process!redisVars, Process!parts
<1>17. CASE Process!ForceExit
  BY <1>17 DEF ProcessKinds, Process!ForceExit, Process!redisVars, Process!parts
<1>. QED
  BY <1>1, <1>2, <1>3, <1>4, <1>5, <1>6, <1>7, <1>8, <1>9, <1>10, <1>11, <1>12, <1>13, <1>14, <1>15, <1>16, <1>17
     DEF Process!Next

(* And counts no further than it may.                                      *)
LEMMA ProcessCountersStep ==
    ASSUME ProcessBounds, ProcessIInv, ProcessKinds, ProcessCounters, Process!Next
    PROVE  ProcessCounters'
<1>1. CASE Process!ConnectDatabase
  BY <1>1 DEF ProcessCounters, ProcessKinds, Process!ConnectDatabase, Process!Running,
     Process!redisVars, Process!parts, ProcessBounds
<1>2. CASE Process!ConnectRedis
  BY <1>2 DEF ProcessCounters, ProcessKinds, Process!ConnectRedis, Process!Running,
     Process!redisVars, Process!parts
<1>3. CASE Process!StartBackground
  BY <1>3 DEF ProcessCounters, ProcessKinds, Process!StartBackground, Process!Running,
     Process!redisVars, Process!parts
<1>4. CASE Process!InitSockets
  BY <1>4 DEF ProcessCounters, ProcessKinds, Process!InitSockets, Process!Running,
     Process!redisVars, Process!parts
<1>5. CASE Process!Listen
  BY <1>5 DEF ProcessCounters, ProcessKinds, Process!Listen, Process!Running,
     Process!redisVars, Process!parts
<1>6. CASE Process!RedisLost
  BY <1>6 DEF ProcessCounters, ProcessKinds, Process!RedisLost, Process!ReconnectStrategy,
     Process!Running, Process!redisVars, Process!parts, ProcessIInv, ProcessRetrying,
     ProcessBounds
<1>7. CASE Process!RedisReturns
  BY <1>7 DEF ProcessCounters, ProcessKinds, Process!RedisReturns, Process!Running,
     Process!redisVars, Process!parts
<1>8. CASE Process!Reconnect
  BY <1>8 DEF ProcessCounters, ProcessKinds, Process!Reconnect, Process!ReconnectStrategy,
     Process!Running, Process!redisVars, Process!parts, ProcessIInv, ProcessRetrying, ProcessBounds
<1>9. CASE Process!Probe
  BY <1>9 DEF ProcessCounters, ProcessKinds, Process!Probe, Process!Running,
     Process!redisVars, Process!parts
<1>10. CASE Process!ProbeEnds
  BY <1>10 DEF ProcessCounters, ProcessKinds, Process!ProbeEnds, Process!Running,
     Process!redisVars, Process!parts
<1>11. CASE Process!Signal
  BY <1>11 DEF ProcessCounters, ProcessKinds, Process!Signal, Process!Running,
     Process!redisVars, Process!parts
<1>12. CASE Process!StopWorkers
  BY <1>12 DEF ProcessCounters, ProcessKinds, Process!StopWorkers, Process!Running,
     Process!redisVars, Process!parts
<1>13. CASE Process!CloseSockets
  BY <1>13 DEF ProcessCounters, ProcessKinds, Process!CloseSockets, Process!Running,
     Process!redisVars, Process!parts
<1>14. CASE Process!CloseHttp
  BY <1>14 DEF ProcessCounters, ProcessKinds, Process!CloseHttp, Process!Running,
     Process!redisVars, Process!parts
<1>15. CASE Process!DisconnectRedis
  BY <1>15 DEF ProcessCounters, ProcessKinds, Process!DisconnectRedis, Process!Running,
     Process!redisVars, Process!parts
<1>16. CASE Process!DisconnectDatabase
  BY <1>16 DEF ProcessCounters, ProcessKinds, Process!DisconnectDatabase, Process!Running,
     Process!redisVars, Process!parts
<1>17. CASE Process!ForceExit
  BY <1>17 DEF ProcessCounters, ProcessKinds, Process!ForceExit, Process!Running,
     Process!redisVars, Process!parts
<1>. QED
  BY <1>1, <1>2, <1>3, <1>4, <1>5, <1>6, <1>7, <1>8, <1>9, <1>10, <1>11, <1>12, <1>13, <1>14, <1>15, <1>16, <1>17
     DEF Process!Next

(* The flags stay flags.                                                   *)
LEMMA ProcessFlagsStep ==
    ASSUME ProcessFlags, Process!Next
    PROVE  ProcessFlags'
<1>1. CASE Process!ConnectDatabase
  BY <1>1, Zenon DEF ProcessFlags, Process!ConnectDatabase, Process!redisVars, Process!parts
<1>2. CASE Process!ConnectRedis
  BY <1>2, Zenon DEF ProcessFlags, Process!ConnectRedis, Process!redisVars, Process!parts
<1>3. CASE Process!StartBackground
  BY <1>3, Zenon DEF ProcessFlags, Process!StartBackground, Process!redisVars, Process!parts
<1>4. CASE Process!InitSockets
  BY <1>4, Zenon DEF ProcessFlags, Process!InitSockets, Process!redisVars, Process!parts
<1>5. CASE Process!Listen
  BY <1>5, Zenon DEF ProcessFlags, Process!Listen, Process!redisVars, Process!parts
<1>6. CASE Process!RedisLost
  BY <1>6, Zenon DEF ProcessFlags, Process!RedisLost, Process!ReconnectStrategy,
     Process!redisVars, Process!parts
<1>7. CASE Process!RedisReturns
  BY <1>7, Zenon DEF ProcessFlags, Process!RedisReturns, Process!redisVars, Process!parts
<1>8. CASE Process!Reconnect
  BY <1>8, Zenon DEF ProcessFlags, Process!Reconnect, Process!ReconnectStrategy,
     Process!redisVars, Process!parts
<1>9. CASE Process!Probe
  BY <1>9, Zenon DEF ProcessFlags, Process!Probe, Process!redisVars, Process!parts
<1>10. CASE Process!ProbeEnds
  BY <1>10, Zenon DEF ProcessFlags, Process!ProbeEnds, Process!redisVars, Process!parts
<1>11. CASE Process!Signal
  BY <1>11, Zenon DEF ProcessFlags, Process!Signal, Process!redisVars, Process!parts
<1>12. CASE Process!StopWorkers
  BY <1>12, Zenon DEF ProcessFlags, Process!StopWorkers, Process!redisVars, Process!parts
<1>13. CASE Process!CloseSockets
  BY <1>13, Zenon DEF ProcessFlags, Process!CloseSockets, Process!redisVars, Process!parts
<1>14. CASE Process!CloseHttp
  BY <1>14, Zenon DEF ProcessFlags, Process!CloseHttp, Process!redisVars, Process!parts
<1>15. CASE Process!DisconnectRedis
  BY <1>15, Zenon DEF ProcessFlags, Process!DisconnectRedis, Process!redisVars, Process!parts
<1>16. CASE Process!DisconnectDatabase
  BY <1>16, Zenon DEF ProcessFlags, Process!DisconnectDatabase, Process!redisVars, Process!parts
<1>17. CASE Process!ForceExit
  BY <1>17, Zenon DEF ProcessFlags, Process!ForceExit, Process!redisVars, Process!parts
<1>. QED
  BY <1>1, <1>2, <1>3, <1>4, <1>5, <1>6, <1>7, <1>8, <1>9, <1>10, <1>11, <1>12, <1>13, <1>14, <1>15, <1>16, <1>17
     DEF Process!Next

(* The process keeps its types, for any number of retries and outages.     *)
LEMMA ProcessIsTyped ==
    ASSUME ProcessBounds
    PROVE  Process!Spec => []Process!TypeOK
<1>. DEFINE Inv == ProcessIInv /\ ProcessTypes
<1>1. Process!Init => Inv
  <2>. SUFFICES ASSUME Process!Init PROVE ProcessTypes
    BY ProcessInitStep
  <2>1. ProcessKinds /\ ProcessCounters
    BY DEF Process!Init, ProcessKinds, ProcessCounters, ProcessBounds
  <2>2. ProcessFlags
    BY Zenon DEF Process!Init, ProcessFlags
  <2>. QED  BY <2>1, <2>2 DEF ProcessTypes
<1>2. Inv /\ [Process!Next]_(Process!vars) => Inv'
  <2>. SUFFICES ASSUME Inv, [Process!Next]_(Process!vars) PROVE Inv'
    OBVIOUS
  <2>1. ProcessIInv'
    BY ProcessNextStep DEF ProcessBounds
  <2>2. CASE Process!Next
    BY <2>1, <2>2, ProcessKindsStep, ProcessCountersStep, ProcessFlagsStep DEF ProcessTypes
  <2>3. CASE UNCHANGED Process!vars
    <3>1. ProcessKinds' /\ ProcessCounters'
      BY <2>3 DEF ProcessTypes, ProcessKinds, ProcessCounters, Process!vars, Process!redisVars,
         Process!parts
    <3>2. ProcessFlags'
      BY <2>3, Zenon DEF ProcessTypes, ProcessFlags, Process!vars, Process!redisVars,
         Process!parts
    <3>. QED  BY <2>1, <3>1, <3>2 DEF ProcessTypes
  <2>. QED  BY <2>2, <2>3
<1>3. Inv => Process!TypeOK
  <2>. SUFFICES ASSUME Inv PROVE Process!TypeOK
    OBVIOUS
  <2>1. {runServerUp, runProbe, runWorkers, runCron, runIo, runTimer, runStuck, runEarly,
         runProbed} \subseteq BOOLEAN
    BY Zenon DEF ProcessTypes, ProcessFlags
  <2>. QED
    BY <2>1 DEF ProcessTypes, ProcessKinds, ProcessCounters, ProcessIInv, ProcessPlaces,
       ProcessClients, Process!TypeOK
<1>. HIDE DEF Inv
<1>. QED  BY <1>1, <1>2, <1>3, PTL DEF Process!Spec

-----------------------------------------------------------------------------
(***************************************************************************)
(* The types of the queues.  A job that may still be performed has an      *)
(* attempt left; and what the worker remembers was added, and is never     *)
(* more than its memory holds.                                             *)
(***************************************************************************)

QueuesCounters ==
    /\ jobAdded \in 0 .. MaxJobs /\ jobEvents \in 0 .. MaxEvents
    /\ jobShocks \in 0 .. MaxShocks

QueuesAttempts ==
    \A j \in Queues!Jobs :
        /\ jobJobs[j].tries \in 0 .. Attempts
        /\ jobJobs[j].state \in Queues!Unfinished => jobJobs[j].tries < Attempts

QueuesRemembered ==
    \E n \in 0 .. Memory :
        DOMAIN jobInbox = 1 .. n /\ \A i \in 1 .. n : jobInbox[i] \in 1 .. jobAdded

QueuesTypes == QueuesCounters /\ QueuesAttempts /\ QueuesRemembered

(* What the configuration may say: a job is tried once at least (env.ts).  *)
QueuesBounds ==
    /\ MaxEvents \in Nat /\ MaxJobs \in Nat /\ MaxShocks \in Nat
    /\ Attempts \in Nat \ {0} /\ Memory \in Nat

(* A step counts what it adds, publishes and breaks.                       *)
LEMMA QueuesCountersStep ==
    ASSUME QueuesBounds, QueuesCounters, Queues!Next
    PROVE  QueuesCounters'
<1>1. CASE Queues!PublishRegistered \/ Queues!PublishLogin
  BY <1>1 DEF QueuesCounters, QueuesBounds, Queues!PublishRegistered, Queues!PublishLogin
<1>2. ASSUME NEW h \in jobHandlers, Queues!EnqueueEmail(h) \/ Queues!EnqueueNotification(h)
      PROVE  QueuesCounters'
  <2>1. /\ jobAdded < MaxJobs /\ jobAdded' = jobAdded + 1
        /\ UNCHANGED <<jobEvents, jobShocks>>
    BY <1>2 DEF Queues!EnqueueEmail, Queues!EnqueueNotification, Queues!Added
  <2>. QED  BY <2>1 DEF QueuesCounters, QueuesBounds
<1>3. ASSUME NEW h \in jobHandlers, Queues!EnqueueFails(h) PROVE QueuesCounters'
  BY <1>3 DEF QueuesCounters, QueuesBounds, Queues!EnqueueFails, Queues!Shock
<1>4. ASSUME NEW j \in Queues!Jobs, \/ Queues!Take(j) \/ Queues!SendEmail(j)
               \/ Queues!RejectEmail(j) \/ Queues!Notify(j) \/ Queues!Complete(j)
               \/ Queues!BackoffEnds(j)
      PROVE  QueuesCounters'
  <2>1. UNCHANGED <<jobAdded, jobEvents, jobShocks>>
    BY <1>4, Zenon DEF Queues!Take, Queues!SendEmail, Queues!RejectEmail, Queues!Notify,
       Queues!Complete, Queues!BackoffEnds
  <2>. QED  BY <2>1 DEF QueuesCounters
<1>5. ASSUME NEW j \in Queues!Jobs, Queues!MailError(j) PROVE QueuesCounters'
  BY <1>5 DEF QueuesCounters, QueuesBounds, Queues!MailError, Queues!Shock
<1>6. CASE Queues!Crash
  BY <1>6 DEF QueuesCounters, QueuesBounds, Queues!Crash, Queues!Shock
<1>. QED  BY <1>1, <1>2, <1>3, <1>4, <1>5, <1>6, Zenon DEF Queues!Next

(* One job changes, and has an attempt left if it may be performed.        *)
LEMMA QueuesAttemptMoves ==
    ASSUME QueuesShapes, QueuesAttempts, NEW j \in Queues!Jobs, NEW r,
           jobJobs' = [jobJobs EXCEPT ![j] = r], r.tries \in 0 .. Attempts,
           r.state \in Queues!Unfinished => r.tries < Attempts
    PROVE  QueuesAttempts'
<1>1. jobJobs'[j] = r /\ \A x \in Queues!Jobs : x # j => jobJobs'[x] = jobJobs[x]
  BY DEF QueuesShapes
<1>. QED  BY <1>1 DEF QueuesAttempts

(* A job with an attempt left moves to another state.                      *)
LEMMA QueuesAttemptStays ==
    ASSUME QueuesShapes, QueuesAttempts, NEW j \in Queues!Jobs, NEW s,
           jobJobs[j].state \in Queues!Unfinished, Queues!SetState(j, s)
    PROVE  QueuesAttempts'
<1>. DEFINE r == [jobJobs[j] EXCEPT !.state = s]
<1>1. jobJobs[j] \in QueuesRecords
  BY DEF QueuesShapes
<1>2. r.tries = jobJobs[j].tries
  BY <1>1 DEF QueuesRecords
<1>3. jobJobs' = [jobJobs EXCEPT ![j] = r]
  BY DEF Queues!SetState
<1>4. r.tries \in 0 .. Attempts /\ r.tries < Attempts
  BY <1>2 DEF QueuesAttempts
<1>. HIDE DEF r
<1>. QED  BY <1>3, <1>4, QueuesAttemptMoves

(* A failed attempt is counted, and the last one ends the job.             *)
LEMMA QueuesAttemptCounted ==
    ASSUME QueuesBounds, QueuesShapes, QueuesAttempts, NEW j \in Queues!Jobs,
           jobJobs[j].state = "active", Queues!Failed(j)
    PROVE  QueuesAttempts'
<1>. DEFINE s == IF jobJobs[j].tries + 1 < Attempts THEN "delayed" ELSE "failed"
            r == [jobJobs[j] EXCEPT !.tries = @ + 1, !.state = s]
<1>1. jobJobs[j] \in QueuesRecords
  BY DEF QueuesShapes
<1>2. jobJobs[j].tries \in Nat /\ jobJobs[j].tries < Attempts
  BY <1>1 DEF QueuesAttempts, QueuesRecords, Queues!Unfinished
<1>3. r.tries = jobJobs[j].tries + 1 /\ r.state = s
  BY <1>1 DEF QueuesRecords
<1>4. jobJobs' = [jobJobs EXCEPT ![j] = r]
  BY DEF Queues!Failed
<1>. HIDE DEF r
<1>5. r.tries \in 0 .. Attempts /\ (r.state \in Queues!Unfinished => r.tries < Attempts)
  BY <1>2, <1>3 DEF QueuesBounds, Queues!Unfinished
<1>. QED  BY <1>4, <1>5, QueuesAttemptMoves

(* A job is never performed more often than it may be.                     *)
LEMMA QueuesAttemptsStep ==
    ASSUME QueuesBounds, QueuesShapes, QueuesAttempts, Queues!Next
    PROVE  QueuesAttempts'
<1>1. CASE Queues!PublishRegistered \/ Queues!PublishLogin
  <2>1. UNCHANGED jobJobs
    BY <1>1 DEF Queues!PublishRegistered, Queues!PublishLogin
  <2>. QED  BY <2>1 DEF QueuesAttempts
<1>2. ASSUME NEW queue, NEW valid \in BOOLEAN, Queues!Added(queue, valid)
      PROVE  QueuesAttempts'
  <2>. DEFINE r == [queue |-> queue, state |-> "waiting", tries |-> 0, valid |-> valid]
  <2>1. jobJobs' = [jobJobs EXCEPT ![jobAdded + 1] = r]
    BY <1>2 DEF Queues!Added
  <2>2. jobAdded + 1 \in Queues!Jobs
    BY <1>2 DEF Queues!Added, Queues!Jobs, QueuesShapes, QueuesBounds
  <2>3. r.tries = 0
    OBVIOUS
  <2>. HIDE DEF r
  <2>4. r.tries \in 0 .. Attempts /\ r.tries < Attempts
    BY <2>3 DEF QueuesBounds
  <2>. QED  BY <2>1, <2>2, <2>4, QueuesAttemptMoves
<1>3. ASSUME NEW h \in jobHandlers, Queues!EnqueueEmail(h) \/ Queues!EnqueueNotification(h)
      PROVE  QueuesAttempts'
  BY <1>2, <1>3, Zenon DEF Queues!EnqueueEmail, Queues!EnqueueNotification
<1>4. ASSUME NEW h \in jobHandlers, Queues!EnqueueFails(h) PROVE QueuesAttempts'
  BY <1>4 DEF QueuesAttempts, Queues!EnqueueFails
<1>5. ASSUME NEW j \in Queues!Jobs, \/ Queues!Take(j) \/ Queues!SendEmail(j)
               \/ Queues!Notify(j) \/ Queues!Complete(j) \/ Queues!BackoffEnds(j)
      PROVE  QueuesAttempts'
  BY <1>5, QueuesAttemptStays DEF Queues!Take, Queues!SendEmail, Queues!Notify,
     Queues!Complete, Queues!BackoffEnds, Queues!Unfinished
<1>6. ASSUME NEW j \in Queues!Jobs, Queues!RejectEmail(j) \/ Queues!MailError(j)
      PROVE  QueuesAttempts'
  BY <1>6, QueuesAttemptCounted DEF Queues!RejectEmail, Queues!MailError
<1>7. CASE Queues!Crash
  <2>. SUFFICES ASSUME NEW j \in Queues!Jobs
                PROVE  /\ jobJobs'[j].tries \in 0 .. Attempts
                       /\ jobJobs'[j].state \in Queues!Unfinished => jobJobs'[j].tries < Attempts
    BY DEF QueuesAttempts
  <2>1. CASE jobJobs[j].state \in {"active", "performed"}
    <3>1. PICK s : jobJobs'[j] = [jobJobs[j] EXCEPT !.state = s]
      BY <1>7, <2>1 DEF Queues!Crash
    <3>2. jobJobs'[j].tries = jobJobs[j].tries
      BY <3>1 DEF QueuesShapes, QueuesRecords
    <3>. QED  BY <2>1, <3>2 DEF QueuesAttempts, Queues!Unfinished
  <2>2. CASE jobJobs[j].state \notin {"active", "performed"}
    <3>1. jobJobs'[j] = jobJobs[j]
      BY <1>7, <2>2 DEF Queues!Crash
    <3>. QED  BY <3>1 DEF QueuesAttempts
  <2>. QED  BY <2>1, <2>2
<1>. QED  BY <1>1, <1>3, <1>4, <1>5, <1>6, <1>7, Zenon DEF Queues!Next

(* A notification is put in front, and the oldest drops out at the limit.  *)
LEMMA QueuesRememberedNotify ==
    ASSUME QueuesBounds, QueuesShapes, QueuesRemembered, NEW j \in Queues!Jobs,
           Queues!Notify(j)
    PROVE  QueuesRemembered'
<1>1. PICK n \in 0 .. Memory :
        DOMAIN jobInbox = 1 .. n /\ \A i \in 1 .. n : jobInbox[i] \in 1 .. jobAdded
  BY DEF QueuesRemembered
<1>2. Queues!Cardinality(DOMAIN jobInbox) = n
  <2>1. Cardinality(1 .. n) = n
    BY FS_Interval
  <2>. QED  BY <1>1, <2>1, QueuesSameSize
<1>3. PICK m \in 0 .. Memory : m = IF n < Memory THEN n + 1 ELSE Memory
  BY DEF QueuesBounds
<1>4. /\ jobInbox' = [i \in 1 .. m |-> IF i = 1 THEN j ELSE jobInbox[i - 1]]
      /\ jobAdded' = jobAdded /\ jobJobs[j].state = "active"
  BY <1>2, <1>3 DEF Queues!Notify
<1>5. j \in 1 .. jobAdded
  BY <1>4 DEF QueuesShapes, Queues!Jobs, QueuesBounds
<1>6. ASSUME NEW i \in 1 .. m PROVE jobInbox'[i] \in 1 .. jobAdded
  <2>1. CASE i = 1
    BY <1>4, <1>5, <2>1
  <2>2. CASE i # 1
    <3>1. i - 1 \in 1 .. n
      BY <1>3, <2>2 DEF QueuesBounds
    <3>. QED  BY <1>1, <1>4, <2>2, <3>1
  <2>. QED  BY <2>1, <2>2
<1>7. DOMAIN jobInbox' = 1 .. m
  BY <1>4
<1>. QED  BY <1>4, <1>6, <1>7, Zenon DEF QueuesRemembered

(* Every other step leaves the memory alone, adds a job or forgets all.    *)
LEMMA QueuesRememberedStep ==
    ASSUME QueuesBounds, QueuesShapes, QueuesRemembered, Queues!Next
    PROVE  QueuesRemembered'
<1>1. ASSUME jobInbox' = jobInbox, jobAdded' \in {jobAdded, jobAdded + 1}
      PROVE  QueuesRemembered'
  <2>1. PICK n \in 0 .. Memory :
          DOMAIN jobInbox = 1 .. n /\ \A i \in 1 .. n : jobInbox[i] \in 1 .. jobAdded
    BY DEF QueuesRemembered
  <2>2. 1 .. jobAdded \subseteq 1 .. jobAdded'
    BY <1>1 DEF QueuesShapes
  <2>. QED  BY <1>1, <2>1, <2>2, Zenon DEF QueuesRemembered
<1>2. CASE Queues!PublishRegistered \/ Queues!PublishLogin
  BY <1>1, <1>2, Zenon DEF Queues!PublishRegistered, Queues!PublishLogin
<1>3. ASSUME NEW h \in jobHandlers, \/ Queues!EnqueueEmail(h)
               \/ Queues!EnqueueNotification(h) \/ Queues!EnqueueFails(h)
      PROVE  QueuesRemembered'
  BY <1>1, <1>3, Zenon DEF Queues!EnqueueEmail, Queues!EnqueueNotification,
     Queues!EnqueueFails, Queues!Added
<1>4. ASSUME NEW j \in Queues!Jobs, \/ Queues!Take(j) \/ Queues!SendEmail(j)
               \/ Queues!RejectEmail(j) \/ Queues!MailError(j) \/ Queues!Complete(j)
               \/ Queues!BackoffEnds(j)
      PROVE  QueuesRemembered'
  BY <1>1, <1>4, Zenon DEF Queues!Take, Queues!SendEmail, Queues!RejectEmail,
     Queues!MailError, Queues!Complete, Queues!BackoffEnds
<1>5. CASE Queues!Crash
  <2>1. DOMAIN jobInbox' = 1 .. 0
    BY <1>5 DEF Queues!Crash
  <2>2. 0 \in 0 .. Memory /\ \A i \in 1 .. 0 : jobInbox'[i] \in 1 .. jobAdded'
    BY DEF QueuesBounds
  <2>. QED  BY <2>1, <2>2, Zenon DEF QueuesRemembered
<1>. QED  BY <1>2, <1>3, <1>4, <1>5, QueuesRememberedNotify, Zenon DEF Queues!Next

(* The queues keep their types, for any number of events, jobs, attempts   *)
(* and faults, and any size of the worker's memory.                        *)
LEMMA QueuesAreTyped ==
    ASSUME QueuesBounds
    PROVE  Queues!Spec => []Queues!TypeOK
<1>. DEFINE Inv == QueuesIInv /\ QueuesTypes
<1>0. MaxJobs \in Nat
  BY DEF QueuesBounds
<1>1. Queues!Init => Inv
  <2>. SUFFICES ASSUME Queues!Init PROVE QueuesTypes
    BY <1>0, QueuesInitStep
  <2>1. QueuesCounters
    BY DEF Queues!Init, QueuesCounters, QueuesBounds
  <2>2. QueuesAttempts
    BY DEF Queues!Init, QueuesAttempts, Queues!NoJob, QueuesBounds, Queues!Unfinished
  <2>3. QueuesRemembered
    <3>1. DOMAIN jobInbox = 1 .. 0
      BY DEF Queues!Init
    <3>2. 0 \in 0 .. Memory /\ \A i \in 1 .. 0 : jobInbox[i] \in 1 .. jobAdded
      BY DEF QueuesBounds
    <3>. QED  BY <3>1, <3>2, Zenon DEF QueuesRemembered
  <2>. QED  BY <2>1, <2>2, <2>3 DEF QueuesTypes
<1>2. Inv /\ [Queues!Next]_(Queues!vars) => Inv'
  <2>. SUFFICES ASSUME Inv, [Queues!Next]_(Queues!vars) PROVE Inv'
    OBVIOUS
  <2>1. QueuesIInv'
    BY <1>0, QueuesNextStep
  <2>2. CASE Queues!Next
    BY <2>1, <2>2, QueuesCountersStep, QueuesAttemptsStep, QueuesRememberedStep
       DEF QueuesTypes, QueuesIInv
  <2>3. CASE UNCHANGED Queues!vars
    <3>1. UNCHANGED <<jobAdded, jobEvents, jobShocks, jobJobs, jobInbox>>
      BY <2>3 DEF Queues!vars
    <3>. QED
      BY <2>1, <3>1, Zenon DEF QueuesTypes, QueuesCounters, QueuesAttempts, QueuesRemembered
  <2>. QED  BY <2>2, <2>3
<1>3. Inv => Queues!TypeOK
  <2>. SUFFICES ASSUME Inv PROVE Queues!TypeOK
    OBVIOUS
  <2>1. \A j \in Queues!Jobs : /\ jobJobs[j].state \in QueuesStates
                               /\ jobJobs[j].tries \in 0 .. Attempts
    BY DEF QueuesIInv, QueuesShapes, QueuesRecords, QueuesTypes, QueuesAttempts
  <2>2. \A i \in DOMAIN jobInbox : jobInbox[i] \in 1 .. jobAdded
    BY Zenon DEF QueuesTypes, QueuesRemembered
  <2>. QED  BY <2>1, <2>2 DEF QueuesTypes, QueuesCounters, QueuesStates, Queues!TypeOK
<1>. HIDE DEF Inv
<1>. QED  BY <1>1, <1>2, <1>3, PTL DEF Queues!Spec

-----------------------------------------------------------------------------
(***************************************************************************)
(* The types of the access control that its invariant leaves out: the      *)
(* connection, the count of changes and the users in the two sets.         *)
(***************************************************************************)

AccessConnection == grantUp \in BOOLEAN /\ grantLost \in BOOLEAN

AccessCounter == grantChanges \in 0 .. MaxChanges

AccessUsers ==
    grantBlacklist \subseteq Users /\ grantLeft \subseteq Users /\ grantLocked \subseteq Users

(* A step of an administrator or of the seeders is counted, a step of a    *)
(* request that was let in and the return of Redis are not.                *)
LEMMA AccessCounterStep ==
    ASSUME MaxChanges \in Nat, AccessCounter, Access!Next
    PROVE  AccessCounter'
<1>1. ASSUME Access!Counted PROVE AccessCounter'
  BY <1>1 DEF Access!Counted, AccessCounter
<1>2. ASSUME NEW u \in Users,
             \/ Access!SignIn(u) \/ Access!TokenExpires(u) \/ Access!Logout(u)
             \/ Access!Lock(u) \/ Access!LockLapses(u)
      PROVE  AccessCounter'
  <2>1. Access!Counted \/ UNCHANGED grantChanges
    BY <1>2, Zenon DEF Access!SignIn, Access!TokenExpires, Access!Logout, Access!Lock,
     Access!LockLapses
  <2>. QED  BY <1>1, <2>1 DEF AccessCounter
<1>3. ASSUME NEW s \in AccessSlots,
             \/ Access!PresentToken(s) \/ Access!LoadUser(s)
             \/ Access!Guard(s) \/ Access!Serve(s)
      PROVE  AccessCounter'
  <2>1. Access!Counted \/ UNCHANGED grantChanges
    BY <1>3, Zenon DEF Access!PresentToken, Access!LoadUser, Access!Guard,
     Access!Serve
  <2>. QED  BY <1>1, <2>1 DEF AccessCounter
<1>4. ASSUME NEW r \in Access!Roles,
             Access!AssignPermissions(r) \/ Access!DeleteRole(r) \/ Access!CreateRole(r)
      PROVE  AccessCounter'
  BY <1>1, <1>4, Zenon DEF Access!AssignPermissions, Access!DeleteRole, Access!CreateRole,
     Access!RoleChange
<1>5. ASSUME NEW p \in Access!Permissions, NEW q \in Access!Permissions,
             \/ Access!DeletePermission(p) \/ Access!CreatePermission(p)
             \/ Access!UpdatePermission(p, q)
      PROVE  AccessCounter'
  BY <1>1, <1>5, Zenon DEF Access!DeletePermission, Access!CreatePermission,
     Access!UpdatePermission, Access!PermissionChange
<1>6. CASE Access!SeedAccess \/ Access!RedisLost
  BY <1>1, <1>6, Zenon DEF Access!SeedAccess, Access!RedisLost
<1>7. CASE Access!RedisBack
  BY <1>7 DEF Access!RedisBack, AccessCounter
<1>. QED  BY <1>2, <1>3, <1>4, <1>5, <1>6, <1>7, Zenon DEF Access!Next

(* Only users are in the blacklist and among those that left.              *)
LEMMA AccessUsersStep ==
    ASSUME AccessUsers, Access!Next
    PROVE  AccessUsers'
<1>1. ASSUME UNCHANGED <<grantBlacklist, grantLeft, grantLocked>> PROVE AccessUsers'
  BY <1>1 DEF AccessUsers
<1>2. ASSUME NEW u \in Users,
             \/ Access!SignIn(u) \/ Access!TokenExpires(u) \/ Access!Logout(u)
             \/ Access!Lock(u) \/ Access!LockLapses(u)
      PROVE  AccessUsers'
  BY <1>2 DEF AccessUsers, Access!SignIn, Access!TokenExpires, Access!Logout,
     Access!RedisSet, Access!Lock, Access!LockLapses
<1>3. ASSUME NEW s \in AccessSlots,
             \/ Access!PresentToken(s) \/ Access!LoadUser(s)
             \/ Access!Guard(s) \/ Access!Serve(s)
      PROVE  AccessUsers'
  BY <1>1, <1>3, Zenon DEF Access!PresentToken, Access!LoadUser, Access!Guard,
     Access!Serve
<1>4. ASSUME NEW r \in Access!Roles,
             Access!AssignPermissions(r) \/ Access!DeleteRole(r) \/ Access!CreateRole(r)
      PROVE  AccessUsers'
  BY <1>1, <1>4, Zenon DEF Access!AssignPermissions, Access!DeleteRole, Access!CreateRole,
     Access!RoleChange
<1>5. ASSUME NEW p \in Access!Permissions, NEW q \in Access!Permissions,
             \/ Access!DeletePermission(p) \/ Access!CreatePermission(p)
             \/ Access!UpdatePermission(p, q)
      PROVE  AccessUsers'
  BY <1>1, <1>5, Zenon DEF Access!DeletePermission, Access!CreatePermission,
     Access!UpdatePermission, Access!PermissionChange
<1>6. CASE Access!SeedAccess \/ Access!RedisLost \/ Access!RedisBack
  BY <1>1, <1>6, Zenon DEF Access!SeedAccess, Access!RedisLost, Access!RedisBack
<1>. QED  BY <1>2, <1>3, <1>4, <1>5, <1>6, Zenon DEF Access!Next

(* The connection changes only when it is lost and when it is back.        *)
LEMMA AccessConnectionStep ==
    ASSUME AccessConnection, Access!Next
    PROVE  AccessConnection'
<1>1. ASSUME UNCHANGED <<grantUp, grantLost>> PROVE AccessConnection'
  BY <1>1, Zenon DEF AccessConnection
<1>2. ASSUME NEW u \in Users,
             \/ Access!SignIn(u) \/ Access!TokenExpires(u) \/ Access!Logout(u)
             \/ Access!Lock(u) \/ Access!LockLapses(u)
      PROVE  AccessConnection'
  BY <1>1, <1>2, Zenon DEF Access!SignIn, Access!TokenExpires, Access!Logout, Access!Lock,
     Access!LockLapses
<1>3. ASSUME NEW s \in AccessSlots,
             \/ Access!PresentToken(s) \/ Access!LoadUser(s)
             \/ Access!Guard(s) \/ Access!Serve(s)
      PROVE  AccessConnection'
  BY <1>1, <1>3, Zenon DEF Access!PresentToken, Access!LoadUser, Access!Guard,
     Access!Serve
<1>4. ASSUME NEW r \in Access!Roles,
             Access!AssignPermissions(r) \/ Access!DeleteRole(r) \/ Access!CreateRole(r)
      PROVE  AccessConnection'
  BY <1>1, <1>4, Zenon DEF Access!AssignPermissions, Access!DeleteRole, Access!CreateRole,
     Access!RoleChange
<1>5. ASSUME NEW p \in Access!Permissions, NEW q \in Access!Permissions,
             \/ Access!DeletePermission(p) \/ Access!CreatePermission(p)
             \/ Access!UpdatePermission(p, q)
      PROVE  AccessConnection'
  BY <1>1, <1>5, Zenon DEF Access!DeletePermission, Access!CreatePermission,
     Access!UpdatePermission, Access!PermissionChange
<1>6. CASE Access!SeedAccess
  BY <1>1, <1>6, Zenon DEF Access!SeedAccess
<1>7. CASE Access!RedisLost \/ Access!RedisBack
  BY <1>7, Zenon DEF AccessConnection, Access!RedisLost, Access!RedisBack
<1>. QED  BY <1>2, <1>3, <1>4, <1>5, <1>6, <1>7, Zenon DEF Access!Next

(* The access control keeps its types, for any number of users, requests   *)
(* and changes.                                                            *)
LEMMA AccessIsTyped ==
    ASSUME MaxChanges \in Nat, Bundles \subseteq SUBSET Access!Permissions
    PROVE  Access!Spec => []Access!TypeOK
<1>. DEFINE Inv == AccessIInv /\ AccessConnection /\ AccessCounter /\ AccessUsers
<1>1. Access!Init => Inv
  <2>. SUFFICES ASSUME Access!Init PROVE AccessConnection /\ AccessCounter /\ AccessUsers
    BY AccessInitStep
  <2>1. AccessConnection
    BY Zenon DEF Access!Init, AccessConnection
  <2>2. AccessCounter /\ AccessUsers
    BY DEF Access!Init, AccessCounter, AccessUsers
  <2>. QED  BY <2>1, <2>2
<1>2. Inv /\ [Access!Next]_(Access!vars) => Inv'
  <2>. SUFFICES ASSUME Inv, [Access!Next]_(Access!vars) PROVE Inv'
    OBVIOUS
  <2>1. AccessIInv'
    BY AccessNextStep
  <2>2. CASE Access!Next
    BY <2>1, <2>2, AccessConnectionStep, AccessCounterStep, AccessUsersStep
  <2>3. CASE UNCHANGED Access!vars
    BY <2>1, <2>3, Zenon DEF Access!vars, AccessConnection, AccessCounter, AccessUsers
  <2>. QED  BY <2>2, <2>3
<1>3. Inv => Access!TypeOK
  BY Zenon DEF AccessIInv, AccessShapes, AccessDocuments, AccessTokens, AccessConnection,
     AccessCounter, AccessUsers, Access!TypeOK
<1>. HIDE DEF Inv
<1>. QED  BY <1>1, <1>2, <1>3, PTL DEF Access!Spec

-----------------------------------------------------------------------------
(* A behaviour of the services is one of each of their parts: their        *)
(* initial states are initial states of it, and a step of another part     *)
(* changes nothing of this one.                                            *)
LEMMA AccessInServices ==
    /\ ServicesInit => Access!Init
    /\ [ServicesNext]_serviceVars => [Access!Next]_(Access!vars)
<1>1. ServicesInit => Access!Init
  BY DEF ServicesInit
<1>2. ASSUME [ServicesNext]_serviceVars, UNCHANGED grantVars PROVE UNCHANGED Access!vars
  BY <1>2 DEF grantVars, Access!vars, Access!documents, Access!held
<1>. QED
  BY <1>1, <1>2
     DEF ServicesNext, serviceVars, SignInStep, CacheStep, AccessStep, ProcessStep, QueueStep

(* The same of the process.                                                *)
LEMMA ProcessInServices ==
    /\ ServicesInit => Process!Init
    /\ [ServicesNext]_serviceVars => [Process!Next]_(Process!vars)
<1>1. ServicesInit => Process!Init
  BY DEF ServicesInit
<1>2. ASSUME [ServicesNext]_serviceVars, UNCHANGED runVars PROVE UNCHANGED Process!vars
  BY <1>2 DEF runVars, Process!vars, Process!redisVars, Process!parts
<1>. QED
  BY <1>1, <1>2
     DEF ServicesNext, serviceVars, SignInStep, CacheStep, AccessStep, ProcessStep, QueueStep

(* The same of the queues.                                                 *)
LEMMA QueuesInServices ==
    /\ ServicesInit => Queues!Init
    /\ [ServicesNext]_serviceVars => [Queues!Next]_(Queues!vars)
<1>1. ServicesInit => Queues!Init
  BY DEF ServicesInit
<1>2. ASSUME [ServicesNext]_serviceVars, UNCHANGED jobVars PROVE UNCHANGED Queues!vars
  BY <1>2 DEF jobVars, Queues!vars
<1>. QED
  BY <1>1, <1>2
     DEF ServicesNext, serviceVars, SignInStep, CacheStep, AccessStep, ProcessStep, QueueStep

(* The same of signing in.                                                 *)
LEMMA SignInInServices ==
    /\ ServicesInit => Init
    /\ [ServicesNext]_serviceVars => [Next]_vars
<1>1. ServicesInit => Init
  BY DEF ServicesInit
<1>. QED
  BY <1>1
     DEF ServicesNext, serviceVars, SignInStep, CacheStep, AccessStep, ProcessStep, QueueStep

(* The same of the caches.                                                 *)
LEMMA CachesInServices ==
    /\ ServicesInit => Caches!Init
    /\ [ServicesNext]_serviceVars => [Caches!Next]_(Caches!vars)
<1>1. ServicesInit => Caches!Init
  BY DEF ServicesInit
<1>2. ASSUME [ServicesNext]_serviceVars, UNCHANGED pageVars PROVE UNCHANGED Caches!vars
  BY <1>2 DEF pageVars, Caches!vars, Caches!connection, Caches!stored
<1>. QED
  BY <1>1, <1>2
     DEF ServicesNext, serviceVars, SignInStep, CacheStep, AccessStep, ProcessStep, QueueStep

(* In the services, too, what a request passes was granted to its user     *)
(* since its token was issued, and what it changes of others after it      *)
(* arrived (auth.middleware.ts, permission.middleware.ts, user.policy.ts). *)
THEOREM ServicesGrantsDecide ==
    ASSUME Bundles \subseteq SUBSET Access!Permissions
    PROVE  ServicesSpec => GrantsDecide
<1>1. Access!Spec => Access!GrantsDecide
  BY GrantsAlwaysDecide
<1>. QED  BY <1>1, AccessInServices, PTL DEF ServicesSpec, Access!Spec, GrantsDecide

(* The process exits clean and survives its outages (server.ts, redis.ts). *)
THEOREM ServicesProcessSafe ==
    ASSUME RedisRetries \in Nat
    PROVE  ServicesSpec => []ProcessSafe
<1>1. Process!Spec => []Process!ProcessSafe
  BY ProcessIsSafe
<1>. QED  BY <1>1, ProcessInServices, PTL DEF ServicesSpec, Process!Spec, ProcessSafe

(* And events become jobs, and jobs mails and notifications                *)
(* (user.events.ts, email.job.ts, notification.job.ts).                    *)
THEOREM ServicesJobsDelivered ==
    ASSUME MaxJobs \in Nat
    PROVE  ServicesSpec => []JobsDelivered
<1>1. Queues!Spec => []Queues!JobsDelivered
  BY JobsAreDelivered
<1>. QED  BY <1>1, QueuesInServices, PTL DEF ServicesSpec, Queues!Spec, JobsDelivered

(* What a cleared cache holds was read after the write, but for late pages *)
(* (cache.middleware.ts, cache.service.ts).                                *)
THEOREM ServicesWritesReachTheCaches ==
    ASSUME MaxWrites \in Nat
    PROVE  ServicesSpec => []WritesReachTheCaches
<1>1. Caches!Spec => []Caches!WritesReachTheCaches
  BY WritesAlwaysReachTheCaches
<1>. QED
  BY <1>1, CachesInServices, PTL DEF ServicesSpec, Caches!Spec, WritesReachTheCaches

(* The lock of an account and the limit of an address hold in the          *)
(* composition (user.model.ts, redis.helper.ts).                           *)
THEOREM ServicesLockout == ServicesSpec => []Lockout
<1>. QED  BY LockoutHolds, SignInInServices, PTL DEF ServicesSpec, Spec

(* What the configuration may say of all the parts.                        *)
ServicesBounds ==
    /\ MaxWrites \in Nat /\ MaxChanges \in Nat /\ ProcessBounds /\ QueuesBounds
    /\ Bundles \subseteq SUBSET Access!Permissions

(* Every part keeps its types in the composition: no counter passes its    *)
(* bound, no job is tried more often than QUEUE_ATTEMPTS says              *)
(* (queues/connection.ts), start() gives up after its last attempt         *)
(* (database.ts), and no page has more writes than were begun.             *)
THEOREM ServicesAreTyped ==
    ASSUME ServicesBounds
    PROVE  ServicesSpec => []ServicesTypeOK
<1>1. /\ MaxWrites \in Nat /\ MaxChanges \in Nat
      /\ ProcessBounds /\ QueuesBounds /\ Bundles \subseteq SUBSET Access!Permissions
  BY DEF ServicesBounds
<1>2. Spec => []TypeOK
  <2>1. IInv => TypeOK
    BY DEF IInv
  <2>. QED  BY <2>1, InitStep, NextStep, PTL DEF Spec
<1>3. Caches!Spec => []Caches!TypeOK
  BY <1>1, CachesAreTyped
<1>4. Access!Spec => []Access!TypeOK
  BY <1>1, AccessIsTyped
<1>5. Process!Spec => []Process!TypeOK
  BY <1>1, ProcessIsTyped
<1>6. Queues!Spec => []Queues!TypeOK
  BY <1>1, QueuesAreTyped
<1>7. TypeOK /\ Caches!TypeOK /\ Access!TypeOK /\ Process!TypeOK /\ Queues!TypeOK
        => ServicesTypeOK
  BY Zenon DEF ServicesTypeOK
<1>. QED
  BY <1>2, <1>3, <1>4, <1>5, <1>6, <1>7, SignInInServices, CachesInServices,
     AccessInServices, ProcessInServices, QueuesInServices, PTL
     DEF ServicesSpec, Spec, Caches!Spec, Access!Spec, Process!Spec, Queues!Spec
=============================================================================
