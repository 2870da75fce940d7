------------------------- MODULE RefreshTokensProofs -------------------------
EXTENDS RefreshTokens, FiniteSetTheorems, TLAPS

-----------------------------------------------------------------------------
(***************************************************************************)
(* SessionsKept and SessionsEnded of RefreshTokens, for any number of      *)
(* requests and of tokens.                                                 *)
(*                                                                         *)
(* Both are about one session at a time, as long as its requests came one  *)
(* after the other and no call failed (TokenOrderly).  Then at most one of *)
(* its tokens is live, and a live token the client has was not replaced    *)
(* (TokenLone); the request that works for the session finds the stores as *)
(* the one before left them (TokenTurn); a request that revokes every      *)
(* token has seen each that is live (TokenSwept); and what the client      *)
(* holds is live and copied until the session ends (TokenKept).            *)
(***************************************************************************)

TokenOps == {"refresh", "login", "logout", "logoutAll", "changePassword", "idle"}

\* Where a request can stand.
TokenPlacesOf(op) ==
    CASE op = "refresh" -> {"read", "delete", "refuse", "find", "store", "backup", "retire",
                            "load", "save", "reply"}
      [] op = "login" -> {"store", "backup", "save", "reply"}
      [] op = "logout" -> {"read", "forget", "find"}
      [] op = "logoutAll" -> {"scan", "sweep"}
      [] op = "changePassword" -> {"password", "scan", "sweep"}
      [] op = "idle" -> {"idle"}

\* Where the token a request issues is not stored, and where it is.
TokenEarly == {"read", "delete", "refuse"}
TokenStored == {"backup", "retire", "load", "save", "reply"}

TokenRecords ==
    [op : TokenOps, at : UNION {TokenPlacesOf(op) : op \in TokenOps}, token : Nat,
     next : Nat, found : BOOLEAN, keys : SUBSET Nat, stale : BOOLEAN]

TokenForAll(s) == request[s].op \in {"logoutAll", "changePassword"}

(* The session a request works for, and whether a slot works for f.        *)
TokenSide(r) ==
    IF r.op \in {"refresh", "logout"} THEN family[r.token]
    ELSE IF r.op = "login" THEN r.next ELSE 0
TokenWorks(s, f) == TokenSide(request[s]) = f

(* A request in a slot.                                                    *)
TokenRequestOK(r) ==
    /\ r \in TokenRecords /\ r.at \in TokenPlacesOf(r.op)
    /\ IF r.op \in {"refresh", "logout"} THEN r.token \in received ELSE r.token = 0
    /\ IF r.op = "login" \/ (r.op = "refresh" /\ r.at \in {"store"} \cup TokenStored)
       THEN r.next \in 1..issued /\ r.next \notin received
       ELSE r.next = 0
    /\ r.op = "login" =>
          /\ family[r.next] = r.next /\ r.found = FALSE
          /\ \A t \in 1..issued : family[t] = r.next => t = r.next
    /\ r.op = "refresh" /\ r.next # 0 => family[r.next] = family[r.token]
    /\ r.keys \subseteq 1..issued
    /\ \A t \in r.keys : family[t] \in ended

TokenStores ==
    /\ prefixed \in BOOLEAN /\ up \in BOOLEAN /\ failed \in BOOLEAN
    /\ isActive \in BOOLEAN /\ (~up => failed)
    /\ live \subseteq 1..issued
    /\ copy \in [1..MaxTokens -> {"none", "active", "revoked"}]

TokenSigned ==
    /\ issued \in Nat /\ issued \in 1..MaxTokens
    /\ 1..issued \subseteq 1..MaxTokens
    /\ received \subseteq 1..issued
    /\ family \in [1..MaxTokens -> Nat] /\ parent \in [1..MaxTokens -> Nat]
    /\ held \in [1..MaxTokens -> Nat]
    /\ \A t \in 1..issued : family[t] \in 1..t
    /\ \A t \in 1..MaxTokens :
          parent[t] # 0 => t <= issued /\ parent[t] \in received
    /\ \A f \in 1..MaxTokens :
          held[f] # 0 => held[f] \in received /\ family[held[f]] = f
    /\ closed \subseteq received

TokenSlots ==
    /\ DOMAIN request = Slots
    /\ \A s \in Slots : TokenRequestOK(request[s])
    /\ \A s, x \in Slots :
          request[s].next # 0 /\ request[s].next = request[x].next => s = x

TokenShapes == TokenStores /\ TokenSigned /\ TokenSlots

(* No two requests work for the session at a time.                         *)
TokenTurns(f) ==
    f \notin overlapped =>
        \A s, x \in Slots :
            TokenWorks(s, f) /\ (TokenWorks(x, f) \/ TokenForAll(x)) => s = x

TokenLone(f) ==
    /\ \A t, u \in live : family[t] = f /\ family[u] = f => t = u
    /\ \A t \in live : family[t] = f =>
          /\ t \in received => t = held[f]
          /\ \A c \in 1..issued : parent[c] # t
    /\ \A c, d \in 1..issued :
          parent[c] # 0 /\ parent[c] = parent[d] /\ family[parent[c]] = f
              => c = d
    /\ \A t \in closed : family[t] = f =>
          \A u \in live : family[u] # f

(* What the request that works for the session relies on.                  *)
TokenTurn(r, f) ==
    /\ r.at = "delete" => r.token \in live
    /\ r.at = "refuse" => r.token \notin live
    /\ r.op = "refresh" /\ r.at = "find" => \A c \in 1..issued : parent[c] # r.token
    /\ (r.op = "refresh" /\ r.at = "find") \/ r.at = "store" =>
          /\ \A u \in live : family[u] # f
          /\ \A t \in closed : family[t] # f
    /\ r.at \in TokenStored => r.next \in live
    /\ r.at \in TokenStored \ {"backup"} /\ f \notin reused /\ ~prefixed =>
          copy[r.next] = "active"
    /\ r.at = "forget" /\ r.found => r.token \in live
    /\ r.op = "logout" /\ r.at = "find" =>
          /\ r.token \notin live
          /\ r.found => \A u \in live : family[u] # f

TokenSwept(f) ==
    \A s \in Slots : request[s].at = "sweep" /\ ~prefixed =>
        \A t \in live : family[t] = f => t \in request[s].keys

(* What the client holds.                                                  *)
TokenKept(f) ==
    /\ /\ held[f] # 0 /\ f \notin ended
       /\ \A s \in Slots : TokenWorks(s, f) => request[s].at \in TokenEarly
       => held[f] \in live
    /\ f \notin reused /\ ~prefixed =>
          \A t \in live : t \in received /\ family[t] = f => copy[t] = "active"

TokenSafe(f) ==
    Orderly(f) =>
        /\ TokenLone(f) /\ TokenSwept(f) /\ TokenKept(f)
        /\ \A s \in Slots : TokenWorks(s, f) => TokenTurn(request[s], f)

TokenIInv ==
    /\ TokenShapes
    /\ \A f \in 1..MaxTokens : TokenTurns(f)
    /\ \A f \in 1..MaxTokens : TokenSafe(f)

-----------------------------------------------------------------------------
(* What a step does to the requests.                                       *)

(* A request but for whether its copy of the user document is stale.       *)
TokenAlike(q, r) ==
    /\ q \in TokenRecords
    /\ q.op = r.op /\ q.at = r.at /\ q.token = r.token /\ q.next = r.next
    /\ q.found = r.found /\ q.keys = r.keys

(* The request of one slot moves on to r, the others stay.                 *)
TokenMoves(s, r) ==
    /\ DOMAIN request' = Slots /\ request'[s] = r
    /\ \A x \in Slots \ {s} : TokenAlike(request'[x], request[x])

(* It goes on at `place` with what it had.                                 *)
TokenGoesTo(s, r, place) ==
    /\ TokenMoves(s, r)
    /\ r.at = place /\ r.op = request[s].op /\ r.token = request[s].token
    /\ r.next = request[s].next /\ r.found = request[s].found
    /\ r.keys = request[s].keys

(* It ends.                                                                *)
TokenEnds(s, r) ==
    /\ TokenMoves(s, r) /\ r \in TokenRecords /\ r.op = "idle" /\ r.at = "idle"
    /\ r.token = 0 /\ r.next = 0 /\ r.keys = {}

(* The places of a request are places.                                     *)
LEMMA TokenPlaces ==
    ASSUME NEW op \in TokenOps, NEW at \in TokenPlacesOf(op)
    PROVE  at \in UNION {TokenPlacesOf(o) : o \in TokenOps}
OBVIOUS

(* The record of an idle request.                                          *)
LEMMA TokenIdle ==
    /\ Idle \in TokenRecords /\ Idle.op = "idle" /\ Idle.at = "idle"
    /\ Idle.token = 0 /\ Idle.next = 0 /\ Idle.keys = {}
    /\ Idle.found = FALSE
<1>1. "idle" \in TokenOps /\ "idle" \in TokenPlacesOf("idle")
  BY DEF TokenOps, TokenPlacesOf
<1>2. "idle" \in UNION {TokenPlacesOf(o) : o \in TokenOps}
  BY <1>1, TokenPlaces
<1>. QED  BY <1>1, <1>2 DEF Idle, None, TokenRecords

(* A request that goes on.                                                 *)
LEMMA TokenGoto ==
    ASSUME TokenSlots, NEW s \in Slots, NEW place \in TokenPlacesOf(request[s].op),
           Goto(s, place)
    PROVE  \E r \in TokenRecords : TokenGoesTo(s, r, place)
<1>. DEFINE r == [request[s] EXCEPT !.at = place]
<1>1. \A x \in Slots : request[x] \in TokenRecords
  BY DEF TokenSlots, TokenRequestOK
<1>2. place \in UNION {TokenPlacesOf(o) : o \in TokenOps}
  BY <1>1, TokenPlaces DEF TokenRecords
<1>3. r \in TokenRecords
  BY <1>1, <1>2 DEF TokenRecords
<1>4. /\ DOMAIN request' = Slots /\ request'[s] = r
      /\ \A x \in Slots \ {s} : request'[x] = request[x]
  BY DEF TokenSlots, Goto
<1>5. TokenMoves(s, r)
  BY <1>1, <1>4 DEF TokenMoves, TokenAlike
<1>6. /\ r.at = place /\ r.op = request[s].op /\ r.token = request[s].token
      /\ r.next = request[s].next /\ r.found = request[s].found
      /\ r.keys = request[s].keys
  BY <1>1 DEF TokenRecords
<1>. QED  BY <1>3, <1>5, <1>6 DEF TokenGoesTo

(* A request that ends.                                                    *)
LEMMA TokenDone ==
    ASSUME TokenSlots, NEW s \in Slots, Done(s)
    PROVE  \E r \in TokenRecords : TokenEnds(s, r)
<1>1. \A x \in Slots : request[x] \in TokenRecords
  BY DEF TokenSlots, TokenRequestOK
<1>2. /\ DOMAIN request' = Slots /\ request'[s] = Idle
      /\ \A x \in Slots \ {s} : request'[x] = request[x]
  BY DEF TokenSlots, Done
<1>3. TokenMoves(s, Idle)
  BY <1>1, <1>2 DEF TokenMoves, TokenAlike
<1>. QED  BY <1>3, TokenIdle DEF TokenEnds

(* The session a request works for is what the model says.                 *)
LEMMA TokenSideIs ==
    ASSUME TokenShapes, NEW s \in Slots
    PROVE  /\ FamilyOf(request[s]) = TokenSide(request[s])
           /\ Busy(s) <=> request[s].op # "idle"
           /\ TokenSide(request[s]) \in 0..issued
           /\ request[s].op \in {"refresh", "login", "logout"} =>
                  TokenSide(request[s]) # 0
<1>1. TokenRequestOK(request[s])
  BY DEF TokenShapes, TokenSlots
<1>2. /\ request[s].op \in TokenOps /\ issued \in Nat
      /\ \A t \in received : t # 0 /\ family[t] \in 1..issued
      /\ Busy(s) <=> request[s].op # "idle"
  BY <1>1 DEF TokenShapes, TokenSigned, TokenRequestOK, TokenRecords, Busy
<1>3. CASE request[s].op \in {"refresh", "logout"}
  <2>1. request[s].token \in received
    BY <1>1, <1>3 DEF TokenRequestOK
  <2>. QED  BY <1>2, <1>3, <2>1 DEF TokenSide, FamilyOf, None
<1>4. CASE request[s].op = "login"
  <2>1. /\ request[s].token = 0 /\ request[s].next \in 1..issued
        /\ family[request[s].next] = request[s].next
    BY <1>1, <1>4 DEF TokenRequestOK
  <2>. QED  BY <1>2, <1>4, <2>1 DEF TokenSide, FamilyOf, None
<1>5. CASE request[s].op \in {"logoutAll", "changePassword", "idle"}
  <2>1. request[s].token = 0 /\ request[s].next = 0
    BY <1>1, <1>5 DEF TokenRequestOK
  <2>. QED  BY <1>2, <1>5, <2>1 DEF TokenSide, FamilyOf, None
<1>. QED  BY <1>2, <1>3, <1>4, <1>5 DEF TokenOps

(* What a step leaves alone that signs no token and answers no client.     *)
TokenUnsigned ==
    UNCHANGED <<prefixed, issued, family, parent, received, held>>

(* What is stored is well-formed after such a step.                        *)
TokenStoredWell ==
    /\ TokenStores' /\ closed' \subseteq received /\ ended \subseteq ended'

(* Such a step of one slot keeps the shapes.                               *)
LEMMA TokenShapesKept ==
    ASSUME TokenShapes, NEW s \in Slots, NEW r, TokenMoves(s, r), TokenUnsigned, TokenStoredWell,
           r \in TokenRecords, TokenRequestOK(r)', r.next \in {0, request[s].next}
    PROVE  TokenShapes'
<1>1. TokenSigned'
  BY DEF TokenShapes, TokenSigned, TokenUnsigned, TokenStoredWell
<1>2. ASSUME NEW x \in Slots \ {s} PROVE TokenRequestOK(request[x])'
  <2>1. TokenRequestOK(request[x]) /\ TokenAlike(request'[x], request[x])
    BY DEF TokenShapes, TokenSlots, TokenMoves
  <2>. QED  BY <2>1 DEF TokenRequestOK, TokenAlike, TokenUnsigned, TokenStoredWell
<1>3. \A x \in Slots : TokenRequestOK(request[x])'
  <2>1. TokenRequestOK(request[s])'
    BY DEF TokenMoves, TokenRequestOK
  <2>. QED  BY <1>2, <2>1
<1>4. \A x \in Slots : request'[x].next \in {0, request[x].next}
  BY DEF TokenMoves, TokenAlike
<1>5. \A x, y \in Slots :
          request'[x].next # 0 /\ request'[x].next = request'[y].next => x = y
  BY <1>4 DEF TokenShapes, TokenSlots
<1>. QED  BY <1>1, <1>3, <1>5 DEF TokenShapes, TokenSlots, TokenMoves, TokenStoredWell

(* A request that goes on or ends is a request still.                      *)
LEMMA TokenGoesOnOK ==
    ASSUME TokenShapes, NEW s \in Slots, NEW r \in TokenRecords,
           NEW place \in TokenPlacesOf(request[s].op), TokenGoesTo(s, r, place),
           place \in {"store"} \cup TokenStored <=>
               request[s].at \in {"store"} \cup TokenStored,
           TokenUnsigned, TokenStoredWell
    PROVE  TokenShapes'
<1>1. TokenRequestOK(request[s])
  BY DEF TokenShapes, TokenSlots
<1>2. TokenRequestOK(r)'
  BY <1>1 DEF TokenRequestOK, TokenGoesTo, TokenUnsigned, TokenStoredWell
<1>. QED  BY <1>2, TokenShapesKept DEF TokenGoesTo

(* The same when it ends.                                                  *)
LEMMA TokenEndsOK ==
    ASSUME TokenShapes, NEW s \in Slots, NEW r \in TokenRecords, TokenEnds(s, r),
           TokenUnsigned, TokenStoredWell
    PROVE  TokenShapes'
<1>1. TokenRequestOK(r)'
  BY DEF TokenRequestOK, TokenEnds, TokenPlacesOf
<1>. QED  BY <1>1, TokenShapesKept DEF TokenEnds

-----------------------------------------------------------------------------
(* What a step does to a session.                                          *)

(* A step that has nothing to do with the session f.                       *)
TokenApart(f) ==
    /\ issued' >= issued /\ held'[f] = held[f]
    /\ \A t \in 1..issued' : family'[t] = f => t \in 1..issued /\ family[t] = f
    /\ \A t \in 1..issued : family'[t] = family[t]
    /\ \A t \in 1..issued : family[t] = f =>
          /\ t \in live' <=> t \in live
          /\ t \in received' <=> t \in received
          /\ t \in closed' => t \in closed
          /\ copy[t] = "active" => copy'[t] = "active"
    /\ \A c \in 1..issued' :
          parent'[c] # 0 /\ family'[parent'[c]] = f =>
              c \in 1..issued /\ parent[c] = parent'[c]

(* What only grows.                                                        *)
TokenGrows ==
    /\ overlapped \subseteq overlapped' /\ reused \subseteq reused'
    /\ ended \subseteq ended' /\ (failed => failed')
    /\ prefixed' = prefixed

(* What a request that works for f deals with belongs to f.                *)
LEMMA TokenSideOf ==
    ASSUME TokenShapes, NEW s \in Slots, NEW f \in 1..MaxTokens, TokenWorks(s, f)
    PROVE  /\ request[s].op \in {"refresh", "login", "logout"}
           /\ request[s].op \in {"refresh", "logout"} =>
                 /\ request[s].token \in 1..issued
                 /\ request[s].token \in received
                 /\ family[request[s].token] = f
           /\ request[s].next # 0 =>
                 /\ request[s].next \in 1..issued
                 /\ request[s].next \notin received
                 /\ family[request[s].next] = f
<1>1. TokenRequestOK(request[s]) /\ TokenSide(request[s]) = f
  BY DEF TokenShapes, TokenSlots, TokenWorks
<1>2. request[s].op \in {"refresh", "login", "logout"} /\ received \subseteq 1..issued
  BY <1>1 DEF TokenRequestOK, TokenRecords, TokenOps, TokenSide, TokenShapes, TokenSigned
<1>. QED  BY <1>1, <1>2 DEF TokenRequestOK, TokenSide

(* The session a request works for does not change while it is in flight.  *)
LEMMA TokenSideKept ==
    ASSUME TokenShapes, \A t \in 1..issued : family'[t] = family[t],
           NEW x \in Slots, TokenAlike(request'[x], request[x])
    PROVE  /\ TokenSide(request[x])' = TokenSide(request[x])
           /\ TokenForAll(x)' <=> TokenForAll(x)
<1>1. TokenRequestOK(request[x]) /\ received \subseteq 1..issued
  BY DEF TokenShapes, TokenSlots, TokenSigned
<1>2. request[x].op \in {"refresh", "logout"} => request[x].token \in received
  BY <1>1 DEF TokenRequestOK
<1>3. /\ request'[x].op = request[x].op /\ request'[x].token = request[x].token
      /\ request'[x].next = request[x].next
  BY DEF TokenAlike
<1>4. TokenForAll(x)' <=> TokenForAll(x)
  BY <1>3 DEF TokenForAll
<1>5. request[x].op \in {"refresh", "logout"} =>
          family'[request[x].token] = family[request[x].token]
  BY <1>1, <1>2
<1>6. TokenSide(request[x])' = TokenSide(request[x])
  BY <1>3, <1>5 DEF TokenSide
<1>. QED  BY <1>4, <1>6

(* Requests still take turns when one goes on or ends.                     *)
LEMMA TokenTurnsKept ==
    ASSUME TokenIInv, NEW s \in Slots, NEW r, TokenMoves(s, r), TokenGrows,
           \A t \in 1..issued : family'[t] = family[t],
           TokenSide(r)' \in {0, TokenSide(request[s])},
           r.op \in {"logoutAll", "changePassword"} => TokenForAll(s)
    PROVE  \A f \in 1..MaxTokens : TokenTurns(f)'
<1>1. \A x \in Slots \ {s} : /\ TokenSide(request[x])' = TokenSide(request[x])
                             /\ TokenForAll(x)' <=> TokenForAll(x)
  BY TokenSideKept DEF TokenMoves, TokenIInv
<1>2. TokenSide(request[s])' = TokenSide(r)' /\ (TokenForAll(s)' => TokenForAll(s))
  BY DEF TokenMoves, TokenSide, TokenForAll
<1>3. \A x \in Slots, f \in 1..MaxTokens :
          /\ TokenWorks(x, f)' => TokenWorks(x, f)
          /\ TokenForAll(x)' => TokenForAll(x)
  BY <1>1, <1>2 DEF TokenWorks
<1>. QED  BY <1>3 DEF TokenTurns, TokenIInv, TokenGrows

(* A session a step has nothing to do with stays as safe as it was.        *)
LEMMA TokenSafeApart ==
    ASSUME TokenIInv, NEW s \in Slots, NEW r, TokenMoves(s, r), TokenGrows, TokenShapes',
           NEW f \in 1..MaxTokens, TokenApart(f), ~TokenWorks(s, f), TokenSide(r)' # f,
           r.at = "sweep" /\ ~prefixed /\ f \notin overlapped' /\ ~failed' =>
               \A t \in live' : family'[t] = f => t \in r.keys
    PROVE  TokenSafe(f)'
<1>. SUFFICES ASSUME f \notin overlapped', ~failed'
              PROVE  /\ TokenLone(f)' /\ TokenSwept(f)' /\ TokenKept(f)'
                     /\ \A x \in Slots : TokenWorks(x, f)' => TokenTurn(request[x], f)'
  BY DEF TokenSafe, Orderly
<1>1. /\ TokenLone(f) /\ TokenSwept(f) /\ TokenKept(f)
      /\ \A x \in Slots : TokenWorks(x, f) => TokenTurn(request[x], f)
  BY DEF TokenIInv, TokenSafe, Orderly, TokenGrows
<1>2. /\ live \subseteq 1..issued /\ live' \subseteq 1..issued'
      /\ received \subseteq 1..issued /\ received' \subseteq 1..issued'
      /\ closed' \subseteq received' /\ closed \subseteq received
      /\ issued \in Nat /\ issued' \in Nat
  BY DEF TokenIInv, TokenShapes, TokenStores, TokenSigned
<1>3. /\ \A t \in live' : family'[t] = f => t \in live /\ family[t] = f
      /\ \A t \in live : family[t] = f => t \in live' /\ family'[t] = f
  BY <1>2 DEF TokenApart
<1>4. \A x \in Slots \ {s} : /\ TokenWorks(x, f)' <=> TokenWorks(x, f)
                             /\ TokenForAll(x)' <=> TokenForAll(x)
                             /\ TokenAlike(request'[x], request[x])
  BY TokenSideKept DEF TokenMoves, TokenIInv, TokenApart, TokenWorks
<1>5. ~TokenWorks(s, f)'
  BY DEF TokenWorks, TokenMoves, TokenSide
<1>6. TokenLone(f)'
  <2>1. \A t, u \in live' : family'[t] = f /\ family'[u] = f => t = u
    BY <1>1, <1>3 DEF TokenLone
  <2>2. ASSUME NEW t \in live', family'[t] = f
        PROVE  /\ t \in received' => t = held'[f]
               /\ \A c \in 1..issued' : parent'[c] # t
    <3>1. t \in live /\ family[t] = f /\ t \in 1..issued /\ t # 0
      BY <1>2, <1>3, <2>2
    <3>2. t \in received' => t = held'[f]
      BY <1>1, <3>1 DEF TokenLone, TokenApart
    <3>3. \A c \in 1..issued' : parent'[c] # t
      BY <1>1, <2>2, <3>1 DEF TokenLone, TokenApart
    <3>. QED  BY <3>2, <3>3
  <2>3. ASSUME NEW c \in 1..issued', NEW d \in 1..issued', parent'[c] # 0,
               parent'[c] = parent'[d], family'[parent'[c]] = f
        PROVE  c = d
    <3>1. /\ c \in 1..issued /\ parent[c] = parent'[c]
          /\ d \in 1..issued /\ parent[d] = parent'[d]
      BY <2>3 DEF TokenApart
    <3>2. parent[c] \in received
      BY <1>2, <2>3, <3>1 DEF TokenIInv, TokenShapes, TokenSigned
    <3>3. family[parent[c]] = f
      BY <1>2, <2>3, <3>1, <3>2 DEF TokenApart
    <3>. QED  BY <1>1, <2>3, <3>1, <3>3 DEF TokenLone
  <2>4. ASSUME NEW t \in closed', family'[t] = f
        PROVE  \A u \in live' : family'[u] # f
    <3>1. t \in closed /\ family[t] = f
      BY <1>2, <2>4 DEF TokenApart
    <3>. QED  BY <1>1, <1>3, <3>1 DEF TokenLone
  <2>. QED  BY <2>1, <2>2, <2>3, <2>4 DEF TokenLone
<1>7. TokenSwept(f)'
  <2>1. ASSUME NEW x \in Slots \ {s}, request'[x].at = "sweep", ~prefixed',
               NEW t \in live', family'[t] = f
        PROVE  t \in request'[x].keys
    BY <1>1, <1>3, <1>4, <2>1 DEF TokenSwept, TokenAlike, TokenGrows
  <2>2. request'[s] = r
    BY DEF TokenMoves
  <2>. QED  BY <2>1, <2>2 DEF TokenSwept, TokenGrows
<1>8. TokenKept(f)'
  <2>1. ASSUME held'[f] # 0, f \notin ended',
               \A x \in Slots : TokenWorks(x, f)' => request'[x].at \in TokenEarly
        PROVE  held'[f] \in live'
    <3>1. \A x \in Slots : TokenWorks(x, f) => request[x].at \in TokenEarly
      BY <1>4, <2>1 DEF TokenAlike
    <3>2. held[f] \in live /\ family[held[f]] = f
      BY <1>1, <2>1, <3>1 DEF TokenKept, TokenApart, TokenGrows, TokenIInv, TokenShapes, TokenSigned
    <3>. QED  BY <1>3, <3>2 DEF TokenApart
  <2>2. ASSUME f \notin reused', ~prefixed', NEW t \in live', t \in received',
               family'[t] = f
        PROVE  copy'[t] = "active"
    <3>1. t \in live /\ family[t] = f /\ t \in 1..issued
      BY <1>2, <1>3, <2>2
    <3>. QED  BY <1>1, <2>2, <3>1 DEF TokenKept, TokenApart, TokenGrows
  <2>. QED  BY <2>1, <2>2 DEF TokenKept
<1>9. ASSUME NEW x \in Slots, TokenWorks(x, f)' PROVE TokenTurn(request[x], f)'
  <2>1. x # s /\ TokenWorks(x, f) /\ TokenAlike(request'[x], request[x])
    BY <1>4, <1>5, <1>9
  <2>2. TokenTurn(request[x], f)
    BY <1>1, <2>1
  <2>3. /\ request[x].op \in {"refresh", "logout"} =>
              request[x].token \in 1..issued /\ family[request[x].token] = f
        /\ request[x].op \in {"refresh", "logout"} => request[x].token # 0
        /\ request[x].next # 0 =>
              request[x].next \in 1..issued /\ family[request[x].next] = f
    BY <1>2, <2>1, TokenSideOf DEF TokenIInv
  <2>4. /\ request[x].at \in {"delete", "refuse", "forget"} =>
              request[x].op \in {"refresh", "logout"}
        /\ request[x].at \in TokenStored => request[x].next # 0
    <3>1. TokenRequestOK(request[x])
      BY DEF TokenIInv, TokenShapes, TokenSlots
    <3>. QED  BY <1>2, <3>1 DEF TokenRequestOK, TokenRecords, TokenOps, TokenPlacesOf, TokenStored
  <2>5. \A t \in 1..issued : family[t] = f =>
            /\ t \in live' <=> t \in live
            /\ copy[t] = "active" => copy'[t] = "active"
    BY DEF TokenApart
  <2>6. (\A u \in live : family[u] # f) => \A u \in live' : family'[u] # f
    BY <1>3
  <2>7. (\A t \in closed : family[t] # f) => \A t \in closed' : family'[t] # f
    BY <1>2 DEF TokenApart
  <2>8. request[x].op = "refresh" /\ (\A c \in 1..issued : parent[c] # request[x].token)
            => \A c \in 1..issued' : parent'[c] # request[x].token
    BY <2>3 DEF TokenApart
  <2>. QED
    BY <2>1, <2>2, <2>3, <2>4, <2>5, <2>6, <2>7, <2>8 DEF TokenTurn, TokenAlike, TokenGrows
<1>. QED  BY <1>6, <1>7, <1>8, <1>9

(* While requests take turns no other one works for the session, and none  *)
(* revokes every token.                                                    *)
LEMMA TokenAlone ==
    ASSUME TokenIInv, NEW s \in Slots, NEW g \in 1..MaxTokens, TokenWorks(s, g),
           g \notin overlapped, ~failed
    PROVE  /\ TokenLone(g) /\ TokenKept(g) /\ TokenTurn(request[s], g) /\ up
           /\ \A x \in Slots \ {s} : ~TokenWorks(x, g) /\ ~TokenForAll(x)
BY DEF TokenIInv, TokenSafe, TokenTurns, Orderly, TokenShapes, TokenStores

(* A request at a sweep revokes every token.                               *)
LEMMA TokenSweeps ==
    ASSUME TokenSlots, NEW s \in Slots, request[s].at \in {"scan", "sweep", "password"}
    PROVE  TokenForAll(s) /\ TokenSide(request[s]) = 0
           /\ \A f \in 1..MaxTokens : ~TokenWorks(s, f)
BY DEF TokenSlots, TokenRequestOK, TokenRecords, TokenOps, TokenPlacesOf, TokenForAll, TokenSide,
   TokenWorks

(* A step of a request that works for the session g: what is left to show. *)
LEMMA TokenStepOf ==
    ASSUME TokenIInv, NEW s \in Slots, NEW g \in 1..MaxTokens, TokenWorks(s, g), NEW r,
           TokenMoves(s, r), TokenGrows, TokenShapes', TokenSide(r)' \in {0, g},
           r.op \notin {"logoutAll", "changePassword"},
           \A t \in 1..issued : family'[t] = family[t],
           \A f \in 1..MaxTokens : f # g => TokenApart(f),
           g \notin overlapped' /\ ~failed' =>
               TokenLone(g)' /\ TokenKept(g)' /\ (TokenSide(r)' = g => TokenTurn(r, g)')
    PROVE  TokenIInv'
<1>1. \A f \in 1..MaxTokens : TokenTurns(f)'
  BY TokenTurnsKept DEF TokenWorks
<1>2. r.at # "sweep"
  <2>1. TokenSlots' /\ request'[s] = r
    BY DEF TokenShapes, TokenMoves
  <2>. QED
    BY <2>1 DEF TokenSlots, TokenRequestOK, TokenRecords, TokenOps, TokenPlacesOf
<1>3. ASSUME NEW f \in 1..MaxTokens, f # g PROVE TokenSafe(f)'
  <2>1. ~TokenWorks(s, f) /\ TokenSide(r)' # f /\ TokenApart(f)
    BY <1>3 DEF TokenWorks
  <2>. QED  BY <1>2, <2>1, TokenSafeApart
<1>4. TokenSafe(g)'
  <2>. SUFFICES ASSUME g \notin overlapped', ~failed'
                PROVE  /\ TokenSwept(g)'
                       /\ \A x \in Slots : TokenWorks(x, g)' => TokenTurn(request[x], g)'
    BY DEF TokenSafe, Orderly
  <2>1. \A x \in Slots \ {s} : ~TokenWorks(x, g) /\ ~TokenForAll(x)
    BY TokenAlone DEF TokenGrows
  <2>2. \A x \in Slots \ {s} : ~TokenWorks(x, g)' /\ ~TokenForAll(x)'
    BY <2>1, TokenSideKept DEF TokenIInv, TokenMoves, TokenWorks
  <2>3. TokenSwept(g)'
    <3>1. \A x \in Slots : request'[x].at # "sweep"
      <4>1. \A x \in Slots \ {s} : request'[x].op \notin {"logoutAll", "changePassword"}
        BY <2>2 DEF TokenForAll
      <4>2. \A x \in Slots : TokenRequestOK(request[x])'
        BY DEF TokenShapes, TokenSlots
      <4>3. \A x \in Slots \ {s} : request'[x].at # "sweep"
        BY <4>1, <4>2 DEF TokenRequestOK, TokenRecords, TokenOps, TokenPlacesOf
      <4>. QED  BY <1>2, <4>3 DEF TokenMoves
    <3>. QED  BY <3>1 DEF TokenSwept
  <2>4. TokenWorks(s, g)' => TokenTurn(request[s], g)'
    BY DEF TokenMoves, TokenWorks, TokenTurn, TokenSide
  <2>. QED  BY <2>2, <2>3, <2>4
<1>. QED  BY <1>1, <1>3, <1>4 DEF TokenIInv

(* A step of a request that revokes every token: what is left to show.     *)
LEMMA TokenStepForAll ==
    ASSUME TokenIInv, NEW s \in Slots, TokenForAll(s), NEW r,
           TokenMoves(s, r), TokenGrows, TokenShapes', TokenSide(r)' = 0,
           \A t \in 1..issued : family'[t] = family[t],
           \A f \in 1..MaxTokens : f \notin overlapped' /\ ~failed' =>
               TokenLone(f)' /\ TokenKept(f)' /\ TokenSwept(f)'
    PROVE  TokenIInv'
<1>1. TokenSide(request[s]) = 0
  BY DEF TokenForAll, TokenSide
<1>2. \A f \in 1..MaxTokens : TokenTurns(f)'
  <2>1. r.op \in {"logoutAll", "changePassword"} => TokenForAll(s)
    OBVIOUS
  <2>. QED  BY <2>1, TokenTurnsKept
<1>3. ASSUME NEW f \in 1..MaxTokens, f \notin overlapped', ~failed', NEW x \in Slots
      PROVE  ~TokenWorks(x, f)'
  <2>1. ~TokenWorks(x, f)
    BY <1>1, <1>3 DEF TokenIInv, TokenTurns, TokenGrows, TokenWorks
  <2>2. CASE x = s
    BY <2>2 DEF TokenMoves, TokenWorks, TokenSide
  <2>3. CASE x # s
    BY <2>1, <2>3, TokenSideKept DEF TokenIInv, TokenMoves, TokenWorks
  <2>. QED  BY <2>2, <2>3
<1>4. \A f \in 1..MaxTokens : TokenSafe(f)'
  BY <1>3 DEF TokenSafe, Orderly
<1>. QED  BY <1>2, <1>4 DEF TokenIInv

(* A step that moves no data: no session but g has to do with it.          *)
LEMMA TokenApartWhenStill ==
    ASSUME TokenIInv,
           UNCHANGED <<live, copy, issued, family, parent, received,
                       held, closed>>
    PROVE  \A f \in 1..MaxTokens : TokenApart(f)
BY DEF TokenApart, TokenIInv, TokenShapes, TokenSigned

(* What is said of the tokens alone stays when they do.                    *)
LEMMA TokenLoneWhenStill ==
    ASSUME NEW f, TokenLone(f),
           UNCHANGED <<live, issued, family, parent, received,
                       held, closed>>
    PROVE  TokenLone(f)'
BY DEF TokenLone

-----------------------------------------------------------------------------
(* Requests arrive.                                                        *)

(* A request begins in an idle slot: what is left to show.                 *)
LEMMA TokenBegins ==
    ASSUME TokenIInv, NEW s \in Slots, request[s].op = "idle", NEW r,
           TokenMoves(s, r), TokenGrows, TokenShapes', NEW g, g = TokenSide(r)',
           r.at \notin {"idle", "sweep"},
           \A t \in 1..issued : family'[t] = family[t],
           \A f \in 1..MaxTokens : f # g => TokenApart(f),
           g \notin overlapped' => \A x \in Slots \ {s} : ~TokenWorks(x, g) /\ ~TokenForAll(x),
           g \in 1..MaxTokens /\ g \notin overlapped' /\ ~failed' =>
               TokenLone(g)' /\ TokenKept(g)' /\ TokenTurn(r, g)',
           r.op \notin {"logoutAll", "changePassword"}
    PROVE  TokenIInv'
<1>1. /\ TokenSide(request[s]) = 0 /\ ~TokenForAll(s)
      /\ \A f \in 1..MaxTokens : ~TokenWorks(s, f)
  BY DEF TokenSide, TokenForAll, TokenWorks
<1>2. \A x \in Slots \ {s} : /\ TokenSide(request[x])' = TokenSide(request[x])
                             /\ TokenForAll(x)' <=> TokenForAll(x)
  BY TokenSideKept DEF TokenIInv, TokenMoves
<1>3. TokenSide(request[s])' = g /\ ~TokenForAll(s)'
  BY DEF TokenMoves, TokenSide, TokenForAll
<1>4. ASSUME NEW f \in 1..MaxTokens PROVE TokenTurns(f)'
  <2>. SUFFICES ASSUME f \notin overlapped', NEW x \in Slots, NEW y \in Slots,
                       TokenSide(request[x])' = f,
                       TokenSide(request[y])' = f \/ TokenForAll(y)'
                PROVE  x = y
    BY DEF TokenTurns, TokenWorks
  <2>1. CASE x = s
    <3>1. g = f /\ \A z \in Slots \ {s} : ~TokenWorks(z, g) /\ ~TokenForAll(z)
      BY <1>3, <2>1
    <3>. QED  BY <1>2, <2>1, <3>1 DEF TokenWorks
  <2>2. CASE x # s
    <3>1. TokenWorks(x, f)
      BY <1>2, <2>2 DEF TokenWorks
    <3>2. CASE y = s
      BY <1>3, <2>2, <3>1, <3>2
    <3>3. CASE y # s
      BY <1>2, <3>1, <3>3 DEF TokenIInv, TokenTurns, TokenGrows, TokenWorks
    <3>. QED  BY <3>2, <3>3
  <2>. QED  BY <2>1, <2>2
<1>5. ASSUME NEW f \in 1..MaxTokens, f # g PROVE TokenSafe(f)'
  <2>1. ~TokenWorks(s, f) /\ TokenSide(r)' # f /\ TokenApart(f)
    BY <1>1, <1>5
  <2>. QED  BY <2>1, TokenSafeApart
<1>6. ASSUME g \in 1..MaxTokens PROVE TokenSafe(g)'
  <2>. SUFFICES ASSUME g \notin overlapped', ~failed'
                PROVE  /\ TokenSwept(g)'
                       /\ \A x \in Slots : TokenWorks(x, g)' => TokenTurn(request[x], g)'
    BY <1>6 DEF TokenSafe, Orderly
  <2>1. \A x \in Slots \ {s} : ~TokenWorks(x, g)' /\ ~TokenForAll(x)'
    BY <1>2 DEF TokenWorks
  <2>2. \A x \in Slots : request'[x].at # "sweep"
    <3>1. \A x \in Slots \ {s} : TokenRequestOK(request[x])'
                                 /\ request'[x].op \notin {"logoutAll", "changePassword"}
      BY <2>1 DEF TokenShapes, TokenSlots, TokenForAll
    <3>. QED
      BY <3>1 DEF TokenRequestOK, TokenRecords, TokenOps, TokenPlacesOf, TokenMoves
  <2>3. TokenTurn(request[s], g)'
    BY <1>6 DEF TokenMoves, TokenTurn
  <2>. QED  BY <2>1, <2>2, <2>3 DEF TokenSwept
<1>. QED  BY <1>4, <1>5, <1>6 DEF TokenIInv

(* A request begins in the slot s.                                         *)
TokenFresh(s, op, at, token, next) ==
    /\ request[s].op = "idle"
    /\ \E r \in TokenRecords :
          /\ TokenMoves(s, r) /\ r.op = op /\ r.at = at /\ r.token = token
          /\ r.next = next /\ r.keys = {} /\ r.found = FALSE

(* What begins.                                                            *)
LEMMA TokenBegun ==
    ASSUME TokenShapes, NEW s \in Slots, NEW op \in TokenOps, NEW at \in TokenPlacesOf(op),
           NEW token \in Nat, NEW next \in Nat, Begin(s, op, at, token, next)
    PROVE  TokenFresh(s, op, at, token, next)
<1>. DEFINE r == [Idle EXCEPT !.op = op, !.at = at, !.token = token, !.next = next]
<1>1. at \in UNION {TokenPlacesOf(o) : o \in TokenOps}
  BY TokenPlaces
<1>2. /\ r \in TokenRecords /\ r.op = op /\ r.at = at /\ r.token = token /\ r.next = next
      /\ r.keys = {} /\ r.found = FALSE
  BY <1>1, TokenIdle DEF TokenRecords
<1>3. /\ DOMAIN request' = Slots /\ request'[s] = r
      /\ \A x \in Slots \ {s} : request'[x] = request[x]
  BY DEF TokenShapes, TokenSlots, Begin
<1>4. TokenMoves(s, r)
  BY <1>3 DEF TokenMoves, TokenAlike, TokenShapes, TokenSlots, TokenRequestOK
<1>. QED  BY <1>2, <1>4 DEF TokenFresh, Begin, Busy

(* Sessions a new request does not overlap with have no other request.     *)
LEMMA TokenOverlaps ==
    ASSUME TokenShapes, NEW F, NEW f \in F, f \notin Overlaps(F), f # 0
    PROVE  \A x \in Slots : ~TokenWorks(x, f) /\ ~TokenForAll(x)
<1>1. ASSUME NEW x \in Slots, TokenForAll(x) PROVE FALSE
  BY <1>1 DEF Overlaps, TokenForAll
<1>2. ASSUME NEW x \in Slots, TokenWorks(x, f) PROVE FALSE
  <2>1. FamilyOf(request[x]) = f /\ request[x].op # "idle"
    BY <1>2, TokenSideIs DEF TokenWorks, TokenSide
  <2>2. Busy(x)
    BY <2>1 DEF Busy
  <2>. QED  BY <2>1, <2>2 DEF Overlaps
<1>. QED  BY <1>1, <1>2

(* refreshAccessToken and logout begin.                                    *)
LEMMA TokenStartOneStep ==
    ASSUME TokenIInv, NEW s \in Slots, StartRefresh(s) \/ StartLogout(s)
    PROVE  TokenIInv'
<1>1. PICK op \in {"refresh", "logout"}, t \in received :
          /\ Begin(s, op, "read", t, None)
          /\ overlapped' = overlapped \cup Overlaps({family[t]})
          /\ UNCHANGED <<prefixed, up, failed, isActive, live, copy,
                         issued, family, parent, received, held,
                         ended, reused, closed>>
  BY DEF StartRefresh, StartLogout, environment, signed,
     client
<1>2. /\ op \in TokenOps /\ "read" \in TokenPlacesOf(op) /\ t \in Nat /\ 0 \in Nat
      /\ t \in 1..issued /\ family[t] \in 1..MaxTokens
      /\ TokenShapes /\ issued \in Nat
  <2>1. op \in TokenOps /\ "read" \in TokenPlacesOf(op)
    BY DEF TokenOps, TokenPlacesOf
  <2>2. TokenShapes /\ issued \in Nat /\ t \in 1..issued
    BY DEF TokenIInv, TokenShapes, TokenSigned
  <2>3. family[t] \in 1..issued
    BY <2>2 DEF TokenShapes, TokenSigned
  <2>. QED  BY <2>1, <2>2, <2>3 DEF TokenShapes, TokenSigned
<1>3. TokenFresh(s, op, "read", t, 0)
  <2>1. Begin(s, op, "read", t, 0)
    BY <1>1 DEF None
  <2>. QED  BY <1>2, <2>1, TokenBegun
<1>4. PICK r \in TokenRecords :
          /\ TokenMoves(s, r) /\ r.op = op /\ r.at = "read" /\ r.token = t
          /\ r.next = 0 /\ r.keys = {} /\ r.found = FALSE
  BY <1>3 DEF TokenFresh
<1>5. PICK g : g = family[t]
  OBVIOUS
<1>6. TokenShapes'
  <2>1. TokenUnsigned /\ TokenStoredWell
    BY <1>1, <1>2 DEF TokenUnsigned, TokenStoredWell, TokenShapes, TokenStores, TokenSigned
  <2>2. TokenRequestOK(r)'
    BY <1>1, <1>2, <1>4 DEF TokenRequestOK, TokenStored
  <2>. QED  BY <1>2, <1>4, <2>1, <2>2, TokenShapesKept
<1>7. TokenGrows /\ TokenSide(r)' = g
  BY <1>1, <1>4, <1>5 DEF TokenGrows, TokenSide
<1>8. \A f \in 1..MaxTokens : TokenApart(f)
  BY <1>1, TokenApartWhenStill
<1>9. g \notin overlapped' => \A x \in Slots \ {s} : ~TokenWorks(x, g) /\ ~TokenForAll(x)
  <2>1. g \in {family[t]} /\ g # 0
    BY <1>2, <1>5
  <2>. QED  BY <1>1, <1>2, <2>1, TokenOverlaps
<1>10. g \in 1..MaxTokens /\ g \notin overlapped' /\ ~failed' =>
           TokenLone(g)' /\ TokenKept(g)' /\ TokenTurn(r, g)'
  <2>. SUFFICES ASSUME g \in 1..MaxTokens, g \notin overlapped', ~failed'
                PROVE  TokenLone(g)' /\ TokenKept(g)' /\ TokenTurn(r, g)'
    OBVIOUS
  <2>1. TokenLone(g) /\ TokenKept(g)
    BY <1>1 DEF TokenIInv, TokenSafe, Orderly
  <2>2. TokenLone(g)'
    BY <1>1, <2>1, TokenLoneWhenStill
  <2>3. \A x \in Slots : ~TokenWorks(x, g)
    BY <1>2, <1>3, <1>5, <1>9 DEF TokenWorks, TokenSide, TokenFresh
  <2>4. TokenKept(g)'
    BY <1>1, <2>1, <2>3 DEF TokenKept
  <2>5. TokenTurn(r, g)'
    BY <1>4 DEF TokenTurn, TokenStored
  <2>. QED  BY <2>2, <2>4, <2>5
<1>11. \A u \in 1..issued : family'[u] = family[u]
  BY <1>1
<1>12. /\ r.at \notin {"idle", "sweep"} /\ r.op \notin {"logoutAll", "changePassword"}
       /\ request[s].op = "idle" /\ g = TokenSide(r)' /\ TokenMoves(s, r) /\ TokenGrows
  BY <1>3, <1>4, <1>7 DEF TokenFresh
<1>. QED
  BY <1>6, <1>8, <1>9, <1>10, <1>11, <1>12, TokenBegins

(* logoutAll, changePassword and resetPassword begin.                      *)
LEMMA TokenStartForAllStep ==
    ASSUME TokenIInv, NEW s \in Slots, StartForAll(s)
    PROVE  TokenIInv'
<1>1. PICK op \in {"logoutAll", "changePassword"} :
          /\ Begin(s, op, IF op = "logoutAll" THEN "scan" ELSE "password",
                            None, None)
          /\ overlapped' = overlapped \cup
                 ({FamilyOf(request[x]) : x \in {y \in Slots : Busy(y)}}
                  \ {None})
          /\ UNCHANGED <<prefixed, up, failed, isActive, live, copy,
                         issued, family, parent, received, held,
                         ended, reused, closed>>
  BY DEF StartForAll, environment, signed, client
<1>2. PICK at \in {"scan", "password"} : at = IF op = "logoutAll" THEN "scan" ELSE "password"
  OBVIOUS
<1>3. op \in TokenOps /\ at \in TokenPlacesOf(op) /\ None = 0 /\ 0 \in Nat /\ TokenShapes
  BY <1>2 DEF TokenOps, TokenPlacesOf, TokenIInv, None
<1>4. Begin(s, op, at, 0, 0)
  BY <1>1, <1>2, <1>3
<1>5. TokenFresh(s, op, at, 0, 0)
  BY <1>3, <1>4, TokenBegun
<1>6. PICK r \in TokenRecords :
          /\ TokenMoves(s, r) /\ r.op = op /\ r.at = at /\ r.token = 0
          /\ r.next = 0 /\ r.keys = {} /\ r.found = FALSE
  BY <1>5 DEF TokenFresh
<1>7. TokenShapes'
  <2>1. TokenUnsigned /\ TokenStoredWell
    BY <1>1, <1>3 DEF TokenUnsigned, TokenStoredWell, TokenShapes, TokenStores, TokenSigned
  <2>2. TokenRequestOK(r)'
    BY <1>1, <1>3, <1>6 DEF TokenRequestOK, TokenStored
  <2>. QED  BY <1>3, <1>6, <2>1, <2>2, TokenShapesKept
<1>8. TokenGrows /\ 0 = TokenSide(r)'
  BY <1>1, <1>6 DEF TokenGrows, TokenSide
<1>9. \A f \in 1..MaxTokens : TokenApart(f)
  BY <1>1, TokenApartWhenStill
<1>10. ASSUME NEW f \in 1..MaxTokens, f \notin overlapped', NEW x \in Slots, TokenWorks(x, f)
       PROVE  FALSE
  <2>1. FamilyOf(request[x]) = f /\ Busy(x) /\ f # 0
    BY <1>3, <1>10, TokenSideIs DEF TokenWorks, TokenSide, Busy
  <2>. QED  BY <1>1, <1>3, <1>10, <2>1
<1>11. \A u \in 1..issued : family'[u] = family[u]
  BY <1>1
<1>12. \A f \in 1..MaxTokens : TokenTurns(f)'
  <2>1. \A x \in Slots \ {s} : TokenSide(request[x])' = TokenSide(request[x])
    BY <1>3, <1>6, <1>11, TokenSideKept DEF TokenMoves
  <2>2. TokenSide(request[s])' = 0
    BY <1>6, <1>8 DEF TokenMoves, TokenSide
  <2>3. ASSUME NEW f \in 1..MaxTokens, f \notin overlapped', NEW x \in Slots
        PROVE  TokenSide(request[x])' # f
    BY <1>10, <2>1, <2>2, <2>3 DEF TokenWorks
  <2>. QED  BY <2>3 DEF TokenTurns, TokenWorks
<1>13. ASSUME NEW f \in 1..MaxTokens PROVE TokenSafe(f)'
  <2>1. ~TokenWorks(s, f) /\ TokenSide(r)' # f /\ r.at # "sweep" /\ TokenApart(f)
    BY <1>2, <1>5, <1>6, <1>8, <1>9 DEF TokenWorks, TokenSide, TokenFresh
  <2>. QED  BY <1>6, <1>7, <1>8, <2>1, TokenSafeApart
<1>. QED  BY <1>7, <1>12, <1>13 DEF TokenIInv

(* login and register begin to issue tokens.                               *)
LEMMA TokenStartLoginStep ==
    ASSUME TokenIInv, MaxTokens \in Nat, NEW s \in Slots, StartLogin(s)
    PROVE  TokenIInv'
<1>. PICK g : g = issued + 1
  OBVIOUS
<1>1. /\ issued < MaxTokens /\ g = issued + 1 /\ issued' = g
      /\ family' = [family EXCEPT ![g] = g]
      /\ Begin(s, "login", "store", None, g)
      /\ overlapped' = overlapped \cup Overlaps({g})
      /\ UNCHANGED <<prefixed, up, failed, isActive, live, copy,
                     parent, received, held, ended, reused,
                     closed>>
  BY DEF StartLogin, environment, client
<1>2. /\ TokenShapes /\ issued \in Nat /\ g \in Nat /\ g \in 1..MaxTokens
      /\ received \subseteq 1..issued /\ live \subseteq 1..issued
      /\ family \in [1..MaxTokens -> Nat] /\ closed \subseteq received
  <2>1. TokenShapes /\ issued \in Nat
    BY DEF TokenIInv, TokenShapes, TokenSigned
  <2>2. g \in Nat /\ g \in 1..MaxTokens
    BY <1>1, <2>1
  <2>. QED  BY <2>1, <2>2 DEF TokenShapes, TokenSigned, TokenStores
<1>3. TokenFresh(s, "login", "store", 0, g)
  <2>1. "login" \in TokenOps /\ "store" \in TokenPlacesOf("login") /\ 0 \in Nat
    BY DEF TokenOps, TokenPlacesOf
  <2>2. Begin(s, "login", "store", 0, g)
    BY <1>1 DEF None
  <2>. QED  BY <1>2, <2>1, <2>2, TokenBegun
<1>4. PICK r \in TokenRecords :
          /\ TokenMoves(s, r) /\ r.op = "login" /\ r.at = "store" /\ r.token = 0
          /\ r.next = g /\ r.keys = {} /\ r.found = FALSE
  BY <1>3 DEF TokenFresh
<1>5. /\ \A t \in 1..issued : family'[t] = family[t] /\ family[t] \in 1..t
      /\ family'[g] = g /\ family' \in [1..MaxTokens -> Nat]
      /\ \A t \in 1..issued' : t \in 1..issued \/ t = g
  BY <1>1, <1>2 DEF TokenShapes, TokenSigned
<1>6. TokenShapes'
  <2>1. TokenSigned'
    <3>1. \A t \in 1..issued' : family'[t] \in 1..t
      BY <1>2, <1>5
    <3>2. \A f \in 1..MaxTokens : held'[f] # 0 =>
              held'[f] \in received' /\ family'[held'[f]] = f
      BY <1>1, <1>2, <1>5 DEF TokenShapes, TokenSigned
    <3>3. /\ issued' \in Nat /\ issued' \in 1..MaxTokens /\ 1..issued' \subseteq 1..MaxTokens
          /\ received' \subseteq 1..issued' /\ closed' \subseteq received'
      BY <1>1, <1>2
    <3>4. /\ parent' \in [1..MaxTokens -> Nat] /\ held' \in [1..MaxTokens -> Nat]
          /\ \A t \in 1..MaxTokens :
                parent'[t] # 0 => t <= issued' /\ parent'[t] \in received'
      BY <1>1, <1>2 DEF TokenShapes, TokenSigned
    <3>. QED  BY <1>5, <3>1, <3>2, <3>3, <3>4 DEF TokenSigned
  <2>2. TokenStores'
    BY <1>1, <1>2 DEF TokenShapes, TokenStores
  <2>3. ASSUME NEW x \in Slots \ {s}
        PROVE  TokenRequestOK(request[x])' /\ request[x].next # g
    <3>1. TokenRequestOK(request[x]) /\ TokenAlike(request'[x], request[x])
      BY <1>2, <1>4 DEF TokenShapes, TokenSlots, TokenMoves
    <3>2. request[x].next # g
      BY <1>2, <3>1 DEF TokenRequestOK
    <3>3. request[x].op = "login" =>
             \A t \in 1..issued' : family'[t] = request[x].next => t = request[x].next
      BY <1>5, <3>1, <3>2 DEF TokenRequestOK
    <3>. QED  BY <1>1, <1>2, <1>5, <3>1, <3>2, <3>3 DEF TokenRequestOK, TokenAlike
  <2>4. TokenRequestOK(request[s])'
    <3>1. \A t \in 1..issued' : family'[t] = g => t = g
      BY <1>2, <1>5
    <3>2. r.at \in TokenPlacesOf(r.op) /\ g \in 1..issued' /\ g \notin received'
      BY <1>1, <1>2, <1>4 DEF TokenPlacesOf
    <3>3. TokenRequestOK(r)'
      BY <1>4, <1>5, <3>1, <3>2 DEF TokenRequestOK
    <3>. QED  BY <1>4, <3>3 DEF TokenRequestOK, TokenMoves
  <2>5. \A x \in Slots \ {s} : request'[x].next = request[x].next
        /\ request[x].next # g /\ request'[s].next = g
    BY <1>4, <2>3 DEF TokenMoves, TokenAlike
  <2>6. \A x, y \in Slots :
            request'[x].next # 0 /\ request'[x].next = request'[y].next => x = y
    BY <1>2, <2>5 DEF TokenShapes, TokenSlots
  <2>. QED  BY <1>4, <2>1, <2>2, <2>3, <2>4, <2>6 DEF TokenShapes, TokenSlots, TokenMoves
<1>7. TokenGrows /\ TokenSide(r)' = g
  BY <1>1, <1>4 DEF TokenGrows, TokenSide
<1>8. ASSUME NEW f \in 1..MaxTokens, f # g PROVE TokenApart(f)
  <2>1. \A c \in 1..issued' :
            parent'[c] # 0 => c \in 1..issued /\ parent[c] = parent'[c]
    BY <1>1, <1>2 DEF TokenShapes, TokenSigned
  <2>. QED  BY <1>1, <1>2, <1>5, <1>8, <2>1 DEF TokenApart
<1>9. g \notin overlapped' => \A x \in Slots \ {s} : ~TokenWorks(x, g) /\ ~TokenForAll(x)
  <2>1. g \in {g} /\ g # 0
    BY <1>2
  <2>. QED  BY <1>1, <1>2, <2>1, TokenOverlaps
<1>10. TokenLone(g)' /\ TokenKept(g)' /\ TokenTurn(r, g)'
  <2>1. \A t \in live' : family'[t] # g
    BY <1>1, <1>2, <1>5
  <2>2. \A t \in received : t \in 1..issued /\ family'[t] # g
    BY <1>2, <1>5
  <2>3. \A c \in 1..issued' : parent'[c] # 0 => parent'[c] \in received
    BY <1>1, <1>2 DEF TokenShapes, TokenSigned
  <2>4. TokenLone(g)'
    BY <1>1, <1>2, <2>1, <2>2, <2>3 DEF TokenLone
  <2>5. held'[g] = 0
    <3>1. held[g] # 0 => held[g] \in received /\ family[held[g]] = g
      BY <1>2 DEF TokenShapes, TokenSigned
    <3>2. \A t \in received : family[t] # g
      BY <1>2, <1>5, <2>2
    <3>. QED  BY <1>1, <3>1, <3>2
  <2>6. TokenKept(g)'
    BY <2>1, <2>5 DEF TokenKept
  <2>7. TokenTurn(r, g)'
    BY <1>1, <1>2, <1>4, <2>1, <2>2 DEF TokenTurn, TokenStored, TokenEarly
  <2>. QED  BY <2>4, <2>6, <2>7
<1>11. /\ r.at \notin {"idle", "sweep"} /\ r.op \notin {"logoutAll", "changePassword"}
       /\ request[s].op = "idle" /\ g = TokenSide(r)' /\ TokenMoves(s, r) /\ TokenGrows
  BY <1>3, <1>4, <1>7 DEF TokenFresh
<1>12. \A t \in 1..issued : family'[t] = family[t]
  BY <1>5
<1>13. \A f \in 1..MaxTokens : f # g => TokenApart(f)
  BY <1>8
<1>14. g \in 1..MaxTokens /\ g \notin overlapped' /\ ~failed' =>
           TokenLone(g)' /\ TokenKept(g)' /\ TokenTurn(r, g)'
  BY <1>10
<1>. QED
  BY <1>6, <1>9, <1>11, <1>12, <1>13, <1>14, TokenBegins

-----------------------------------------------------------------------------
(* The request reads, loads or saves.                                      *)

(* A request that is neither idle nor revokes every token works for one    *)
(* session.                                                                *)
LEMMA TokenWorker ==
    ASSUME TokenIInv, NEW s \in Slots,
           request[s].at \notin {"idle", "scan", "sweep", "password"}
    PROVE  /\ TokenRequestOK(request[s]) /\ request[s].op \in {"refresh", "login", "logout"}
           /\ \E g \in 1..MaxTokens :
                 TokenWorks(s, g) /\ g # 0 /\ FamilyOf(request[s]) = g
<1>1. TokenRequestOK(request[s]) /\ TokenShapes
  BY DEF TokenIInv, TokenShapes, TokenSlots
<1>2. request[s].op \in {"refresh", "login", "logout"}
  BY <1>1 DEF TokenRequestOK, TokenRecords, TokenOps, TokenPlacesOf
<1>3. TokenSide(request[s]) \in 1..issued /\ issued \in 1..MaxTokens
      /\ FamilyOf(request[s]) = TokenSide(request[s])
  BY <1>1, <1>2, TokenSideIs DEF TokenShapes, TokenSigned
<1>4. TokenSide(request[s]) \in 1..MaxTokens /\ TokenSide(request[s]) # 0
  BY <1>1, <1>3 DEF TokenShapes, TokenSigned
<1>. QED  BY <1>1, <1>2, <1>3, <1>4 DEF TokenWorks

(* Such a step moves no data: what is left to show.                        *)
LEMMA TokenStillStep ==
    ASSUME TokenIInv, NEW s \in Slots, NEW g \in 1..MaxTokens, TokenWorks(s, g), NEW r,
           TokenMoves(s, r), TokenGrows, TokenShapes', TokenSide(r)' \in {0, g},
           r.op \notin {"logoutAll", "changePassword"},
           UNCHANGED <<live, copy, issued, family, parent, received,
                       held, closed>>,
           g \notin ended' /\ (TokenSide(r)' = g => r.at \in TokenEarly) /\ ~failed' =>
               request[s].at \in TokenEarly,
           g \notin overlapped' /\ ~failed' /\ TokenSide(r)' = g => TokenTurn(r, g)'
    PROVE  TokenIInv'
<1>1. \A f \in 1..MaxTokens : TokenApart(f)
  BY TokenApartWhenStill
<1>2. ASSUME g \notin overlapped', ~failed' PROVE TokenLone(g)' /\ TokenKept(g)'
  <2>1. TokenLone(g) /\ TokenKept(g) /\ \A x \in Slots \ {s} : ~TokenWorks(x, g)
    BY <1>2, TokenAlone DEF TokenGrows
  <2>2. TokenLone(g)'
    BY <2>1, TokenLoneWhenStill
  <2>3. ASSUME held'[g] # 0, g \notin ended',
               \A x \in Slots : TokenWorks(x, g)' => request'[x].at \in TokenEarly
        PROVE  held'[g] \in live'
    <3>1. TokenSide(r)' = g => r.at \in TokenEarly
      BY <2>3 DEF TokenMoves, TokenWorks, TokenSide
    <3>2. \A x \in Slots : TokenWorks(x, g) => request[x].at \in TokenEarly
      BY <1>2, <2>1, <2>3, <3>1
    <3>. QED  BY <2>1, <2>3, <3>2 DEF TokenKept, TokenGrows
  <2>4. TokenKept(g)'
    BY <2>1, <2>3 DEF TokenKept, TokenGrows
  <2>. QED  BY <2>2, <2>4
<1>3. \A t \in 1..issued : family'[t] = family[t]
  OBVIOUS
<1>4. g \notin overlapped' /\ ~failed' =>
          TokenLone(g)' /\ TokenKept(g)' /\ (TokenSide(r)' = g => TokenTurn(r, g)')
  BY <1>2
<1>. QED  BY <1>1, <1>3, <1>4, TokenStepOf

(* Redis answers whether the token is live.                                *)
LEMMA TokenReadStep ==
    ASSUME TokenIInv, NEW s \in Slots, ReadToken(s)
    PROVE  TokenIInv'
<1>1. PICK place \in {"delete", "refuse"} :
          /\ request[s].at = "read" /\ request[s].op = "refresh"
          /\ Goto(s, place)
          /\ place = IF up /\ request[s].token \in live THEN "delete" ELSE "refuse"
          /\ UNCHANGED <<prefixed, up, failed, isActive, live, copy,
                         issued, family, parent, received, held,
                         overlapped, ended, reused, closed>>
  BY DEF ReadToken, At, RedisGet, environment,
     signed, client, history
<1>2. place \in TokenPlacesOf(request[s].op) /\ TokenShapes /\ TokenSlots /\ TokenStores
  BY <1>1 DEF TokenPlacesOf, TokenIInv, TokenShapes
<1>3. PICK r \in TokenRecords : TokenGoesTo(s, r, place)
  BY <1>1, <1>2, TokenGoto
<1>4. PICK g \in 1..MaxTokens : TokenWorks(s, g)
  BY <1>1, TokenWorker
<1>5. /\ TokenUnsigned /\ TokenStoredWell /\ TokenGrows
      /\ place \in {"store"} \cup TokenStored <=> request[s].at \in {"store"} \cup TokenStored
      /\ TokenSide(r)' = g /\ r.op = "refresh"
  BY <1>1, <1>2, <1>3, <1>4 DEF TokenUnsigned, TokenStoredWell, TokenGrows, TokenStores, TokenIInv,
     TokenShapes, TokenSigned, TokenStored, TokenSide, TokenWorks, TokenGoesTo
<1>6. TokenShapes'
  BY <1>2, <1>3, <1>5, TokenGoesOnOK
<1>7. g \notin overlapped' /\ ~failed' => TokenTurn(r, g)'
  BY <1>1, <1>2, <1>3, <1>5 DEF TokenTurn, TokenGoesTo, TokenStored, TokenStores
<1>8. request[s].at \in TokenEarly /\ TokenMoves(s, r)
  BY <1>1, <1>3 DEF TokenEarly, TokenGoesTo
<1>. QED  BY <1>1, <1>4, <1>5, <1>6, <1>7, <1>8, TokenStillStep

(* A logout looks the token up first.                                      *)
LEMMA TokenReadForLogoutStep ==
    ASSUME TokenIInv, NEW s \in Slots, ReadForLogout(s)
    PROVE  TokenIInv'
<1>1. /\ request[s].at = "read" /\ request[s].op = "logout"
      /\ request' = [request EXCEPT ![s].at = "forget",
             ![s].found = (up /\ request[s].token \in live)]
      /\ UNCHANGED <<prefixed, up, failed, isActive, live, copy,
                     issued, family, parent, received, held,
                     overlapped, ended, reused, closed>>
  BY DEF ReadForLogout, At, RedisGet, environment,
     signed, client, history
<1>2. PICK found \in BOOLEAN : found <=> (up /\ request[s].token \in live)
  BY <1>1 DEF TokenIInv, TokenShapes, TokenStores
<1>3. TokenShapes /\ \A x \in Slots : TokenRequestOK(request[x]) /\ request[x] \in TokenRecords
  BY DEF TokenIInv, TokenShapes, TokenSlots, TokenRequestOK
<1>4. PICK g \in 1..MaxTokens : TokenWorks(s, g)
  BY <1>1, TokenWorker
<1>5. PICK r \in TokenRecords :
          /\ r.at = "forget" /\ r.op = "logout" /\ r.found = found
          /\ r.token = request[s].token /\ r.next = request[s].next
          /\ r.keys = request[s].keys /\ TokenMoves(s, r)
  <2>. DEFINE r == [request[s] EXCEPT !.at = "forget", !.found = found]
  <2>1. "logout" \in TokenOps /\ "forget" \in TokenPlacesOf("logout")
    BY DEF TokenOps, TokenPlacesOf
  <2>2. "forget" \in UNION {TokenPlacesOf(op) : op \in TokenOps}
    BY <2>1, TokenPlaces
  <2>3. DOMAIN request = Slots
    BY DEF TokenIInv, TokenShapes, TokenSlots
  <2>4. TokenMoves(s, r)
    BY <1>1, <1>2, <1>3, <2>3 DEF TokenMoves, TokenAlike
  <2>5. /\ r \in TokenRecords /\ r.at = "forget" /\ r.op = "logout" /\ r.found = found
        /\ r.token = request[s].token /\ r.next = request[s].next
        /\ r.keys = request[s].keys
    BY <1>1, <1>3, <2>2 DEF TokenRecords
  <2>. QED  BY <2>4, <2>5
<1>6. /\ TokenUnsigned /\ TokenStoredWell /\ TokenGrows
  BY <1>1, <1>3 DEF TokenUnsigned, TokenStoredWell, TokenGrows, TokenStores,
     TokenShapes, TokenSigned
<1>7. TokenShapes'
  <2>1. TokenRequestOK(r)'
    BY <1>1, <1>3, <1>5 DEF TokenRequestOK, TokenPlacesOf
  <2>. QED  BY <1>3, <1>5, <1>6, <2>1, TokenShapesKept
<1>8. TokenTurn(r, g)' /\ TokenSide(r)' = g /\ r.at \notin TokenEarly
  BY <1>1, <1>2, <1>4, <1>5 DEF TokenTurn, TokenStored, TokenEarly, TokenSide, TokenWorks
<1>. QED  BY <1>1, <1>4, <1>5, <1>6, <1>7, <1>8, TokenStillStep

(* The token it issued stays stored, and copied when it was, as the        *)
(* request goes on.                                                        *)
LEMMA TokenTurnStored ==
    ASSUME TokenIInv, NEW s \in Slots, NEW g \in 1..MaxTokens, TokenWorks(s, g),
           NEW r, NEW place \in {"save", "reply"}, TokenGoesTo(s, r, place),
           request[s].at \in TokenStored \ {"backup"}, TokenGrows,
           UNCHANGED <<live, copy, family, reused>>,
           g \notin overlapped', ~failed'
    PROVE  TokenTurn(r, g)'
<1>1. TokenTurn(request[s], g)
  BY TokenAlone DEF TokenGrows
<1>. QED  BY <1>1 DEF TokenTurn, TokenGoesTo, TokenStored, TokenGrows

(* The user is loaded; a deactivated one is refused.                       *)
LEMMA TokenLoadStep ==
    ASSUME TokenIInv, NEW s \in Slots, LoadUser(s)
    PROVE  TokenIInv'
<1>1. /\ request[s].at = "load"
      /\ UNCHANGED <<prefixed, up, failed, isActive, live, copy,
                     issued, family, parent, received, held,
                     overlapped, reused, closed>>
      /\ \/ /\ \E at \in {"save", "reply"} :
                  request' = [request EXCEPT ![s].at = at, ![s].stale = FALSE]
            /\ ended' = ended
         \/ /\ Done(s)
            /\ ended' = ended \cup {FamilyOf(request[s])}
  BY DEF LoadUser, At, environment, signed, client
<1>2. TokenShapes /\ TokenSlots /\ DOMAIN request = Slots
      /\ \A x \in Slots : TokenRequestOK(request[x]) /\ request[x] \in TokenRecords
  BY DEF TokenIInv, TokenShapes, TokenSlots, TokenRequestOK
<1>3. PICK g \in 1..MaxTokens : TokenWorks(s, g) /\ g # 0
                                /\ FamilyOf(request[s]) = g
  BY <1>1, TokenWorker
<1>4. request[s].op = "refresh" /\ {"save", "reply"} \subseteq TokenPlacesOf("refresh")
      /\ "refresh" \in TokenOps
  BY <1>1, <1>2 DEF TokenRequestOK, TokenRecords, TokenOps, TokenPlacesOf
<1>5. TokenUnsigned /\ TokenStoredWell /\ TokenGrows
  BY <1>1, <1>2 DEF TokenUnsigned, TokenStoredWell, TokenGrows, TokenStores, TokenShapes, TokenSigned
<1>6. ASSUME NEW at \in {"save", "reply"}, ended' = ended,
             request' = [request EXCEPT ![s].at = at, ![s].stale = FALSE]
      PROVE  TokenIInv'
  <2>1. PICK r \in TokenRecords : TokenGoesTo(s, r, at)
    <3>. DEFINE r == [request[s] EXCEPT !.at = at, !.stale = FALSE]
    <3>1. at \in UNION {TokenPlacesOf(o) : o \in TokenOps}
      BY <1>4, <1>6, TokenPlaces
    <3>2. r \in TokenRecords /\ r.at = at /\ r.op = request[s].op
          /\ r.token = request[s].token /\ r.next = request[s].next
          /\ r.found = request[s].found /\ r.keys = request[s].keys
      BY <1>2, <3>1 DEF TokenRecords
    <3>3. TokenMoves(s, r)
      BY <1>2, <1>6 DEF TokenMoves, TokenAlike
    <3>. QED  BY <3>2, <3>3 DEF TokenGoesTo
  <2>2. at \in TokenPlacesOf(request[s].op)
        /\ (at \in {"store"} \cup TokenStored <=> request[s].at \in {"store"} \cup TokenStored)
        /\ request[s].at \in TokenStored \ {"backup"}
    BY <1>1, <1>4 DEF TokenStored
  <2>3. TokenShapes'
    BY <1>2, <1>5, <2>1, <2>2, TokenGoesOnOK
  <2>4. g \notin overlapped' /\ ~failed' => TokenTurn(r, g)'
    BY <1>1, <1>3, <1>5, <2>1, <2>2, TokenTurnStored
  <2>5. TokenSide(r)' = g /\ r.at \notin TokenEarly /\ TokenMoves(s, r)
        /\ r.op \notin {"logoutAll", "changePassword"}
    BY <1>1, <1>3, <1>4, <2>1 DEF TokenSide, TokenWorks, TokenGoesTo, TokenEarly
  <2>. QED  BY <1>1, <1>3, <1>5, <2>3, <2>4, <2>5, TokenStillStep
<1>7. ASSUME Done(s), ended' = ended \cup {g} PROVE TokenIInv'
  <2>1. PICK r \in TokenRecords : TokenEnds(s, r)
    BY <1>2, <1>7, TokenDone
  <2>2. TokenShapes'
    BY <1>2, <1>5, <2>1, TokenEndsOK
  <2>3. TokenSide(r)' = 0 /\ TokenMoves(s, r) /\ r.op \notin {"logoutAll", "changePassword"}
        /\ g \in ended'
    BY <1>7, <2>1 DEF TokenSide, TokenEnds
  <2>. QED  BY <1>1, <1>3, <1>5, <2>2, <2>3, TokenStillStep
<1>. QED  BY <1>1, <1>3, <1>6, <1>7

(* The document of the user is saved, by the request alone.                *)
LEMMA TokenSaved ==
    ASSUME TokenSlots, NEW s \in Slots, NEW place \in TokenPlacesOf(request[s].op),
           SavedUser(s, [request[s] EXCEPT !.at = place])
    PROVE  \E r \in TokenRecords : TokenGoesTo(s, r, place)
<1>. DEFINE r == [request[s] EXCEPT !.at = place]
<1>1. \A x \in Slots : request[x] \in TokenRecords
  BY DEF TokenSlots, TokenRequestOK
<1>2. place \in UNION {TokenPlacesOf(o) : o \in TokenOps}
  BY <1>1, TokenPlaces DEF TokenRecords
<1>3. /\ r \in TokenRecords
      /\ r.at = place /\ r.op = request[s].op /\ r.token = request[s].token
      /\ r.next = request[s].next /\ r.found = request[s].found
      /\ r.keys = request[s].keys
  BY <1>1, <1>2 DEF TokenRecords
<1>4. /\ DOMAIN request' = Slots /\ request'[s] = r
      /\ \A x \in Slots \ {s} :
            request'[x] = [request[x] EXCEPT !.stale = Busy(x)]
  BY DEF SavedUser
<1>5. ASSUME NEW x \in Slots \ {s} PROVE TokenAlike(request'[x], request[x])
  <2>1. Busy(x) \in BOOLEAN
    BY DEF Busy
  <2>. QED  BY <1>1, <1>4, <2>1 DEF TokenAlike, TokenRecords
<1>. QED  BY <1>3, <1>4, <1>5 DEF TokenGoesTo, TokenMoves

(* The device is saved; a stale document is refused.                       *)
LEMMA TokenSaveDeviceStep ==
    ASSUME TokenIInv, NEW s \in Slots, SaveDevice(s)
    PROVE  TokenIInv'
<1>1. /\ request[s].at = "save"
      /\ UNCHANGED <<prefixed, up, failed, isActive, live, copy,
                     issued, family, parent, received, held,
                     overlapped, reused, closed>>
      /\ \/ /\ SavedUser(s, [request[s] EXCEPT !.at = "reply"])
            /\ ended' = ended
         \/ /\ Done(s)
            /\ ended' = ended \cup {FamilyOf(request[s])}
  BY DEF SaveDevice, At, environment, signed, client
<1>2. TokenShapes /\ TokenSlots /\ TokenRequestOK(request[s])
  BY DEF TokenIInv, TokenShapes, TokenSlots
<1>3. PICK g \in 1..MaxTokens : TokenWorks(s, g) /\ g # 0
                                /\ FamilyOf(request[s]) = g
  BY <1>1, TokenWorker
<1>4. request[s].op \in {"refresh", "login"} /\ "reply" \in TokenPlacesOf(request[s].op)
  BY <1>1, <1>2 DEF TokenRequestOK, TokenRecords, TokenOps, TokenPlacesOf
<1>5. TokenUnsigned /\ TokenStoredWell /\ TokenGrows
  BY <1>1, <1>2 DEF TokenUnsigned, TokenStoredWell, TokenGrows, TokenStores, TokenShapes, TokenSigned
<1>6. ASSUME SavedUser(s, [request[s] EXCEPT !.at = "reply"]),
             ended' = ended
      PROVE  TokenIInv'
  <2>1. PICK r \in TokenRecords : TokenGoesTo(s, r, "reply")
    BY <1>2, <1>4, <1>6, TokenSaved
  <2>2. "reply" \in {"store"} \cup TokenStored <=> request[s].at \in {"store"} \cup TokenStored
    BY <1>1 DEF TokenStored
  <2>3. TokenShapes'
    BY <1>2, <1>4, <1>5, <2>1, <2>2, TokenGoesOnOK
  <2>4. g \notin overlapped' /\ ~failed' => TokenTurn(r, g)'
    <3>1. request[s].at \in TokenStored \ {"backup"} /\ "reply" \in {"save", "reply"}
      BY <1>1 DEF TokenStored
    <3>. QED  BY <1>1, <1>3, <1>5, <2>1, <3>1, TokenTurnStored
  <2>5. TokenSide(r)' = g /\ r.at \notin TokenEarly /\ TokenMoves(s, r)
        /\ r.op \notin {"logoutAll", "changePassword"}
    BY <1>1, <1>3, <1>4, <2>1 DEF TokenSide, TokenWorks, TokenGoesTo, TokenEarly
  <2>. QED  BY <1>1, <1>3, <1>5, <2>3, <2>4, <2>5, TokenStillStep
<1>7. ASSUME Done(s), ended' = ended \cup {g} PROVE TokenIInv'
  <2>1. PICK r \in TokenRecords : TokenEnds(s, r)
    BY <1>2, <1>7, TokenDone
  <2>2. TokenShapes'
    BY <1>2, <1>5, <2>1, TokenEndsOK
  <2>3. TokenSide(r)' = 0 /\ TokenMoves(s, r) /\ r.op \notin {"logoutAll", "changePassword"}
        /\ g \in ended'
    BY <1>7, <2>1 DEF TokenSide, TokenEnds
  <2>. QED  BY <1>1, <1>3, <1>5, <2>2, <2>3, TokenStillStep
<1>. QED  BY <1>1, <1>3, <1>6, <1>7

(* Where the request goes on after the backup is one of its places.        *)
LEMMA TokenAfterBackup ==
    ASSUME NEW s, TokenRequestOK(request[s]), request[s].at = "backup"
    PROVE  \E place \in {"save", "retire", "load"} :
              /\ place = AfterBackup(request[s])
              /\ place \in TokenPlacesOf(request[s].op)
<1>1. CASE request[s].op = "login"
  <2>1. AfterBackup(request[s]) = "save" /\ "save" \in TokenPlacesOf("login")
    BY <1>1 DEF AfterBackup, TokenPlacesOf, TokenRequestOK
  <2>. QED  BY <1>1, <2>1
<1>2. CASE request[s].op # "login"
  <2>1. request[s].op = "refresh"
    <3>1. request[s].op \in TokenOps /\ "backup" \in TokenPlacesOf(request[s].op)
      BY DEF TokenRequestOK, TokenRecords
    <3>. QED  BY <1>2, <3>1 DEF TokenOps, TokenPlacesOf
  <2>2. "retire" \in TokenPlacesOf("refresh") /\ "load" \in TokenPlacesOf("refresh")
    BY DEF TokenPlacesOf
  <2>3. AfterBackup(request[s]) = IF request[s].found THEN "retire" ELSE "load"
    BY <1>2 DEF AfterBackup
  <2>. QED  BY <2>1, <2>2, <2>3
<1>. QED  BY <1>1, <1>2

(* A failing backup is logged, and counts as a failure from then on.       *)
LEMMA TokenBackupFailsStep ==
    ASSUME TokenIInv, NEW s \in Slots, BackupFails(s)
    PROVE  TokenIInv'
<1>1. /\ request[s].at = "backup" /\ failed' = TRUE
      /\ Goto(s, AfterBackup(request[s]))
      /\ UNCHANGED <<prefixed, up, isActive, live, copy,
                     issued, family, parent, received, held,
                     overlapped, ended, reused, closed>>
  BY DEF BackupFails, At, environment, signed,
     client, history
<1>2. TokenShapes /\ TokenSlots /\ TokenRequestOK(request[s])
  BY DEF TokenIInv, TokenShapes, TokenSlots
<1>3. PICK g \in 1..MaxTokens : TokenWorks(s, g)
  BY <1>1, TokenWorker
<1>4. PICK place \in {"save", "retire", "load"} :
          /\ place = AfterBackup(request[s])
          /\ place \in TokenPlacesOf(request[s].op)
  BY <1>1, <1>2, TokenAfterBackup
<1>5. TokenUnsigned /\ TokenStoredWell /\ TokenGrows
  BY <1>1, <1>2 DEF TokenUnsigned, TokenStoredWell, TokenGrows, TokenStores, TokenShapes, TokenSigned
<1>6. PICK r \in TokenRecords : TokenGoesTo(s, r, place)
  BY <1>1, <1>2, <1>4, TokenGoto
<1>7. place \in {"store"} \cup TokenStored <=> request[s].at \in {"store"} \cup TokenStored
  BY <1>1, <1>4 DEF TokenStored
<1>8. TokenShapes'
  BY <1>2, <1>4, <1>5, <1>6, <1>7, TokenGoesOnOK
<1>9. TokenSide(r)' = g /\ TokenMoves(s, r) /\ r.op \notin {"logoutAll", "changePassword"}
  <2>1. request[s].op \in {"refresh", "login", "logout"}
    BY <1>1, TokenWorker
  <2>. QED  BY <1>1, <1>3, <1>6, <2>1 DEF TokenSide, TokenWorks, TokenGoesTo
<1>. QED  BY <1>1, <1>3, <1>5, <1>8, <1>9, TokenStillStep

-----------------------------------------------------------------------------
(* Every token is revoked.                                                 *)

(* While a request revokes every token no other works for the session.     *)
LEMMA TokenForAllBefore ==
    ASSUME TokenIInv, NEW s \in Slots, TokenForAll(s), NEW f \in 1..MaxTokens,
           f \notin overlapped, ~failed
    PROVE  /\ TokenLone(f) /\ TokenSwept(f) /\ up
           /\ held[f] # 0 /\ f \notin ended => held[f] \in live
           /\ f \notin reused /\ ~prefixed =>
                 \A t \in live :
                     t \in received /\ family[t] = f => copy[t] = "active"
<1>1. TokenLone(f) /\ TokenSwept(f) /\ TokenKept(f) /\ up
  BY DEF TokenIInv, TokenSafe, Orderly, TokenShapes, TokenStores
<1>2. ~TokenWorks(s, f)
  BY DEF TokenForAll, TokenWorks, TokenSide
<1>3. \A x \in Slots : ~TokenWorks(x, f)
  BY <1>2 DEF TokenIInv, TokenTurns
<1>. QED  BY <1>1, <1>3 DEF TokenKept

(* Such a step: what is left to show.                                      *)
LEMMA TokenForAllStep ==
    ASSUME TokenIInv, NEW s \in Slots, TokenForAll(s), NEW r, TokenMoves(s, r), TokenGrows,
           TokenShapes', r.op \in {"logoutAll", "changePassword", "idle"},
           UNCHANGED <<issued, family, parent, received, held,
                       overlapped, reused>>,
           live' \subseteq live,
           \A f \in 1..MaxTokens : f \notin overlapped /\ ~failed' =>
               /\ held[f] # 0 /\ f \notin ended' /\ held[f] \in live =>
                      held[f] \in live'
               /\ \A t \in live' : family[t] = f /\ copy'[t] # copy[t] =>
                      prefixed
               /\ \A t \in closed' : family[t] = f /\ t \notin closed =>
                      \A u \in live' : family[u] # f
               /\ r.at = "sweep" /\ ~prefixed =>
                      \A t \in live' : family[t] = f => t \in r.keys
    PROVE  TokenIInv'
<1>1. TokenSide(r)' = 0 /\ \A t \in 1..issued : family'[t] = family[t]
  BY DEF TokenSide
<1>2. ASSUME NEW f \in 1..MaxTokens, f \notin overlapped', ~failed'
      PROVE  TokenLone(f)' /\ TokenKept(f)' /\ TokenSwept(f)'
  <2>1. /\ f \notin overlapped /\ ~failed /\ prefixed' = prefixed
        /\ f \notin ended' => f \notin ended
    BY <1>2 DEF TokenGrows
  <2>2. /\ TokenLone(f) /\ TokenSwept(f)
        /\ held[f] # 0 /\ f \notin ended => held[f] \in live
        /\ f \notin reused /\ ~prefixed =>
              \A t \in live :
                  t \in received /\ family[t] = f => copy[t] = "active"
    BY <2>1, TokenForAllBefore
  <2>3. /\ held[f] # 0 /\ f \notin ended' /\ held[f] \in live =>
               held[f] \in live'
        /\ \A t \in live' : family[t] = f /\ copy'[t] # copy[t] => prefixed
        /\ \A t \in closed' : family[t] = f /\ t \notin closed =>
               \A u \in live' : family[u] # f
        /\ r.at = "sweep" /\ ~prefixed =>
               \A t \in live' : family[t] = f => t \in r.keys
    BY <1>2, <2>1
  <2>4. TokenLone(f)'
    BY <2>2, <2>3 DEF TokenLone
  <2>5. TokenKept(f)'
    BY <2>1, <2>2, <2>3 DEF TokenKept
  <2>6. TokenSwept(f)'
    <3>1. ASSUME NEW x \in Slots \ {s}, request'[x].at = "sweep", ~prefixed,
                 NEW t \in live', family[t] = f
          PROVE  t \in request'[x].keys
      <4>1. TokenAlike(request'[x], request[x])
        BY DEF TokenMoves
      <4>. QED  BY <2>2, <3>1, <4>1 DEF TokenSwept, TokenAlike
    <3>2. request'[s] = r
      BY DEF TokenMoves
    <3>. QED  BY <2>1, <2>3, <3>1, <3>2 DEF TokenSwept
  <2>. QED  BY <2>4, <2>5, <2>6
<1>. QED  BY <1>1, <1>2, TokenStepForAll

(* The new password is saved; a stale document is refused.                 *)
LEMMA TokenSavePasswordStep ==
    ASSUME TokenIInv, NEW s \in Slots, SavePassword(s)
    PROVE  TokenIInv'
<1>1. /\ request[s].at = "password"
      /\ UNCHANGED <<prefixed, up, failed, isActive, live, copy,
                     issued, family, parent, received, held,
                     overlapped, ended, reused, closed>>
      /\ \/ SavedUser(s, [request[s] EXCEPT !.at = "scan"])
         \/ Done(s)
  BY DEF SavePassword, At, environment, signed,
     client, history
<1>2. TokenShapes /\ TokenSlots /\ TokenRequestOK(request[s]) /\ TokenForAll(s)
  BY <1>1, TokenSweeps DEF TokenIInv, TokenShapes, TokenSlots
<1>3. TokenUnsigned /\ TokenStoredWell /\ TokenGrows
  BY <1>1, <1>2 DEF TokenUnsigned, TokenStoredWell, TokenGrows, TokenStores, TokenShapes, TokenSigned
<1>4. CASE SavedUser(s, [request[s] EXCEPT !.at = "scan"])
  <2>1. "scan" \in TokenPlacesOf(request[s].op)
    BY <1>2 DEF TokenForAll, TokenPlacesOf
  <2>2. PICK r \in TokenRecords : TokenGoesTo(s, r, "scan")
    BY <1>2, <1>4, <2>1, TokenSaved
  <2>3. "scan" \in {"store"} \cup TokenStored <=> request[s].at \in {"store"} \cup TokenStored
    BY <1>1 DEF TokenStored
  <2>4. TokenShapes'
    BY <1>2, <1>3, <2>1, <2>2, <2>3, TokenGoesOnOK
  <2>5. TokenMoves(s, r) /\ r.op \in {"logoutAll", "changePassword", "idle"} /\ r.at # "sweep"
    BY <1>2, <2>2 DEF TokenGoesTo, TokenForAll
  <2>. QED  BY <1>1, <1>2, <1>3, <2>4, <2>5, TokenForAllStep
<1>5. CASE Done(s)
  <2>1. PICK r \in TokenRecords : TokenEnds(s, r)
    BY <1>2, <1>5, TokenDone
  <2>2. TokenShapes'
    BY <1>2, <1>3, <2>1, TokenEndsOK
  <2>3. TokenMoves(s, r) /\ r.op \in {"logoutAll", "changePassword", "idle"} /\ r.at # "sweep"
    BY <2>1 DEF TokenEnds
  <2>. QED  BY <1>1, <1>2, <1>3, <2>2, <2>3, TokenForAllStep
<1>. QED  BY <1>1, <1>4, <1>5

(* The keys are scanned; without a connection the request is rejected.     *)
LEMMA TokenScanStep ==
    ASSUME TokenIInv, NEW s \in Slots, ScanTokens(s)
    PROVE  TokenIInv'
<1>. DEFINE keys == IF prefixed THEN {} ELSE live
<1>1. /\ request[s].at = "scan"
      /\ UNCHANGED <<prefixed, up, failed, isActive, live, copy,
                     issued, family, parent, received, held,
                     overlapped, reused, closed>>
      /\ \/ /\ up
            /\ request' = [request EXCEPT ![s].at = "sweep", ![s].keys = keys]
            /\ ended' = ended \cup {family[t] : t \in keys}
         \/ Done(s) /\ ended' = ended
  <2>1. live \cap Tokens = live
    BY DEF Tokens, TokenIInv, TokenShapes, TokenStores, TokenSigned
  <2>2. ScanMatch(live, prefixed, Tokens) = keys
    BY <2>1 DEF ScanMatch
  <2>. QED
    BY <2>2 DEF ScanTokens, At, environment, signed,
       client
<1>2. /\ TokenShapes /\ TokenSlots /\ TokenForAll(s) /\ DOMAIN request = Slots
      /\ \A x \in Slots : TokenRequestOK(request[x]) /\ request[x] \in TokenRecords
      /\ keys \subseteq 1..issued /\ keys \subseteq Nat /\ issued \in Nat
  <2>1. /\ TokenShapes /\ TokenSlots /\ DOMAIN request = Slots
        /\ \A x \in Slots : TokenRequestOK(request[x])
    BY DEF TokenIInv, TokenShapes, TokenSlots
  <2>2. \A x \in Slots : request[x] \in TokenRecords
    BY <2>1 DEF TokenRequestOK
  <2>3. keys \subseteq 1..issued /\ issued \in Nat
    BY <2>1 DEF TokenShapes, TokenStores, TokenSigned
  <2>4. TokenForAll(s)
    BY <1>1, <2>1, TokenSweeps
  <2>. QED  BY <2>1, <2>2, <2>3, <2>4
<1>3. TokenUnsigned /\ TokenStoredWell /\ TokenGrows
  BY <1>1, <1>2 DEF TokenUnsigned, TokenStoredWell, TokenGrows, TokenStores, TokenShapes, TokenSigned
<1>4. ASSUME request' = [request EXCEPT ![s].at = "sweep", ![s].keys = keys],
             ended' = ended \cup {family[t] : t \in keys}
      PROVE  TokenIInv'
  <2>1. "sweep" \in TokenPlacesOf(request[s].op) /\ request[s].op \in TokenOps
    BY <1>2 DEF TokenForAll, TokenPlacesOf, TokenOps
  <2>2. PICK k \in SUBSET (1..issued) : k = keys
    BY <1>2
  <2>3. PICK r \in TokenRecords :
            /\ TokenMoves(s, r) /\ r.at = "sweep" /\ r.op = request[s].op /\ r.keys = k
            /\ r.token = request[s].token /\ r.next = request[s].next
    <3>. DEFINE r == [request[s] EXCEPT !.at = "sweep", !.keys = k]
    <3>1. "sweep" \in UNION {TokenPlacesOf(o) : o \in TokenOps} /\ k \in SUBSET Nat
      BY <2>1, TokenPlaces
    <3>2. /\ r \in TokenRecords /\ r.at = "sweep" /\ r.op = request[s].op /\ r.keys = k
          /\ r.token = request[s].token /\ r.next = request[s].next
      BY <1>2, <3>1 DEF TokenRecords
    <3>3. TokenMoves(s, r)
      BY <1>2, <1>4, <2>2 DEF TokenMoves, TokenAlike
    <3>. QED  BY <3>2, <3>3
  <2>4. TokenRequestOK(r)'
    <3>1. \A t \in k : family'[t] \in ended'
      BY <1>1, <1>4, <2>2
    <3>2. k \subseteq 1..issued'
      BY <1>1
    <3>. QED
      BY <1>1, <1>2, <2>1, <2>3, <3>1, <3>2 DEF TokenRequestOK, TokenForAll, TokenStored
  <2>5. TokenShapes'
    BY <1>2, <1>3, <2>3, <2>4, TokenShapesKept
  <2>6. r.op \in {"logoutAll", "changePassword", "idle"}
        /\ (~prefixed => \A t \in live' : t \in r.keys)
    BY <1>1, <1>2, <2>2, <2>3 DEF TokenForAll
  <2>. QED  BY <1>1, <1>2, <1>3, <2>3, <2>5, <2>6, TokenForAllStep
<1>5. ASSUME Done(s), ended' = ended PROVE TokenIInv'
  <2>1. PICK r \in TokenRecords : TokenEnds(s, r)
    BY <1>2, <1>5, TokenDone
  <2>2. TokenShapes'
    BY <1>2, <1>3, <2>1, TokenEndsOK
  <2>3. TokenMoves(s, r) /\ r.op \in {"logoutAll", "changePassword", "idle"} /\ r.at # "sweep"
    BY <2>1 DEF TokenEnds
  <2>. QED  BY <1>1, <1>2, <1>3, <2>2, <2>3, TokenForAllStep
<1>. QED  BY <1>1, <1>4, <1>5

(* One token that was scanned is deleted.                                  *)
LEMMA TokenSweepStep ==
    ASSUME TokenIInv, NEW s \in Slots, SweepKey(s)
    PROVE  TokenIInv'
<1>1. PICK t \in request[s].keys :
          /\ request[s].at = "sweep"
          /\ live' = (IF up THEN live \ {t} ELSE live)
          /\ request' = [request EXCEPT ![s].keys = @ \ {t}]
          /\ UNCHANGED <<prefixed, up, failed, isActive, copy,
                         issued, family, parent, received, held,
                         overlapped, ended, reused, closed>>
  BY DEF SweepKey, At, RedisDel, environment,
     signed, client, history
<1>2. /\ TokenShapes /\ TokenSlots /\ TokenForAll(s) /\ DOMAIN request = Slots
      /\ \A x \in Slots : TokenRequestOK(request[x]) /\ request[x] \in TokenRecords
  <2>1. /\ TokenShapes /\ TokenSlots /\ DOMAIN request = Slots
        /\ \A x \in Slots : TokenRequestOK(request[x])
    BY DEF TokenIInv, TokenShapes, TokenSlots
  <2>2. \A x \in Slots : request[x] \in TokenRecords
    BY <2>1 DEF TokenRequestOK
  <2>3. TokenForAll(s)
    BY <1>1, <2>1, TokenSweeps
  <2>. QED  BY <2>1, <2>2, <2>3
<1>3. TokenUnsigned /\ TokenStoredWell /\ TokenGrows
  BY <1>1, <1>2 DEF TokenUnsigned, TokenStoredWell, TokenGrows, TokenStores, TokenShapes, TokenSigned
<1>4. PICK r \in TokenRecords :
          /\ TokenMoves(s, r) /\ r.at = "sweep" /\ r.op = request[s].op
          /\ r.keys = request[s].keys \ {t}
          /\ r.token = request[s].token /\ r.next = request[s].next
  <2>. DEFINE r == [request[s] EXCEPT !.keys = @ \ {t}]
  <2>1. /\ r \in TokenRecords /\ r.at = "sweep" /\ r.op = request[s].op
        /\ r.keys = request[s].keys \ {t}
        /\ r.token = request[s].token /\ r.next = request[s].next
    BY <1>1, <1>2 DEF TokenRecords
  <2>2. TokenMoves(s, r)
    BY <1>1, <1>2 DEF TokenMoves, TokenAlike
  <2>. QED  BY <2>1, <2>2
<1>5. TokenRequestOK(r)'
  <2>1. TokenRequestOK(request[s]) /\ request[s].op \in {"logoutAll", "changePassword"}
    BY <1>2 DEF TokenForAll
  <2>2. r.op \in {"logoutAll", "changePassword"} /\ r.token = 0 /\ r.next = 0
        /\ r.at \in TokenPlacesOf(r.op)
    BY <1>1, <1>4, <2>1 DEF TokenRequestOK
  <2>3. r.keys \subseteq 1..issued /\ \A u \in r.keys : family[u] \in ended
    BY <1>4, <2>1 DEF TokenRequestOK
  <2>. QED  BY <1>1, <2>2, <2>3 DEF TokenRequestOK
<1>6. TokenShapes'
  BY <1>2, <1>3, <1>4, <1>5, TokenShapesKept
<1>7. ASSUME NEW f \in 1..MaxTokens, f \notin overlapped, ~failed'
      PROVE  /\ held[f] # 0 /\ f \notin ended' /\ held[f] \in live =>
                    held[f] \in live'
             /\ ~prefixed => \A u \in live' : family[u] = f => u \in r.keys
  <2>1. TokenSwept(f) /\ up
    BY <1>1, <1>2, <1>7, TokenForAllBefore
  <2>2. family[t] \in ended /\ live' = live \ {t}
    BY <1>1, <1>2, <2>1 DEF TokenRequestOK
  <2>3. held[f] # 0 => family[held[f]] = f
    BY <1>2 DEF TokenShapes, TokenSigned
  <2>4. ~prefixed => \A u \in live' : family[u] = f => u \in r.keys
    BY <1>1, <1>4, <2>1, <2>2 DEF TokenSwept
  <2>. QED  BY <1>1, <2>2, <2>3, <2>4
<1>8. r.op \in {"logoutAll", "changePassword", "idle"} /\ live' \subseteq live
  BY <1>1, <1>2, <1>4 DEF TokenForAll
<1>. QED  BY <1>1, <1>2, <1>3, <1>4, <1>6, <1>7, <1>8, TokenForAllStep

(* A sweep that loses the connection is rejected: the call failed.         *)
LEMMA TokenSweepFailsStep ==
    ASSUME TokenIInv, NEW s \in Slots, SweepFails(s)
    PROVE  TokenIInv'
<1>1. /\ request[s].at = "sweep" /\ Done(s)
      /\ UNCHANGED <<prefixed, up, failed, isActive, live, copy,
                     issued, family, parent, received, held,
                     overlapped, ended, reused, closed>>
  BY DEF SweepFails, At, environment, signed, client, history
<1>2. TokenShapes /\ TokenSlots /\ TokenForAll(s)
  BY <1>1, TokenSweeps DEF TokenIInv, TokenShapes
<1>3. TokenUnsigned /\ TokenStoredWell /\ TokenGrows
  BY <1>1, <1>2 DEF TokenUnsigned, TokenStoredWell, TokenGrows, TokenStores, TokenShapes, TokenSigned
<1>4. PICK r \in TokenRecords : TokenEnds(s, r)
  BY <1>1, <1>2, TokenDone
<1>5. TokenShapes'
  BY <1>2, <1>3, <1>4, TokenEndsOK
<1>6. TokenMoves(s, r) /\ r.op \in {"logoutAll", "changePassword", "idle"} /\ r.at # "sweep"
  BY <1>4 DEF TokenEnds
<1>. QED  BY <1>1, <1>2, <1>3, <1>5, <1>6, TokenForAllStep

(* The copies are revoked and the request is answered.                     *)
LEMMA TokenRevokeCopiesStep ==
    ASSUME TokenIInv, NEW s \in Slots, RevokeCopies(s)
    PROVE  TokenIInv'
<1>1. /\ request[s].at = "sweep" /\ request[s].keys = {}
      /\ copy' = [t \in 1..MaxTokens |->
                           IF copy[t] = "active" THEN "revoked" ELSE copy[t]]
      /\ Done(s)
      /\ closed' = (IF prefixed THEN closed ELSE closed \cup received)
      /\ UNCHANGED <<prefixed, up, failed, isActive, live,
                     issued, family, parent, received, held,
                     overlapped, ended, reused>>
  BY DEF RevokeCopies, At, environment, Tokens,
     signed, client
<1>2. TokenShapes /\ TokenSlots /\ TokenForAll(s)
  BY <1>1, TokenSweeps DEF TokenIInv, TokenShapes
<1>3. TokenUnsigned /\ TokenStoredWell /\ TokenGrows
  <2>1. copy' \in [1..MaxTokens -> {"none", "active", "revoked"}]
    BY <1>1, <1>2 DEF TokenShapes, TokenStores
  <2>. QED
    BY <1>1, <1>2, <2>1 DEF TokenUnsigned, TokenStoredWell, TokenGrows, TokenStores, TokenShapes,
       TokenSigned
<1>4. PICK r \in TokenRecords : TokenEnds(s, r)
  BY <1>1, <1>2, TokenDone
<1>5. TokenShapes'
  BY <1>2, <1>3, <1>4, TokenEndsOK
<1>6. TokenMoves(s, r) /\ r.op \in {"logoutAll", "changePassword", "idle"} /\ r.at # "sweep"
  BY <1>4 DEF TokenEnds
<1>7. ASSUME NEW f \in 1..MaxTokens, f \notin overlapped, ~failed'
      PROVE  ~prefixed => \A u \in live' : family[u] # f
  <2>1. TokenSwept(f)
    BY <1>1, <1>2, <1>7, TokenForAllBefore
  <2>. QED  BY <1>1, <2>1 DEF TokenSwept
<1>8. prefixed => closed' = closed
  BY <1>1
<1>. QED  BY <1>1, <1>2, <1>3, <1>5, <1>6, <1>7, <1>8, TokenForAllStep

-----------------------------------------------------------------------------
(* The request changes what is stored of its session.                      *)

(* A step that changes the tokens of g alone.                              *)
LEMMA TokenApartOf ==
    ASSUME TokenIInv, NEW g,
           UNCHANGED <<issued, family, parent, received, held>>,
           \A t \in 1..issued : family[t] # g =>
               /\ t \in live' <=> t \in live
               /\ t \in closed' => t \in closed
               /\ copy[t] = "active" => copy'[t] = "active"
    PROVE  \A f \in 1..MaxTokens : f # g => TokenApart(f)
BY DEF TokenApart, TokenIInv, TokenShapes, TokenSigned

(* The token that is replaced leaves Redis.                                *)
LEMMA TokenDeleteStep ==
    ASSUME TokenIInv, NEW s \in Slots, DeleteToken(s) \/ ForgetToken(s)
    PROVE  TokenIInv'
<1>1. /\ request[s].at \in {"delete", "forget"} /\ Goto(s, "find")
      /\ live' = (IF up THEN live \ {request[s].token} ELSE live)
      /\ UNCHANGED <<prefixed, up, failed, isActive, copy,
                     issued, family, parent, received, held,
                     overlapped, ended, reused, closed>>
  BY DEF DeleteToken, ForgetToken, At, RedisDel,
     environment, signed, client, history
<1>2. TokenShapes /\ TokenSlots /\ TokenRequestOK(request[s])
  BY DEF TokenIInv, TokenShapes, TokenSlots
<1>3. /\ request[s].at = "delete" => request[s].op = "refresh"
      /\ request[s].at = "forget" => request[s].op = "logout"
      /\ "find" \in TokenPlacesOf(request[s].op)
  BY <1>1, <1>2 DEF TokenRequestOK, TokenRecords, TokenOps, TokenPlacesOf
<1>4. PICK g \in 1..MaxTokens : TokenWorks(s, g)
  BY <1>1, TokenWorker
<1>5. /\ request[s].token \in 1..issued /\ request[s].token \in received
      /\ family[request[s].token] = g
  BY <1>1, <1>2, <1>3, <1>4, TokenSideOf
<1>6. TokenUnsigned /\ TokenStoredWell /\ TokenGrows
  BY <1>1, <1>2 DEF TokenUnsigned, TokenStoredWell, TokenGrows, TokenStores, TokenShapes, TokenSigned
<1>7. PICK r \in TokenRecords : TokenGoesTo(s, r, "find")
  BY <1>1, <1>2, <1>3, TokenGoto
<1>8. "find" \in {"store"} \cup TokenStored <=> request[s].at \in {"store"} \cup TokenStored
  BY <1>1 DEF TokenStored
<1>9. TokenShapes'
  BY <1>2, <1>3, <1>6, <1>7, <1>8, TokenGoesOnOK
<1>10. \A f \in 1..MaxTokens : f # g => TokenApart(f)
  BY <1>1, <1>5, TokenApartOf
<1>11. ASSUME g \notin overlapped', ~failed'
       PROVE  TokenLone(g)' /\ TokenKept(g)' /\ TokenTurn(r, g)'
  <2>1. /\ TokenLone(g) /\ TokenKept(g) /\ TokenTurn(request[s], g) /\ up
    BY <1>1, <1>4, <1>11, TokenAlone
  <2>2. live' = live \ {request[s].token}
    BY <1>1, <2>1
  <2>3. TokenLone(g)'
    BY <1>1, <2>1, <2>2 DEF TokenLone
  <2>4. TokenWorks(s, g)' /\ request'[s].at \notin TokenEarly
    BY <1>1, <1>4, <1>7 DEF TokenWorks, TokenSide, TokenGoesTo, TokenMoves, TokenEarly
  <2>5. TokenKept(g)'
    BY <1>1, <2>1, <2>2, <2>4 DEF TokenKept
  <2>6. request[s].token \in live =>
            /\ \A u \in live' : family[u] # g
            /\ \A t \in closed : family[t] # g
            /\ \A c \in 1..issued : parent[c] # request[s].token
    BY <1>5, <2>1, <2>2 DEF TokenLone
  <2>7. TokenTurn(r, g)'
    <3>1. /\ request[s].at = "delete" => request[s].token \in live
          /\ request[s].at = "forget" /\ request[s].found =>
                 request[s].token \in live
      BY <2>1 DEF TokenTurn
    <3>. QED
      BY <1>1, <1>3, <1>7, <2>2, <2>6, <3>1 DEF TokenTurn, TokenGoesTo, TokenStored
  <2>. QED  BY <2>3, <2>5, <2>7
<1>12. TokenSide(r)' = g /\ TokenMoves(s, r) /\ r.op \notin {"logoutAll", "changePassword"}
       /\ \A t \in 1..issued : family'[t] = family[t]
  BY <1>1, <1>3, <1>4, <1>7 DEF TokenSide, TokenWorks, TokenGoesTo
<1>. QED  BY <1>4, <1>6, <1>9, <1>10, <1>11, <1>12, TokenStepOf

(* The new token enters Redis.                                             *)
LEMMA TokenStoreStep ==
    ASSUME TokenIInv, NEW s \in Slots, StoreToken(s)
    PROVE  TokenIInv'
<1>1. /\ request[s].at = "store" /\ Goto(s, "backup")
      /\ live' = (IF up THEN live \cup {request[s].next} ELSE live)
      /\ UNCHANGED <<prefixed, up, failed, isActive, copy,
                     issued, family, parent, received, held,
                     overlapped, ended, reused, closed>>
  BY DEF StoreToken, At, RedisSet,
     environment, signed, client, history
<1>2. TokenShapes /\ TokenSlots /\ TokenRequestOK(request[s])
  BY DEF TokenIInv, TokenShapes, TokenSlots
<1>3. /\ request[s].op \in {"refresh", "login"} /\ request[s].next # 0
      /\ "backup" \in TokenPlacesOf(request[s].op)
  BY <1>1, <1>2 DEF TokenRequestOK, TokenRecords, TokenOps, TokenPlacesOf
<1>4. PICK g \in 1..MaxTokens : TokenWorks(s, g)
  BY <1>1, TokenWorker
<1>5. /\ request[s].next \in 1..issued /\ request[s].next \notin received
      /\ family[request[s].next] = g
  BY <1>2, <1>3, <1>4, TokenSideOf
<1>6. TokenUnsigned /\ TokenStoredWell /\ TokenGrows
  BY <1>1, <1>2, <1>5 DEF TokenUnsigned, TokenStoredWell, TokenGrows, TokenStores, TokenShapes,
     TokenSigned
<1>7. PICK r \in TokenRecords : TokenGoesTo(s, r, "backup")
  BY <1>1, <1>2, <1>3, TokenGoto
<1>8. "backup" \in {"store"} \cup TokenStored <=> request[s].at \in {"store"} \cup TokenStored
  BY <1>1 DEF TokenStored
<1>9. TokenShapes'
  BY <1>2, <1>3, <1>6, <1>7, <1>8, TokenGoesOnOK
<1>10. \A f \in 1..MaxTokens : f # g => TokenApart(f)
  BY <1>1, <1>5, TokenApartOf
<1>11. ASSUME g \notin overlapped', ~failed'
       PROVE  TokenLone(g)' /\ TokenKept(g)' /\ TokenTurn(r, g)'
  <2>1. /\ TokenLone(g) /\ TokenKept(g) /\ TokenTurn(request[s], g) /\ up
    BY <1>1, <1>4, <1>11, TokenAlone
  <2>2. /\ live' = live \cup {request[s].next}
        /\ \A u \in live : family[u] # g
        /\ \A t \in closed : family[t] # g
    BY <1>1, <2>1 DEF TokenTurn
  <2>3. \A c \in 1..issued : parent[c] # request[s].next
    BY <1>2, <1>3, <1>5 DEF TokenShapes, TokenSigned
  <2>4. TokenLone(g)'
    BY <1>1, <1>5, <2>1, <2>2, <2>3 DEF TokenLone
  <2>5. TokenWorks(s, g)' /\ request'[s].at \notin TokenEarly
    BY <1>1, <1>4, <1>7 DEF TokenWorks, TokenSide, TokenGoesTo, TokenMoves, TokenEarly
  <2>6. TokenKept(g)'
    BY <1>1, <1>5, <2>2, <2>5 DEF TokenKept
  <2>7. TokenTurn(r, g)'
    BY <1>1, <1>7, <2>2 DEF TokenTurn, TokenGoesTo, TokenStored
  <2>. QED  BY <2>4, <2>6, <2>7
<1>12. TokenSide(r)' = g /\ TokenMoves(s, r) /\ r.op \notin {"logoutAll", "changePassword"}
       /\ \A t \in 1..issued : family'[t] = family[t]
  BY <1>1, <1>3, <1>4, <1>7 DEF TokenSide, TokenWorks, TokenGoesTo
<1>. QED  BY <1>4, <1>6, <1>9, <1>10, <1>11, <1>12, TokenStepOf

(* The new token is copied.                                                *)
LEMMA TokenBackupStep ==
    ASSUME TokenIInv, NEW s \in Slots, BackupToken(s)
    PROVE  TokenIInv'
<1>1. /\ request[s].at = "backup"
      /\ copy' = [copy EXCEPT ![request[s].next] = "active"]
      /\ Goto(s, AfterBackup(request[s]))
      /\ UNCHANGED <<prefixed, up, failed, isActive, live,
                     issued, family, parent, received, held,
                     overlapped, ended, reused, closed>>
  BY DEF BackupToken, At, environment, signed,
     client, history
<1>2. TokenShapes /\ TokenSlots /\ TokenRequestOK(request[s])
  BY DEF TokenIInv, TokenShapes, TokenSlots
<1>3. PICK place \in {"save", "retire", "load"} :
          /\ place = AfterBackup(request[s])
          /\ place \in TokenPlacesOf(request[s].op)
  BY <1>1, <1>2, TokenAfterBackup
<1>4. PICK g \in 1..MaxTokens : TokenWorks(s, g)
  BY <1>1, TokenWorker
<1>5. /\ request[s].next \in 1..issued /\ request[s].next \notin received
      /\ family[request[s].next] = g /\ request[s].next \in 1..MaxTokens
      /\ request[s].op \in {"refresh", "login"}
  <2>1. request[s].op \in {"refresh", "login"} /\ request[s].next # 0
    BY <1>1, <1>2 DEF TokenRequestOK, TokenRecords, TokenOps, TokenPlacesOf, TokenStored
  <2>2. request[s].next \in 1..issued /\ request[s].next \notin received
        /\ family[request[s].next] = g
    BY <1>2, <1>4, <2>1, TokenSideOf
  <2>. QED  BY <1>2, <2>1, <2>2 DEF TokenShapes, TokenSigned
<1>6. /\ copy' \in [1..MaxTokens -> {"none", "active", "revoked"}]
      /\ copy'[request[s].next] = "active"
      /\ \A t \in 1..MaxTokens : copy[t] = "active" => copy'[t] = "active"
  BY <1>1, <1>2, <1>5 DEF TokenShapes, TokenStores
<1>7. TokenUnsigned /\ TokenStoredWell /\ TokenGrows
  BY <1>1, <1>2, <1>6 DEF TokenUnsigned, TokenStoredWell, TokenGrows, TokenStores, TokenShapes,
     TokenSigned
<1>8. PICK r \in TokenRecords : TokenGoesTo(s, r, place)
  BY <1>1, <1>2, <1>3, TokenGoto
<1>9. place \in {"store"} \cup TokenStored <=> request[s].at \in {"store"} \cup TokenStored
  BY <1>1, <1>3 DEF TokenStored
<1>10. TokenShapes'
  BY <1>2, <1>3, <1>7, <1>8, <1>9, TokenGoesOnOK
<1>11. \A f \in 1..MaxTokens : f # g => TokenApart(f)
  <2>1. \A t \in 1..issued : copy[t] = "active" => copy'[t] = "active"
    BY <1>2, <1>6 DEF TokenShapes, TokenSigned
  <2>. QED  BY <1>1, <2>1, TokenApartOf
<1>12. ASSUME g \notin overlapped', ~failed'
       PROVE  TokenLone(g)' /\ TokenKept(g)' /\ TokenTurn(r, g)'
  <2>1. /\ TokenLone(g) /\ TokenKept(g) /\ TokenTurn(request[s], g)
    BY <1>1, <1>4, <1>12, TokenAlone
  <2>2. TokenLone(g)'
    BY <1>1, <2>1, TokenLoneWhenStill
  <2>3. TokenWorks(s, g)' /\ request'[s].at \notin TokenEarly
    BY <1>1, <1>3, <1>4, <1>8 DEF TokenWorks, TokenSide, TokenGoesTo, TokenMoves, TokenEarly
  <2>4. live \subseteq 1..MaxTokens
    BY <1>2 DEF TokenShapes, TokenStores, TokenSigned
  <2>5. TokenKept(g)'
    BY <1>1, <1>6, <2>1, <2>3, <2>4 DEF TokenKept
  <2>6. TokenTurn(r, g)'
    BY <1>1, <1>3, <1>6, <1>8, <2>1 DEF TokenTurn, TokenGoesTo, TokenStored
  <2>. QED  BY <2>2, <2>5, <2>6
<1>13. TokenSide(r)' = g /\ TokenMoves(s, r) /\ r.op \notin {"logoutAll", "changePassword"}
       /\ \A t \in 1..issued : family'[t] = family[t]
  BY <1>1, <1>4, <1>5, <1>8 DEF TokenSide, TokenWorks, TokenGoesTo
<1>. QED  BY <1>4, <1>7, <1>10, <1>11, <1>12, <1>13, TokenStepOf

(* The copy of the token that was replaced is revoked.                     *)
LEMMA TokenRetireStep ==
    ASSUME TokenIInv, NEW s \in Slots, RetireCopy(s)
    PROVE  TokenIInv'
<1>1. /\ request[s].at = "retire" /\ Goto(s, "load")
      /\ copy' = [copy EXCEPT ![request[s].token] = "revoked"]
      /\ UNCHANGED <<prefixed, up, failed, isActive, live,
                     issued, family, parent, received, held,
                     overlapped, ended, reused, closed>>
  BY DEF RetireCopy, At, environment, signed,
     client, history
<1>2. TokenShapes /\ TokenSlots /\ TokenRequestOK(request[s])
  BY DEF TokenIInv, TokenShapes, TokenSlots
<1>3. request[s].op = "refresh" /\ "load" \in TokenPlacesOf(request[s].op)
      /\ request[s].next # 0
  BY <1>1, <1>2 DEF TokenRequestOK, TokenRecords, TokenOps, TokenPlacesOf, TokenStored
<1>4. PICK g \in 1..MaxTokens : TokenWorks(s, g)
  BY <1>1, TokenWorker
<1>5. /\ request[s].next \in 1..issued /\ request[s].next \notin received
      /\ family[request[s].next] = g
      /\ request[s].token \in 1..issued /\ request[s].token \in received
      /\ family[request[s].token] = g
  BY <1>2, <1>3, <1>4, TokenSideOf
<1>6. /\ copy' \in [1..MaxTokens -> {"none", "active", "revoked"}]
      /\ \A t \in 1..MaxTokens : t # request[s].token => copy'[t] = copy[t]
      /\ live \subseteq 1..MaxTokens /\ 1..issued \subseteq 1..MaxTokens
  BY <1>1, <1>2 DEF TokenShapes, TokenStores, TokenSigned
<1>7. TokenUnsigned /\ TokenStoredWell /\ TokenGrows
  BY <1>1, <1>2, <1>6 DEF TokenUnsigned, TokenStoredWell, TokenGrows, TokenStores, TokenShapes,
     TokenSigned
<1>8. PICK r \in TokenRecords : TokenGoesTo(s, r, "load")
  BY <1>1, <1>2, <1>3, TokenGoto
<1>9. "load" \in {"store"} \cup TokenStored <=> request[s].at \in {"store"} \cup TokenStored
  BY <1>1 DEF TokenStored
<1>10. TokenShapes'
  BY <1>2, <1>3, <1>7, <1>8, <1>9, TokenGoesOnOK
<1>11. \A f \in 1..MaxTokens : f # g => TokenApart(f)
  <2>1. \A t \in 1..issued : family[t] # g /\ copy[t] = "active" =>
            copy'[t] = "active"
    BY <1>5, <1>6
  <2>. QED  BY <1>1, <2>1, TokenApartOf
<1>12. ASSUME g \notin overlapped', ~failed'
       PROVE  TokenLone(g)' /\ TokenKept(g)' /\ TokenTurn(r, g)'
  <2>1. /\ TokenLone(g) /\ TokenKept(g) /\ TokenTurn(request[s], g)
    BY <1>1, <1>4, <1>12, TokenAlone
  <2>2. TokenLone(g)'
    BY <1>1, <2>1, TokenLoneWhenStill
  <2>3. TokenWorks(s, g)' /\ request'[s].at \notin TokenEarly
    BY <1>1, <1>4, <1>8 DEF TokenWorks, TokenSide, TokenGoesTo, TokenMoves, TokenEarly
  <2>4. request[s].next \in live
        /\ (g \notin reused /\ ~prefixed => copy[request[s].next] = "active")
    BY <1>1, <2>1 DEF TokenTurn, TokenStored
  <2>5. \A t \in live : family[t] = g => t \notin received
    BY <1>5, <2>1, <2>4 DEF TokenLone
  <2>6. TokenKept(g)'
    BY <1>1, <2>3, <2>5 DEF TokenKept
  <2>7. copy'[request[s].next] = copy[request[s].next]
    BY <1>5, <1>6
  <2>8. TokenTurn(r, g)'
    BY <1>1, <1>3, <1>8, <2>4, <2>7 DEF TokenTurn, TokenGoesTo, TokenStored
  <2>. QED  BY <2>2, <2>6, <2>8
<1>13. TokenSide(r)' = g /\ TokenMoves(s, r) /\ r.op \notin {"logoutAll", "changePassword"}
       /\ \A t \in 1..issued : family'[t] = family[t]
  BY <1>1, <1>3, <1>4, <1>8 DEF TokenSide, TokenWorks, TokenGoesTo
<1>. QED  BY <1>4, <1>7, <1>10, <1>11, <1>12, <1>13, TokenStepOf

(* A token that is not live is refused and the copies of its session are   *)
(* revoked.                                                                *)
LEMMA TokenRefuseStep ==
    ASSUME TokenIInv, NEW s \in Slots, Refuse(s)
    PROVE  TokenIInv'
<1>1. /\ request[s].at = "refuse" /\ Done(s)
      /\ copy' = RevokedFamily(family[request[s].token])
      /\ \/ /\ request[s].token = held[family[request[s].token]]
            /\ ended' = ended \cup {family[request[s].token]}
            /\ reused' = reused
         \/ /\ reused' = reused \cup {family[request[s].token]}
            /\ ended' = ended
      /\ UNCHANGED <<prefixed, up, failed, isActive, live,
                     issued, family, parent, received, held,
                     overlapped, closed>>
  BY DEF Refuse, At, environment, signed, client
<1>2. TokenShapes /\ TokenSlots /\ TokenRequestOK(request[s])
  BY DEF TokenIInv, TokenShapes, TokenSlots
<1>3. request[s].op = "refresh"
  BY <1>1, <1>2 DEF TokenRequestOK, TokenRecords, TokenOps, TokenPlacesOf
<1>4. PICK g \in 1..MaxTokens : TokenWorks(s, g)
  BY <1>1, TokenWorker
<1>5. family[request[s].token] = g
  BY <1>2, <1>3, <1>4, TokenSideOf
<1>6. /\ copy' \in [1..MaxTokens -> {"none", "active", "revoked"}]
      /\ \A t \in 1..MaxTokens : family[t] # g => copy'[t] = copy[t]
      /\ live \subseteq 1..MaxTokens /\ 1..issued \subseteq 1..MaxTokens
  BY <1>1, <1>2, <1>5 DEF TokenShapes, TokenStores, TokenSigned, RevokedFamily,
     Tokens
<1>7. TokenUnsigned /\ TokenStoredWell /\ TokenGrows
  BY <1>1, <1>2, <1>6 DEF TokenUnsigned, TokenStoredWell, TokenGrows, TokenStores, TokenShapes,
     TokenSigned
<1>8. PICK r \in TokenRecords : TokenEnds(s, r)
  BY <1>1, <1>2, TokenDone
<1>9. TokenShapes'
  BY <1>2, <1>7, <1>8, TokenEndsOK
<1>10. \A f \in 1..MaxTokens : f # g => TokenApart(f)
  <2>1. \A t \in 1..issued : family[t] # g /\ copy[t] = "active" =>
            copy'[t] = "active"
    BY <1>6
  <2>. QED  BY <1>1, <2>1, TokenApartOf
<1>11. ASSUME g \notin overlapped', ~failed'
       PROVE  TokenLone(g)' /\ TokenKept(g)'
  <2>1. /\ TokenLone(g) /\ TokenKept(g) /\ TokenTurn(request[s], g)
        /\ \A x \in Slots \ {s} : ~TokenWorks(x, g)
    BY <1>1, <1>4, <1>11, TokenAlone
  <2>2. TokenLone(g)'
    BY <1>1, <2>1, TokenLoneWhenStill
  <2>3. held[g] # 0 /\ g \notin ended => held[g] \in live
    BY <1>1, <2>1 DEF TokenKept, TokenEarly
  <2>4. request[s].token \notin live
    BY <1>1, <2>1 DEF TokenTurn
  <2>5. CASE request[s].token = held[g] /\ g \in ended'
    <3>1. \A t \in live : family[t] = g => t \notin received
      BY <2>1, <2>4, <2>5 DEF TokenLone
    <3>2. TokenKept(g)'
      BY <1>1, <2>5, <3>1 DEF TokenKept
    <3>. QED  BY <2>2, <3>2
  <2>6. CASE g \in reused' /\ ended' = ended
    <3>1. TokenKept(g)'
      BY <1>1, <2>3, <2>6 DEF TokenKept
    <3>. QED  BY <2>2, <3>1
  <2>. QED  BY <1>1, <1>5, <2>5, <2>6
<1>12. /\ TokenSide(r)' = 0 /\ g # 0 /\ TokenMoves(s, r)
       /\ r.op \notin {"logoutAll", "changePassword"}
       /\ \A t \in 1..issued : family'[t] = family[t]
  BY <1>1, <1>8 DEF TokenSide, TokenEnds
<1>. QED  BY <1>4, <1>7, <1>9, <1>10, <1>11, <1>12, TokenStepOf

(* A logout is answered.                                                   *)
LEMMA TokenFinishLogoutStep ==
    ASSUME TokenIInv, NEW s \in Slots, FinishLogout(s)
    PROVE  TokenIInv'
<1>. DEFINE t == request[s].token
<1>1. /\ request[s].at = "find" /\ request[s].op = "logout" /\ Done(s)
      /\ copy' = [copy EXCEPT ![t] = IF @ = "active" THEN "revoked" ELSE @]
      /\ ended' = ended \cup {family[t]}
      /\ closed' = (IF request[s].found THEN closed \cup {t} ELSE closed)
      /\ UNCHANGED <<prefixed, up, failed, isActive, live,
                     issued, family, parent, received, held,
                     overlapped, reused>>
  BY DEF FinishLogout, At, environment, signed, client
<1>2. TokenShapes /\ TokenSlots /\ TokenRequestOK(request[s])
  BY DEF TokenIInv, TokenShapes, TokenSlots
<1>3. PICK g \in 1..MaxTokens : TokenWorks(s, g)
  BY <1>1, TokenWorker
<1>4. t \in 1..issued /\ t \in received /\ family[t] = g
  BY <1>1, <1>2, <1>3, TokenSideOf
<1>5. /\ copy' \in [1..MaxTokens -> {"none", "active", "revoked"}]
      /\ \A u \in 1..MaxTokens : u # t => copy'[u] = copy[u]
      /\ live \subseteq 1..MaxTokens /\ 1..issued \subseteq 1..MaxTokens
  BY <1>1, <1>2, <1>4 DEF TokenShapes, TokenStores, TokenSigned
<1>6. TokenUnsigned /\ TokenStoredWell /\ TokenGrows
  BY <1>1, <1>2, <1>4, <1>5 DEF TokenUnsigned, TokenStoredWell, TokenGrows, TokenStores,
     TokenShapes, TokenSigned
<1>7. PICK r \in TokenRecords : TokenEnds(s, r)
  BY <1>1, <1>2, TokenDone
<1>8. TokenShapes'
  BY <1>2, <1>6, <1>7, TokenEndsOK
<1>9. \A f \in 1..MaxTokens : f # g => TokenApart(f)
  <2>1. \A u \in 1..issued : family[u] # g =>
            /\ u \in closed' => u \in closed
            /\ copy[u] = "active" => copy'[u] = "active"
    BY <1>1, <1>4, <1>5
  <2>. QED  BY <1>1, <2>1, TokenApartOf
<1>10. ASSUME g \notin overlapped', ~failed'
       PROVE  TokenLone(g)' /\ TokenKept(g)'
  <2>1. /\ TokenLone(g) /\ TokenKept(g) /\ TokenTurn(request[s], g)
    BY <1>1, <1>3, <1>10, TokenAlone
  <2>2. t \notin live /\ (request[s].found => \A u \in live : family[u] # g)
    BY <1>1, <2>1 DEF TokenTurn
  <2>3. TokenLone(g)'
    BY <1>1, <2>1, <2>2 DEF TokenLone
  <2>4. TokenKept(g)'
    BY <1>1, <1>4, <1>5, <2>1, <2>2 DEF TokenKept
  <2>. QED  BY <2>3, <2>4
<1>11. /\ TokenSide(r)' = 0 /\ g # 0 /\ TokenMoves(s, r)
       /\ r.op \notin {"logoutAll", "changePassword"}
       /\ \A u \in 1..issued : family'[u] = family[u]
  BY <1>1, <1>7 DEF TokenSide, TokenEnds
<1>. QED  BY <1>3, <1>6, <1>8, <1>9, <1>10, <1>11, TokenStepOf

(* The successor is signed.                                                *)
LEMMA TokenFindCopyStep ==
    ASSUME TokenIInv, MaxTokens \in Nat, NEW s \in Slots, FindCopy(s)
    PROVE  TokenIInv'
<1>. PICK n, t : n = issued + 1 /\ t = request[s].token
  OBVIOUS
<1>1. /\ request[s].at = "find" /\ request[s].op = "refresh"
      /\ n = issued + 1 /\ t = request[s].token
      /\ issued < MaxTokens /\ issued' = n
      /\ family' = [family EXCEPT ![n] = family[t]]
      /\ parent' = [parent EXCEPT ![n] = t]
      /\ request' = [request EXCEPT ![s].at = "store", ![s].next = n,
                                              ![s].found = (copy[t] = "active")]
      /\ UNCHANGED <<prefixed, up, failed, isActive, live, copy,
                     received, held, overlapped, ended, reused,
                     closed>>
  BY DEF FindCopy, At, environment, client, history
<1>2. /\ TokenShapes /\ TokenSlots /\ TokenStores /\ TokenSigned /\ DOMAIN request = Slots
      /\ \A x \in Slots : TokenRequestOK(request[x]) /\ request[x] \in TokenRecords
  BY DEF TokenIInv, TokenShapes, TokenSlots, TokenRequestOK
<1>3. PICK g \in 1..MaxTokens : TokenWorks(s, g)
  BY <1>1, TokenWorker
<1>4. t \in 1..issued /\ t \in received /\ family[t] = g
  BY <1>1, <1>2, <1>3, TokenSideOf
<1>5. /\ issued \in Nat /\ n \in Nat /\ n \in 1..MaxTokens /\ n # 0 /\ n \notin 1..issued
      /\ t # n /\ g \in 1..n
      /\ \A c \in 1..issued' : c \in 1..issued \/ c = n
      /\ \A u \in 1..issued : u \in 1..issued' /\ u # n /\ u \in 1..MaxTokens
  <2>1. issued \in Nat /\ family[t] \in 1..t
    BY <1>2, <1>4 DEF TokenSigned
  <2>. QED  BY <1>1, <1>4, <2>1
<1>6. /\ family' \in [1..MaxTokens -> Nat] /\ family'[n] = g
      /\ \A u \in 1..issued : family'[u] = family[u]
      /\ parent' \in [1..MaxTokens -> Nat] /\ parent'[n] = t
      /\ \A c \in 1..MaxTokens : c # n => parent'[c] = parent[c]
  <2>1. /\ family \in [1..MaxTokens -> Nat] /\ parent \in [1..MaxTokens -> Nat]
        /\ 1..issued \subseteq 1..MaxTokens /\ g \in Nat /\ t \in Nat
        /\ family' = [family EXCEPT ![n] = g] /\ parent' = [parent EXCEPT ![n] = t]
    <3>1. family \in [1..MaxTokens -> Nat] /\ parent \in [1..MaxTokens -> Nat]
      BY <1>2 DEF TokenSigned
    <3>2. 1..issued \subseteq 1..MaxTokens /\ 1..issued \subseteq Nat
      BY <1>2 DEF TokenSigned
    <3>. QED  BY <1>1, <1>4, <3>1, <3>2
  <2>. QED  BY <1>5, <2>1
<1>7. PICK r \in TokenRecords :
          /\ r.at = "store" /\ r.op = "refresh" /\ r.next = n /\ r.token = t
          /\ r.keys = request[s].keys /\ TokenMoves(s, r)
  <2>1. PICK found \in BOOLEAN : found <=> copy[t] = "active"
    OBVIOUS
  <2>. DEFINE r == [request[s] EXCEPT !.at = "store", !.next = n, !.found = found]
  <2>2. "refresh" \in TokenOps /\ "store" \in TokenPlacesOf("refresh")
    BY DEF TokenOps, TokenPlacesOf
  <2>3. "store" \in UNION {TokenPlacesOf(op) : op \in TokenOps}
    BY <2>2, TokenPlaces
  <2>4. /\ r \in TokenRecords /\ r.at = "store" /\ r.op = "refresh" /\ r.next = n /\ r.token = t
        /\ r.keys = request[s].keys
    BY <1>1, <1>2, <1>5, <2>3 DEF TokenRecords
  <2>5. found = (copy[t] = "active")
    BY <2>1
  <2>6. request' = [request EXCEPT ![s] = r]
    BY <1>1, <1>2, <2>5
  <2>7. TokenMoves(s, r)
    BY <1>2, <2>6 DEF TokenMoves, TokenAlike
  <2>. QED  BY <2>4, <2>7
<1>8. TokenShapes'
  <2>1. TokenStores'
    BY <1>1, <1>2, <1>5 DEF TokenStores
  <2>2. TokenSigned'
    <3>1. \A u \in 1..issued' : family'[u] \in 1..u
      BY <1>2, <1>5, <1>6 DEF TokenSigned
    <3>2. received' \subseteq 1..issued' /\ issued' \in 1..MaxTokens
      BY <1>1, <1>2, <1>5 DEF TokenSigned
    <3>3. \A u \in 1..MaxTokens :
              parent'[u] # 0 => u <= issued' /\ parent'[u] \in received'
      BY <1>1, <1>2, <1>4, <1>5, <1>6 DEF TokenSigned
    <3>4. \A f \in 1..MaxTokens :
              held'[f] # 0 => held'[f] \in received' /\ family'[held'[f]] = f
      BY <1>1, <1>2, <1>5, <1>6 DEF TokenSigned
    <3>5. issued' \in Nat /\ 1..issued' \subseteq 1..MaxTokens
      BY <1>1, <1>5
    <3>6. held' \in [1..MaxTokens -> Nat] /\ closed' \subseteq received'
      BY <1>1, <1>2 DEF TokenSigned
    <3>. QED  BY <1>6, <3>1, <3>2, <3>3, <3>4, <3>5, <3>6 DEF TokenSigned
  <2>3. ASSUME NEW x \in Slots \ {s}
        PROVE  TokenRequestOK(request[x])' /\ request[x].next # n
    <3>1. TokenRequestOK(request[x]) /\ TokenAlike(request'[x], request[x])
      BY <1>2, <1>7 DEF TokenMoves
    <3>2. request[x].next # n /\ request[x].next \in 0..issued
      BY <1>5, <3>1 DEF TokenRequestOK
    <3>3. request[x].op = "login" => g # request[x].next
      BY <1>4, <3>1 DEF TokenRequestOK
    <3>4. request[x].op = "login" =>
             \A u \in 1..issued' : family'[u] = request[x].next => u = request[x].next
      BY <1>5, <1>6, <3>1, <3>3 DEF TokenRequestOK
    <3>5. \A u \in request[x].keys : u \in 1..issued /\ family[u] \in ended
      BY <3>1 DEF TokenRequestOK
    <3>6. \A u \in received : u \in 1..issued
      BY <1>2 DEF TokenSigned
    <3>7. PICK q : q = request'[x]
      OBVIOUS
    <3>8. received' = received /\ ended' = ended
          /\ q \in TokenRecords /\ q.at \in TokenPlacesOf(q.op)
          /\ q.op = request[x].op /\ q.at = request[x].at
          /\ q.token = request[x].token /\ q.next = request[x].next
          /\ q.found = request[x].found /\ q.keys = request[x].keys
      BY <1>1, <3>1, <3>7 DEF TokenAlike, TokenRequestOK
    <3>9. /\ q.op = "login" =>
                /\ family'[q.next] = q.next /\ q.found = FALSE
                /\ \A u \in 1..issued' : family'[u] = q.next => u = q.next
          /\ q.op = "refresh" /\ q.next # 0 => family'[q.next] = family'[q.token]
      <4>1. CASE q.op = "login"
        <5>1. q.next \in 1..issued /\ family[q.next] = q.next /\ q.found = FALSE
          BY <3>1, <3>8, <4>1 DEF TokenRequestOK
        <5>2. \A u \in 1..issued' : family'[u] = q.next => u = q.next
          BY <3>4, <3>8, <4>1
        <5>. QED  BY <1>6, <4>1, <5>1, <5>2
      <4>2. CASE q.op = "refresh" /\ q.next # 0
        <5>1. q.token \in received /\ family[q.next] = family[q.token]
          BY <3>1, <3>8, <4>2 DEF TokenRequestOK
        <5>2. q.next \in 1..issued
          BY <3>1, <3>8, <4>2 DEF TokenRequestOK
        <5>. QED  BY <1>6, <3>6, <4>2, <5>1, <5>2
      <4>. QED  BY <4>1, <4>2
    <3>10. q.keys \subseteq 1..issued' /\ \A u \in q.keys : family'[u] \in ended'
      BY <1>5, <1>6, <3>5, <3>8
    <3>11. /\ IF q.op \in {"refresh", "logout"} THEN q.token \in received' ELSE q.token = 0
           /\ IF q.op = "login" \/ (q.op = "refresh" /\ q.at \in {"store"} \cup TokenStored)
              THEN q.next \in 1..issued' /\ q.next \notin received'
              ELSE q.next = 0
      BY <1>5, <3>1, <3>8 DEF TokenRequestOK
    <3>12. TokenRequestOK(q)'
      BY <3>8, <3>9, <3>10, <3>11 DEF TokenRequestOK
    <3>. QED  BY <3>2, <3>7, <3>12 DEF TokenRequestOK
  <2>4. TokenRequestOK(request[s])'
    <3>1. \A u \in request[s].keys : u \in 1..issued' /\ family'[u] \in ended'
      BY <1>1, <1>2, <1>5, <1>6 DEF TokenRequestOK
    <3>2. n \notin received' /\ n \in 1..issued'
      BY <1>1, <1>2, <1>5 DEF TokenSigned
    <3>3. family'[n] = family'[t] /\ t \in received'
      BY <1>1, <1>4, <1>6
    <3>4. r.at \in TokenPlacesOf(r.op)
      BY <1>7 DEF TokenPlacesOf
    <3>. QED  BY <1>5, <1>7, <3>1, <3>2, <3>3, <3>4 DEF TokenRequestOK, TokenMoves
  <2>5. \A x \in Slots \ {s} : request'[x].next = request[x].next
        /\ request[x].next # n /\ request'[s].next = n
    BY <1>7, <2>3 DEF TokenMoves, TokenAlike
  <2>6. \A x, y \in Slots :
            request'[x].next # 0 /\ request'[x].next = request'[y].next => x = y
    BY <1>2, <2>5 DEF TokenSlots
  <2>. QED  BY <1>7, <2>1, <2>2, <2>3, <2>4, <2>6 DEF TokenShapes, TokenSlots, TokenMoves
<1>9. TokenGrows
  BY <1>1 DEF TokenGrows
<1>10. ASSUME NEW f \in 1..MaxTokens, f # g PROVE TokenApart(f)
  <2>1. \A u \in 1..issued' : family'[u] = f => u \in 1..issued /\ family[u] = f
    BY <1>5, <1>6, <1>10
  <2>2. \A c \in 1..issued' :
            parent'[c] # 0 /\ family'[parent'[c]] = f =>
                c \in 1..issued /\ parent[c] = parent'[c]
    BY <1>4, <1>5, <1>6, <1>10
  <2>3. issued' >= issued
    BY <1>1, <1>5
  <2>. QED  BY <1>1, <1>6, <2>1, <2>2, <2>3 DEF TokenApart
<1>11. ASSUME g \notin overlapped', ~failed'
       PROVE  TokenLone(g)' /\ TokenKept(g)' /\ TokenTurn(r, g)'
  <2>1. /\ TokenLone(g) /\ TokenKept(g) /\ TokenTurn(request[s], g)
    BY <1>1, <1>3, <1>11, TokenAlone
  <2>2. /\ \A u \in live : family[u] # g
        /\ \A u \in closed : family[u] # g
        /\ \A c \in 1..issued : parent[c] # t
    BY <1>1, <2>1 DEF TokenTurn
  <2>3. /\ \A u \in live' : family'[u] # g
        /\ \A u \in closed' : family'[u] # g
    BY <1>1, <1>2, <1>6, <2>2 DEF TokenStores, TokenSigned
  <2>4. ASSUME NEW c \in 1..issued', NEW d \in 1..issued', parent'[c] # 0,
               parent'[c] = parent'[d], family'[parent'[c]] = g
        PROVE  c = d
    <3>1. CASE c = n \/ d = n
      BY <1>5, <1>6, <2>2, <2>4, <3>1
    <3>2. CASE c # n /\ d # n
      <4>1. c \in 1..issued /\ d \in 1..issued
            /\ parent'[c] = parent[c] /\ parent'[d] = parent[d]
        BY <1>5, <1>6, <2>4, <3>2
      <4>2. parent[c] \in 1..issued
        BY <1>2, <1>5, <2>4, <4>1 DEF TokenSigned
      <4>3. family[parent[c]] = g
        BY <1>6, <2>4, <4>1, <4>2
      <4>. QED  BY <2>1, <2>4, <4>1, <4>3 DEF TokenLone
    <3>. QED  BY <3>1, <3>2
  <2>5. TokenLone(g)'
    BY <2>3, <2>4 DEF TokenLone
  <2>6. TokenWorks(s, g)' /\ request'[s].at \notin TokenEarly
    BY <1>4, <1>6, <1>7 DEF TokenWorks, TokenSide, TokenMoves, TokenEarly
  <2>7. TokenKept(g)'
    BY <2>3, <2>6 DEF TokenKept
  <2>8. TokenTurn(r, g)'
    BY <1>7, <2>3 DEF TokenTurn, TokenStored
  <2>. QED  BY <2>5, <2>7, <2>8
<1>12. TokenSide(r)' = g /\ r.op \notin {"logoutAll", "changePassword"}
  BY <1>4, <1>6, <1>7 DEF TokenSide
<1>. QED  BY <1>3, <1>6, <1>7, <1>8, <1>9, <1>10, <1>11, <1>12, TokenStepOf

(* The client is given the new token.                                      *)
LEMMA TokenReplyStep ==
    ASSUME TokenIInv, NEW s \in Slots, Reply(s)
    PROVE  TokenIInv'
<1>. DEFINE n == request[s].next
<1>1. /\ request[s].at = "reply" /\ Done(s)
      /\ received' = received \cup {n}
      /\ held' = [held EXCEPT ![family[n]] = n]
      /\ UNCHANGED <<prefixed, up, failed, isActive, live, copy,
                     issued, family, parent, overlapped, ended,
                     reused, closed>>
  BY DEF Reply, At, environment, signed, history
<1>2. /\ TokenShapes /\ TokenSlots /\ TokenStores /\ TokenSigned
      /\ \A x \in Slots : TokenRequestOK(request[x])
  BY DEF TokenIInv, TokenShapes, TokenSlots
<1>3. PICK g \in 1..MaxTokens : TokenWorks(s, g)
  BY <1>1, TokenWorker
<1>4. /\ n \in 1..issued /\ n \notin received /\ family[n] = g /\ n # 0
  <2>1. request[s].op \in {"refresh", "login"} /\ n # 0
    BY <1>1, <1>2 DEF TokenRequestOK, TokenRecords, TokenOps, TokenPlacesOf, TokenStored
  <2>. QED  BY <1>2, <1>3, <2>1, TokenSideOf
<1>5. PICK r \in TokenRecords : TokenEnds(s, r)
  BY <1>1, <1>2, TokenDone
<1>6. /\ held' \in [1..MaxTokens -> Nat] /\ held'[g] = n
      /\ \A f \in 1..MaxTokens : f # g => held'[f] = held[f]
  BY <1>1, <1>2, <1>4 DEF TokenSigned
<1>. HIDE DEF n
<1>7. TokenShapes'
  <2>1. TokenStores'
    BY <1>1, <1>2 DEF TokenStores
  <2>2. TokenSigned'
    <3>1. \A f \in 1..MaxTokens :
              held'[f] # 0 => held'[f] \in received' /\ family'[held'[f]] = f
      BY <1>1, <1>2, <1>4, <1>6 DEF TokenSigned
    <3>. QED  BY <1>1, <1>2, <1>4, <1>6, <3>1 DEF TokenSigned
  <2>3. ASSUME NEW x \in Slots \ {s} PROVE TokenRequestOK(request[x])'
    <3>1. TokenRequestOK(request[x]) /\ TokenAlike(request'[x], request[x])
      BY <1>2, <1>5 DEF TokenEnds, TokenMoves
    <3>2. request[x].next # n
      BY <1>2, <1>4 DEF TokenSlots, n
    <3>. QED  BY <1>1, <3>1, <3>2 DEF TokenRequestOK, TokenAlike
  <2>4. TokenRequestOK(request[s])'
    BY <1>5 DEF TokenRequestOK, TokenEnds, TokenMoves, TokenPlacesOf
  <2>5. \A x \in Slots : request'[x].next \in {0, request[x].next}
    BY <1>5 DEF TokenEnds, TokenMoves, TokenAlike
  <2>6. \A x, y \in Slots :
            request'[x].next # 0 /\ request'[x].next = request'[y].next => x = y
    BY <1>2, <2>5 DEF TokenSlots
  <2>. QED
    BY <1>5, <2>1, <2>2, <2>3, <2>4, <2>6 DEF TokenShapes, TokenSlots, TokenMoves, TokenEnds
<1>8. TokenGrows
  BY <1>1 DEF TokenGrows
<1>9. ASSUME NEW f \in 1..MaxTokens, f # g PROVE TokenApart(f)
  <2>1. issued' >= issued /\ held'[f] = held[f]
    BY <1>1, <1>2, <1>6, <1>9 DEF TokenSigned
  <2>2. \A t \in 1..issued : family[t] = f => (t \in received' <=> t \in received)
    BY <1>1, <1>4, <1>9
  <2>. QED  BY <1>1, <2>1, <2>2 DEF TokenApart
<1>10. ASSUME g \notin overlapped', ~failed'
       PROVE  TokenLone(g)' /\ TokenKept(g)'
  <2>1. /\ TokenLone(g) /\ TokenKept(g) /\ TokenTurn(request[s], g)
    BY <1>1, <1>3, <1>10, TokenAlone
  <2>2. n \in live /\ (g \notin reused /\ ~prefixed => copy[n] = "active")
    BY <1>1, <2>1 DEF TokenTurn, TokenStored, n
  <2>3. \A u \in live : family[u] = g => u = n
    BY <1>4, <2>1, <2>2 DEF TokenLone
  <2>4. TokenLone(g)'
    BY <1>1, <1>6, <2>1, <2>3 DEF TokenLone
  <2>5. TokenKept(g)'
    BY <1>1, <1>6, <2>2, <2>3 DEF TokenKept
  <2>. QED  BY <2>4, <2>5
<1>11. /\ TokenSide(r)' = 0 /\ g # 0 /\ TokenMoves(s, r)
       /\ r.op \notin {"logoutAll", "changePassword"}
       /\ \A u \in 1..issued : family'[u] = family[u]
  BY <1>1, <1>5 DEF TokenSide, TokenEnds
<1>. QED  BY <1>3, <1>7, <1>8, <1>9, <1>10, <1>11, TokenStepOf

-----------------------------------------------------------------------------
(* The environment.                                                        *)

(* A step that moves no request.                                           *)
LEMMA TokenShapesStay ==
    ASSUME TokenShapes, TokenUnsigned, TokenStores', ended' = ended,
           closed' = closed, request' = request
    PROVE  TokenShapes'
<1>1. TokenSigned'
  BY DEF TokenShapes, TokenSigned, TokenUnsigned
<1>2. \A x \in Slots : TokenRequestOK(request[x])'
  BY DEF TokenShapes, TokenSlots, TokenRequestOK, TokenUnsigned
<1>. QED  BY <1>1, <1>2 DEF TokenShapes, TokenSlots

(* Once a call failed only the shapes and the turns count.                 *)
LEMMA TokenFailed ==
    ASSUME TokenShapes', failed', \A f \in 1..MaxTokens : TokenTurns(f)'
    PROVE  TokenIInv'
BY DEF TokenIInv, TokenSafe, Orderly

(* Cleanups, deactivations, lost connections and crashes.                  *)
LEMMA TokenShockStep ==
    ASSUME TokenIInv,
           \/ CleanupExpiredTokens \/ ToggleActive
           \/ RedisLost \/ RedisBack \/ Crash
    PROVE  TokenIInv'
<1>1. TokenShapes /\ TokenStores /\ DOMAIN request = Slots
  BY DEF TokenIInv, TokenShapes, TokenSlots
<1>2. CASE CleanupExpiredTokens \/ ToggleActive \/ RedisBack
  <2>1. /\ UNCHANGED <<prefixed, failed, live, issued, family, parent,
                       request, received, held, overlapped, ended,
                       reused, closed>>
        /\ up' \in {up, TRUE} /\ isActive' \in BOOLEAN
        /\ copy' \in [1..MaxTokens -> {"none", "active", "revoked"}]
        /\ \A t \in 1..MaxTokens : copy[t] = "active" => copy'[t] = "active"
    <3>1. /\ \/ copy' = copy
             \/ copy' = [t \in 1..MaxTokens |->
                                 IF copy[t] = "revoked" THEN "none" ELSE copy[t]]
          /\ UNCHANGED <<prefixed, failed, live, issued, family,
                         parent, request, received, held, overlapped,
                         ended, reused, closed>>
          /\ up' \in {up, TRUE} /\ isActive' \in BOOLEAN
      BY <1>1, <1>2 DEF CleanupExpiredTokens, ToggleActive, RedisBack,
         signed, client, history, Tokens, TokenStores
    <3>2. /\ copy' \in [1..MaxTokens -> {"none", "active", "revoked"}]
          /\ \A t \in 1..MaxTokens : copy[t] = "active" => copy'[t] = "active"
      BY <1>1, <3>1 DEF TokenStores
    <3>. QED  BY <3>1, <3>2
  <2>2. TokenShapes'
    <3>1. TokenStores' /\ TokenUnsigned
      <4>1. up' \in BOOLEAN /\ (~up' => failed')
        <5>1. up \in BOOLEAN /\ (~up => failed) /\ failed' = failed
          BY <1>1, <2>1 DEF TokenStores
        <5>2. CASE up' = up
          BY <5>1, <5>2, Zenon
        <5>3. CASE up' = TRUE
          BY <5>3
        <5>. QED  BY <2>1, <5>2, <5>3
      <4>2. /\ prefixed' \in BOOLEAN /\ failed' \in BOOLEAN /\ isActive' \in BOOLEAN
            /\ live' \subseteq 1..issued' /\ TokenUnsigned
        BY <1>1, <2>1 DEF TokenStores, TokenUnsigned
      <4>. QED  BY <2>1, <4>1, <4>2 DEF TokenStores
    <3>. QED  BY <1>1, <2>1, <3>1, TokenShapesStay
  <2>3. \A x \in Slots, f \in 1..MaxTokens : (TokenWorks(x, f)' <=> TokenWorks(x, f))
                                             /\ (TokenForAll(x)' <=> TokenForAll(x))
    BY <2>1 DEF TokenWorks, TokenSide, TokenForAll
  <2>4. ASSUME NEW f \in 1..MaxTokens PROVE TokenTurns(f)' /\ TokenSafe(f)'
    <3>1. TokenTurns(f)'
      BY <2>1, <2>3 DEF TokenIInv, TokenTurns
    <3>. SUFFICES ASSUME f \notin overlapped, ~failed PROVE TokenSafe(f)'
      BY <2>1, <3>1 DEF TokenSafe, Orderly
    <3>2. /\ TokenLone(f) /\ TokenSwept(f) /\ TokenKept(f)
          /\ \A x \in Slots : TokenWorks(x, f) => TokenTurn(request[x], f)
      BY DEF TokenIInv, TokenSafe, Orderly
    <3>3. live \subseteq 1..MaxTokens
      BY <1>1 DEF TokenShapes, TokenStores, TokenSigned
    <3>4. TokenLone(f)' /\ TokenSwept(f)' /\ TokenKept(f)'
      BY <2>1, <2>3, <3>2, <3>3 DEF TokenLone, TokenSwept, TokenKept
    <3>5. ASSUME NEW x \in Slots, TokenWorks(x, f)' PROVE TokenTurn(request[x], f)'
      <4>1. TokenTurn(request[x], f)
        BY <2>3, <3>2, <3>5
      <4>2. request[x].at \in TokenStored => request[x].next \in 1..MaxTokens
        BY <3>3, <4>1 DEF TokenTurn
      <4>. QED  BY <2>1, <4>1, <4>2 DEF TokenTurn
    <3>. QED  BY <3>4, <3>5 DEF TokenSafe
  <2>. QED  BY <2>2, <2>4 DEF TokenIInv
<1>3. CASE RedisLost
  <2>1. /\ UNCHANGED <<prefixed, isActive, live, copy, issued, family,
                       parent, request, received, held, overlapped,
                       ended, reused, closed>>
        /\ up' = FALSE /\ failed' = TRUE
    BY <1>3 DEF RedisLost, signed, client, history
  <2>2. TokenShapes'
    <3>1. TokenStores' /\ TokenUnsigned
      BY <1>1, <2>1 DEF TokenStores, TokenUnsigned
    <3>. QED  BY <1>1, <2>1, <3>1, TokenShapesStay
  <2>3. \A f \in 1..MaxTokens : TokenTurns(f)'
    BY <2>1 DEF TokenIInv, TokenTurns, TokenWorks, TokenSide, TokenForAll
  <2>. QED  BY <2>1, <2>2, <2>3, TokenFailed
<1>4. CASE Crash
  <2>1. /\ UNCHANGED <<prefixed, up, isActive, live, copy, issued,
                       family, parent, received, held, overlapped,
                       ended, reused, closed>>
        /\ failed' = TRUE /\ request' = [s \in Slots |-> Idle]
    BY <1>4 DEF Crash, signed, client, history
  <2>2. PICK r : r = Idle
    OBVIOUS
  <2>3. /\ r \in TokenRecords /\ r.op = "idle" /\ r.at = "idle"
        /\ r.token = 0 /\ r.next = 0 /\ r.keys = {}
    BY <2>2, TokenIdle
  <2>4. DOMAIN request' = Slots /\ \A x \in Slots : request'[x] = r
    BY <2>1, <2>2
  <2>5. TokenRequestOK(r)'
    BY <2>3 DEF TokenRequestOK, TokenPlacesOf
  <2>6. \A x \in Slots : TokenRequestOK(request[x])'
    BY <2>4, <2>5 DEF TokenRequestOK
  <2>7. TokenStores' /\ TokenSigned'
    BY <1>1, <2>1 DEF TokenShapes, TokenStores, TokenSigned
  <2>8. TokenShapes'
    BY <2>3, <2>4, <2>6, <2>7 DEF TokenShapes, TokenSlots
  <2>9. \A f \in 1..MaxTokens : TokenTurns(f)'
    BY <2>3, <2>4 DEF TokenTurns, TokenWorks, TokenSide
  <2>. QED  BY <2>1, <2>8, <2>9, TokenFailed
<1>. QED  BY <1>2, <1>3, <1>4

(* Every step keeps the invariant.                                         *)
LEMMA TokenNextStep ==
    ASSUME TokenIInv, MaxTokens \in Nat, [Next]_vars
    PROVE  TokenIInv'
<1>1. ASSUME NEW s \in Slots, Serve(s) PROVE TokenIInv'
  BY <1>1, TokenStartLoginStep, TokenStartOneStep, TokenStartForAllStep, TokenReadStep,
     TokenRefuseStep, TokenDeleteStep, TokenFindCopyStep, TokenRetireStep, TokenLoadStep,
     TokenStoreStep, TokenBackupStep, TokenBackupFailsStep, TokenSaveDeviceStep, TokenReplyStep,
     TokenReadForLogoutStep, TokenFinishLogoutStep, TokenSavePasswordStep, TokenScanStep,
     TokenSweepStep, TokenSweepFailsStep, TokenRevokeCopiesStep
     DEF Serve
<1>2. CASE UNCHANGED vars
  <2>1. UNCHANGED <<prefixed, up, failed, isActive, live, copy,
                    issued, family, parent, request, received, held,
                    overlapped, ended, reused, closed>>
    BY <1>2 DEF vars, environment, signed, client,
       history
  <2>2. TokenShapes'
    <3>1. TokenStores' /\ TokenUnsigned /\ TokenShapes
      BY <2>1 DEF TokenIInv, TokenShapes, TokenStores, TokenUnsigned
    <3>. QED  BY <2>1, <3>1, TokenShapesStay
  <2>3. \A f \in 1..MaxTokens : TokenTurns(f)' /\ TokenSafe(f)'
    BY <2>1 DEF TokenIInv, TokenTurns, TokenSafe, Orderly, TokenLone, TokenSwept,
       TokenKept, TokenTurn, TokenWorks, TokenSide, TokenForAll
  <2>. QED  BY <2>2, <2>3 DEF TokenIInv
<1>. QED  BY <1>1, <1>2, TokenShockStep DEF Next

(* The invariant holds at the start.                                       *)
LEMMA TokenInitStep ==
    ASSUME MaxTokens \in Nat \ {0}, Init
    PROVE  TokenIInv
<1>1. /\ prefixed \in BOOLEAN /\ up = TRUE /\ failed = FALSE /\ isActive = TRUE
      /\ live = {1} /\ issued = 1 /\ received = {1} /\ closed = {}
      /\ copy = [t \in 1..MaxTokens |-> IF t = 1 THEN "active" ELSE "none"]
      /\ family = [t \in 1..MaxTokens |-> IF t = 1 THEN 1 ELSE 0]
      /\ parent = [t \in 1..MaxTokens |-> 0]
      /\ held = [t \in 1..MaxTokens |-> IF t = 1 THEN 1 ELSE 0]
      /\ request = [s \in Slots |-> Idle]
  BY DEF Init, Tokens, None
<1>2. PICK r : r = Idle
  OBVIOUS
<1>3. /\ r \in TokenRecords /\ r.op = "idle" /\ r.at = "idle"
      /\ r.token = 0 /\ r.next = 0 /\ r.keys = {}
  BY <1>2, TokenIdle
<1>4. DOMAIN request = Slots /\ \A x \in Slots : request[x] = r
  BY <1>1, <1>2
<1>5. 1 \in 1..MaxTokens
  OBVIOUS
<1>6. /\ family[1] = 1 /\ held[1] = 1 /\ copy[1] = "active"
      /\ \A t \in 1..MaxTokens : t # 1 => held[t] = 0
      /\ \A t \in 1..MaxTokens : parent[t] = 0
  BY <1>1, <1>5
<1>7. TokenStores /\ TokenSigned
  <2>1. 1..1 = {1}
    OBVIOUS
  <2>. QED  BY <1>1, <1>5, <1>6, <2>1 DEF TokenStores, TokenSigned
<1>8. \A x \in Slots : TokenRequestOK(request[x])
  BY <1>3, <1>4 DEF TokenRequestOK, TokenPlacesOf
<1>9. TokenShapes
  BY <1>3, <1>4, <1>7, <1>8 DEF TokenShapes, TokenSlots
<1>10. ASSUME NEW f \in 1..MaxTokens PROVE TokenTurns(f) /\ TokenSafe(f)
  <2>1. \A x \in Slots : ~TokenWorks(x, f) /\ request[x].at # "sweep"
    BY <1>3, <1>4 DEF TokenWorks, TokenSide
  <2>2. TokenLone(f)
    BY <1>1, <1>5, <1>6 DEF TokenLone
  <2>3. TokenKept(f)
    BY <1>1, <1>5, <1>6, <2>1 DEF TokenKept
  <2>. QED  BY <2>1, <2>2, <2>3 DEF TokenTurns, TokenSafe, TokenSwept
<1>. QED  BY <1>9, <1>10 DEF TokenIInv

-----------------------------------------------------------------------------
(* What the sessions promise follows from it.                              *)

(* A token is replaced by one token at most.                               *)
LEMMA TokenOneSuccessor ==
    ASSUME TokenIInv, NEW t \in 1..issued, Orderly(family[t])
    PROVE  Cardinality({c \in 1..issued : parent[c] = t}) <= 1
<1>. DEFINE C == {c \in 1..issued : parent[c] = t}
<1>1. family[t] \in 1..MaxTokens /\ t # 0
  BY DEF TokenIInv, TokenShapes, TokenSigned
<1>2. TokenLone(family[t])
  BY <1>1 DEF TokenIInv, TokenSafe
<1>3. \A c, d \in C : c = d
  BY <1>1, <1>2 DEF TokenLone
<1>4. CASE C = {}
  BY <1>4, FS_EmptySet
<1>5. CASE C # {}
  <2>1. PICK c \in C : TRUE
    BY <1>5
  <2>2. C = {c}
    BY <1>3, <2>1
  <2>3. Cardinality(C) = 1
    BY <2>2, FS_Singleton
  <2>. QED  BY <2>3
<1>. QED  BY <1>4, <1>5

(* The two promises.                                                       *)
LEMMA TokenPromises ==
    ASSUME TokenIInv
    PROVE  SessionsKept /\ SessionsEnded
<1>1. OneSuccessor
  BY TokenOneSuccessor DEF OneSuccessor
<1>2. TokenShapes /\ \A f \in 1..issued : f \in 1..MaxTokens
      /\ live \subseteq 1..issued /\ received \subseteq 1..issued
      /\ closed \subseteq received
  BY DEF TokenIInv, TokenShapes, TokenSigned, TokenStores
<1>3. HeldTokenWorks
  <2>. SUFFICES ASSUME NEW f \in 1..issued, Orderly(f), f \notin ended,
                       Quiet(f), held[f] # 0
                PROVE  held[f] \in live
    BY DEF HeldTokenWorks, None
  <2>1. ASSUME NEW x \in Slots, TokenWorks(x, f) PROVE FALSE
    <3>1. FamilyOf(request[x]) = f /\ Busy(x)
      BY <1>2, <2>1, TokenSideIs DEF TokenWorks, TokenSide
    <3>. QED  BY <3>1 DEF Quiet
  <2>2. TokenKept(f)
    BY <1>2 DEF TokenIInv, TokenSafe
  <2>. QED  BY <2>1, <2>2 DEF TokenKept
<1>4. StoresAgree
  <2>. SUFFICES ASSUME NEW f \in 1..issued, Orderly(f), f \notin reused,
                       ~prefixed, held[f] \in live
                PROVE  copy[held[f]] = "active"
    BY DEF StoresAgree
  <2>1. TokenKept(f)
    BY <1>2 DEF TokenIInv, TokenSafe
  <2>2. held[f] \in received /\ family[held[f]] = f
    BY <1>2 DEF TokenShapes, TokenSigned
  <2>. QED  BY <2>1, <2>2 DEF TokenKept
<1>5. RevokedSessionsStayClosed
  <2>. SUFFICES ASSUME NEW t \in closed, Orderly(family[t])
                PROVE  \A u \in live : family[u] # family[t]
    BY DEF RevokedSessionsStayClosed, Family
  <2>1. family[t] \in 1..MaxTokens
    BY <1>2 DEF TokenShapes, TokenSigned
  <2>2. TokenLone(family[t])
    BY <2>1 DEF TokenIInv, TokenSafe
  <2>. QED  BY <2>2 DEF TokenLone
<1>. QED
  BY <1>1, <1>3, <1>4, <1>5 DEF SessionsKept, SessionsEnded

(* Sessions are kept and ended as promised for any number of requests and  *)
(* of tokens (token.service.ts).                                           *)
THEOREM SessionsAlwaysKept ==
    ASSUME MaxTokens \in Nat \ {0}
    PROVE  Spec => [](SessionsKept /\ SessionsEnded)
<1>1. Init => TokenIInv
  BY TokenInitStep
<1>2. TokenIInv /\ [Next]_vars => TokenIInv'
  BY TokenNextStep
<1>3. TokenIInv => SessionsKept /\ SessionsEnded
  BY TokenPromises
<1>. QED  BY <1>1, <1>2, <1>3, PTL DEF Spec

-----------------------------------------------------------------------------
(***************************************************************************)
(* The types of the sessions.  The invariant above gives the shapes; what  *)
(* is left are the events counted, that a token replaces one signed before *)
(* it, and that no copy is written of a token that was not signed.         *)
(***************************************************************************)
TokenOrder ==
    /\ shocks \in 0..MaxShocks
    /\ \A t \in 1..MaxTokens : parent[t] \in 0..t - 1
    /\ \A t \in (issued + 1)..MaxTokens : copy[t] = "none"

(* A step that signs nothing and writes no copy but of signed tokens.      *)
LEMMA TokenOrderStays ==
    ASSUME TokenShapes, TokenOrder, issued' = issued, parent' = parent,
           shocks' \in 0..MaxShocks,
           \A t \in 1..MaxTokens : t \in 1..issued \/ copy[t] # "none" \/ copy'[t] = "none"
    PROVE  TokenOrder'
<1>1. issued \in Nat
  BY DEF TokenShapes, TokenSigned
<1>2. ASSUME NEW t \in (issued + 1)..MaxTokens PROVE copy'[t] = "none"
  <2>1. t \in 1..MaxTokens /\ t \notin 1..issued
    BY <1>1
  <2>. QED  BY <2>1 DEF TokenOrder
<1>. QED  BY <1>2 DEF TokenOrder

(* The steps of a request that sign no token.                              *)
LEMMA TokenOrderServed ==
    ASSUME MaxTokens \in Nat, MaxShocks \in Nat, TokenIInv, TokenOrder, NEW s \in Slots,
           Serve(s), issued' = issued
    PROVE  TokenOrder'
<1>1. /\ TokenShapes /\ TokenRequestOK(request[s]) /\ issued \in Nat
      /\ copy \in [1..MaxTokens -> {"none", "active", "revoked"}]
      /\ received \subseteq 1..issued /\ DOMAIN request = Slots
  BY DEF TokenIInv, TokenShapes, TokenSigned, TokenStores, TokenSlots
<1>2. shocks \in 0..MaxShocks
  BY DEF TokenOrder
<1>3. CASE BackupToken(s)
  <2>1. /\ request[s].at = "backup" /\ shocks' = shocks /\ parent' = parent
        /\ copy' = [copy EXCEPT ![request[s].next] = "active"]
    BY <1>3, Zenon DEF BackupToken, At, environment, signed
  <2>2. request[s].next \in 1..issued
    BY <1>1, <2>1 DEF TokenRequestOK, TokenRecords, TokenOps, TokenPlacesOf, TokenStored
  <2>3. \A t \in 1..MaxTokens : t # request[s].next => copy'[t] = copy[t]
    BY <1>1, <2>1
  <2>4. \A t \in 1..MaxTokens : t \in 1..issued \/ copy[t] # "none" \/ copy'[t] = "none"
    BY <2>2, <2>3
  <2>. QED  BY ONLY <1>1, <1>2, <2>1, <2>4, TokenOrder, issued' = issued, TokenOrderStays
<1>4. CASE RetireCopy(s)
  <2>1. /\ request[s].at = "retire" /\ shocks' = shocks /\ parent' = parent
        /\ copy' = [copy EXCEPT ![request[s].token] = "revoked"]
    BY <1>4, Zenon DEF RetireCopy, At, environment, signed
  <2>2. request[s].token \in 1..issued
    BY <1>1, <2>1 DEF TokenRequestOK, TokenRecords, TokenOps, TokenPlacesOf
  <2>3. \A t \in 1..MaxTokens : t # request[s].token => copy'[t] = copy[t]
    BY <1>1, <2>1
  <2>4. \A t \in 1..MaxTokens : t \in 1..issued \/ copy[t] # "none" \/ copy'[t] = "none"
    BY <2>2, <2>3
  <2>. QED  BY ONLY <1>1, <1>2, <2>1, <2>4, TokenOrder, issued' = issued, TokenOrderStays
<1>5. CASE FinishLogout(s)
  <2>1. /\ shocks' = shocks /\ parent' = parent
        /\ copy' = [copy EXCEPT ![request[s].token] = IF @ = "active" THEN "revoked" ELSE @]
    BY <1>5, Zenon DEF FinishLogout, environment, signed
  <2>2. \A t \in 1..MaxTokens : copy'[t] = copy[t] \/ copy[t] = "active"
    BY <1>1, <2>1
  <2>3. \A t \in 1..MaxTokens : t \in 1..issued \/ copy[t] # "none" \/ copy'[t] = "none"
    BY <2>2
  <2>. QED  BY ONLY <1>1, <1>2, <2>1, <2>3, TokenOrder, issued' = issued, TokenOrderStays
<1>6. CASE Refuse(s) \/ RevokeCopies(s)
  <2>1. shocks' = shocks /\ parent' = parent
    BY <1>6, Zenon DEF Refuse, RevokeCopies, environment, signed
  <2>2. \A t \in 1..MaxTokens : copy'[t] = copy[t] \/ copy[t] = "active"
    BY <1>1, <1>6 DEF Refuse, RevokeCopies, RevokedFamily, Tokens
  <2>3. \A t \in 1..MaxTokens : t \in 1..issued \/ copy[t] # "none" \/ copy'[t] = "none"
    BY <2>2
  <2>. QED  BY ONLY <1>1, <1>2, <2>1, <2>3, TokenOrder, issued' = issued, TokenOrderStays
<1>7. CASE BackupFails(s)
  <2>1. /\ shocks < MaxShocks /\ shocks' = shocks + 1 /\ parent' = parent /\ copy' = copy
    BY <1>7, Zenon DEF BackupFails, Shock, signed
  <2>2. shocks' \in 0..MaxShocks
    BY <1>2, <2>1
  <2>. QED  BY <1>1, <2>1, <2>2, TokenOrderStays
<1>8. CASE StartLogin(s) \/ FindCopy(s)
  <2>1. issued' = issued + 1
    BY <1>8, Zenon DEF StartLogin, FindCopy
  <2>. QED  BY <1>1, <2>1
<1>9. CASE \/ StartRefresh(s) \/ StartLogout(s) \/ StartForAll(s)
           \/ ReadToken(s) \/ DeleteToken(s) \/ LoadUser(s) \/ StoreToken(s)
           \/ SaveDevice(s) \/ Reply(s) \/ ReadForLogout(s) \/ ForgetToken(s)
           \/ SavePassword(s) \/ ScanTokens(s) \/ SweepKey(s) \/ SweepFails(s)
  <2>1. shocks' = shocks /\ parent' = parent /\ copy' = copy
    BY <1>9, Zenon DEF StartRefresh, StartLogout, StartForAll, ReadToken, DeleteToken,
       LoadUser, StoreToken, SaveDevice, Reply, ReadForLogout, ForgetToken,
       SavePassword, ScanTokens, SweepKey, SweepFails, environment, signed
  <2>. QED  BY <1>1, <1>2, <2>1, TokenOrderStays
<1>. QED  BY <1>3, <1>4, <1>5, <1>6, <1>7, <1>8, <1>9, Zenon DEF Serve

(* The steps that sign one: a login, and a rotation.                       *)
LEMMA TokenOrderSigned ==
    ASSUME MaxTokens \in Nat, MaxShocks \in Nat, TokenIInv, TokenOrder, NEW s \in Slots,
           StartLogin(s) \/ FindCopy(s)
    PROVE  TokenOrder' /\ issued' = issued + 1
<1>1. /\ TokenRequestOK(request[s]) /\ issued \in Nat /\ received \subseteq 1..issued
      /\ parent \in [1..MaxTokens -> Nat]
  BY DEF TokenIInv, TokenShapes, TokenSigned, TokenStores, TokenSlots
<1>2. issued' = issued + 1 /\ issued < MaxTokens /\ copy' = copy /\ shocks' = shocks
  BY Zenon DEF StartLogin, FindCopy, environment
<1>3. issued + 1 \in 1..MaxTokens
  BY <1>1, <1>2
<1>4. \A t \in 1..MaxTokens : parent'[t] \in 0..t - 1
  <2>1. CASE StartLogin(s)
    <3>1. parent' = parent
      BY <2>1, Zenon DEF StartLogin
    <3>. QED  BY <3>1 DEF TokenOrder
  <2>2. CASE FindCopy(s)
    <3>1. /\ request[s].op = "refresh"
          /\ parent' = [parent EXCEPT ![issued + 1] = request[s].token]
      BY <2>2, Zenon DEF FindCopy
    <3>2. request[s].token \in 1..issued
      BY <1>1, <3>1 DEF TokenRequestOK
    <3>3. /\ parent'[issued + 1] = request[s].token
          /\ \A t \in 1..MaxTokens : t # issued + 1 => parent'[t] = parent[t]
      BY <1>1, <1>3, <3>1
    <3>4. request[s].token \in 0..(issued + 1) - 1
      BY <1>1, <3>2
    <3>. QED  BY <3>3, <3>4 DEF TokenOrder
  <2>. QED  BY <2>1, <2>2
<1>5. ASSUME NEW t \in (issued' + 1)..MaxTokens PROVE copy'[t] = "none"
  <2>1. t \in (issued + 1)..MaxTokens
    BY <1>1, <1>2
  <2>. QED  BY <1>2, <2>1 DEF TokenOrder
<1>. QED  BY <1>2, <1>4, <1>5 DEF TokenOrder

(* Every step keeps the order of the tokens.                               *)
LEMMA TokenOrderStep ==
    ASSUME MaxTokens \in Nat, MaxShocks \in Nat, TokenIInv, TokenOrder, [Next]_vars
    PROVE  TokenOrder'
<1>1. TokenShapes /\ issued \in Nat /\ copy \in [1..MaxTokens -> {"none", "active", "revoked"}]
      /\ shocks \in 0..MaxShocks
  BY DEF TokenIInv, TokenShapes, TokenSigned, TokenStores, TokenOrder
<1>2. ASSUME NEW s \in Slots, Serve(s) PROVE TokenOrder'
  <2>1. CASE StartLogin(s) \/ FindCopy(s)
    BY <2>1, TokenOrderSigned
  <2>2. CASE ~(StartLogin(s) \/ FindCopy(s))
    <3>1. issued' = issued
      BY <1>2, <2>2, Zenon DEF Serve, StartRefresh, StartLogout, StartForAll, ReadToken,
         Refuse, DeleteToken, RetireCopy, LoadUser, StoreToken, BackupToken, BackupFails,
         SaveDevice, Reply, ReadForLogout, ForgetToken, FinishLogout, SavePassword,
         ScanTokens, SweepKey, SweepFails, RevokeCopies, signed
    <3>. QED  BY <1>2, <3>1, TokenOrderServed
  <2>. QED  BY <2>1, <2>2
<1>3. CASE CleanupExpiredTokens
  <2>1. /\ shocks < MaxShocks /\ shocks' = shocks + 1 /\ parent' = parent /\ issued' = issued
        /\ copy' = [t \in 1..MaxTokens |-> IF copy[t] = "revoked" THEN "none" ELSE copy[t]]
    BY <1>3, Zenon DEF CleanupExpiredTokens, Shock, signed, Tokens
  <2>2. shocks' \in 0..MaxShocks
    BY <1>1, <2>1
  <2>3. \A t \in 1..MaxTokens : t \in 1..issued \/ copy[t] # "none" \/ copy'[t] = "none"
    BY <2>1
  <2>. QED  BY ONLY <1>1, <2>1, <2>2, <2>3, TokenOrder, TokenOrderStays
<1>4. CASE ToggleActive \/ RedisLost \/ Crash
  <2>1. /\ shocks < MaxShocks /\ shocks' = shocks + 1 /\ parent' = parent /\ issued' = issued
        /\ copy' = copy
    BY <1>4, Zenon DEF ToggleActive, RedisLost, Crash, Shock, signed
  <2>2. shocks' \in 0..MaxShocks
    BY <1>1, <2>1
  <2>. QED  BY <1>1, <2>1, <2>2, TokenOrderStays
<1>5. CASE RedisBack \/ UNCHANGED vars
  <2>1. shocks' = shocks /\ parent' = parent /\ issued' = issued /\ copy' = copy
    BY <1>5, Zenon DEF RedisBack, vars, environment, signed
  <2>. QED  BY <1>1, <2>1, TokenOrderStays
<1>. QED  BY <1>2, <1>3, <1>4, <1>5, Zenon DEF Next

(* The sessions keep their types: what is live and what was received was   *)
(* signed, a token replaces an older one, and the requests in flight name  *)
(* tokens that were received and signed (token.service.ts).                *)
THEOREM SessionsAreTyped ==
    ASSUME MaxTokens \in Nat \ {0}, MaxShocks \in Nat
    PROVE  Spec => []TypeOK
<1>1. Init => TokenIInv /\ TokenOrder
  <2>. SUFFICES ASSUME Init PROVE TokenIInv /\ TokenOrder
    OBVIOUS
  <2>1. /\ shocks = 0 /\ issued = 1 /\ parent = [t \in 1..MaxTokens |-> 0]
        /\ copy = [t \in 1..MaxTokens |-> IF t = 1 THEN "active" ELSE "none"]
    BY Zenon DEF Init, Tokens, None
  <2>2. \A t \in 1..MaxTokens : parent[t] \in 0..t - 1
    BY <2>1
  <2>3. \A t \in (issued + 1)..MaxTokens : copy[t] = "none"
    BY <2>1
  <2>4. shocks \in 0..MaxShocks
    BY <2>1
  <2>. QED  BY <2>2, <2>3, <2>4, TokenInitStep DEF TokenOrder
<1>2. TokenIInv /\ TokenOrder /\ [Next]_vars => TokenIInv' /\ TokenOrder'
  BY TokenNextStep, TokenOrderStep
<1>3. TokenIInv /\ TokenOrder => TypeOK
  <2>. SUFFICES ASSUME TokenIInv, TokenOrder PROVE TypeOK
    OBVIOUS
  <2>1. TokenStores /\ TokenSigned /\ TokenSlots
    BY DEF TokenIInv, TokenShapes
  <2>2. issued \in 0..MaxTokens /\ 1..issued \subseteq 1..MaxTokens /\ issued \in Nat
    BY <2>1 DEF TokenSigned
  <2>3. ASSUME NEW s \in Slots
        PROVE  request[s].token \in received \cup {None} /\ request[s].next \in 0..issued
    <3>1. TokenRequestOK(request[s])
      BY <2>1 DEF TokenSlots
    <3>. QED  BY <2>2, <3>1 DEF TokenRequestOK, None
  <2>4. \A t \in 1..issued : family[t] \in 1..t /\ parent[t] \in 0..t - 1
    BY <2>1, <2>2 DEF TokenSigned, TokenOrder
  <2>. QED  BY <2>1, <2>2, <2>3, <2>4 DEF TypeOK, TokenStores, TokenSigned, TokenOrder, Tokens
<1>. QED  BY <1>1, <1>2, <1>3, PTL DEF Spec
=============================================================================
