-------------------------------- MODULE Auth --------------------------------
(***************************************************************************)
(* Accounts and sessions (src/src/auth/auth.service.ts).  Every handler is *)
(* synchronous: it runs to its end before another begins, so each one is   *)
(* one action.  What makes sessions hard is the order in which requests    *)
(* reach the server: an answer may be lost, a request retried or replayed  *)
(* late, so Refresh and Logout take ANY token ever given out, and accounts *)
(* and refresh tokens live in memory only, so Restart empties both while   *)
(* the access tokens given out before it stay valid.                       *)
(* A refused request changes nothing: it is a stuttering step, except the  *)
(* one of Refresh that burns its token first.                              *)
(***************************************************************************)
EXTENDS Integers, Sequences, FiniteSets

CONSTANTS
  Numbers,       \* phone numbers
  Passwords,
  Second,        \* milliseconds (ticks of the clock) in a second
  AccessTTL,     \* ACCESS_TTL_SECONDS, in seconds
  RefreshTTL,    \* REFRESH_TTL_SECONDS * 1000, in ticks
  MaxTokens,     \* bound: tokens given out in a behaviour
  MaxTime        \* bound: the clock

ASSUME AuthAssumption ==
  /\ Second \in Nat \ {0}
  /\ AccessTTL \in Nat \ {0}
  /\ RefreshTTL \in Nat \ {0}

VARIABLES
  users,          \* Map: normalised phone -> account
  refreshTokens,  \* Map: refresh token -> RefreshRecord
  now,            \* Date.now()
  issued,         \* history: every token given out, a token is its index
  loggedOut,      \* history: the tokens a known logout named
  lost            \* history: the number of tokens given out before the last restart

vars == <<users, refreshTokens, now, issued, loggedOut, lost>>

-----------------------------------------------------------------------------
\* A phone as it is typed: the separators normalizePhone strips (blanks,
\* parentheses, dashes) and those it keeps but IsPhoneNumber accepts (dots).
Phone == [number : Numbers, separator : {"none", "dash", "dot"}]

NormalizePhone(p) == IF p.separator = "dash" THEN [p EXCEPT !.separator = "none"] ELSE p

Account == [id : Nat, password : Passwords]

RefreshRecord == [userId : Nat, expiresAt : Nat, used : BOOLEAN]

\* What a client holds: the access token's subject and issue time travel with
\* the refresh token; parent is the refresh token it was exchanged for, or 0.
Issued == [sub : Nat, at : Nat, parent : Nat]

Tokens == 1..Len(issued)

Init ==
  /\ users = <<>> /\ refreshTokens = <<>>
  /\ now = 0 /\ issued = <<>> /\ loggedOut = {} /\ lost = 0

\* Map.set(): the entry of k is v.
Put(map, k, v) == [x \in DOMAIN map \cup {k} |-> IF x = k THEN v ELSE map[x]]

\* issue(): one new access token and one new refresh token, recorded in the
\* map `records` (the tokens as the caller leaves them).
Issue(id, parent, records) ==
  /\ Len(issued) < MaxTokens
  /\ issued' = Append(issued, [sub |-> id, at |-> now, parent |-> parent])
  /\ refreshTokens' =
       Put(records, Len(issued) + 1,
           [userId |-> id, expiresAt |-> now + RefreshTTL, used |-> FALSE])

Register(p, password) ==
  LET phone == NormalizePhone(p)
      id == Len(issued) + 1          \* randomUUID: fresh
  IN /\ phone \notin DOMAIN users
     /\ users' = Put(users, phone, [id |-> id, password |-> password])
     /\ Issue(id, 0, refreshTokens)
     /\ UNCHANGED <<now, loggedOut, lost>>

Login(p, password) ==
  LET phone == NormalizePhone(p)
  IN /\ phone \in DOMAIN users
     /\ users[phone].password = password
     /\ Issue(users[phone].id, 0, refreshTokens)
     /\ UNCHANGED <<users, now, loggedOut, lost>>

ServesAtExpiry(t) ==
  /\ t \in DOMAIN refreshTokens
  /\ ~refreshTokens[t].used
  /\ refreshTokens[t].expiresAt >= now

Serves(t) ==
  /\ t \in DOMAIN refreshTokens
  /\ ~refreshTokens[t].used
  /\ refreshTokens[t].expiresAt > now

NotBurnt(t) == refreshTokens

Burnt(t) == [refreshTokens EXCEPT ![t].used = TRUE]

RefreshForAnyAccount(t) ==
  /\ Serves(t)
  /\ \E phone \in DOMAIN users : Issue(users[phone].id, t, Burnt(t))
  /\ UNCHANGED <<users, now, loggedOut, lost>>

\* The token is marked used BEFORE its account is looked up: an unknown account
\* refuses the request and burns the token.
Refresh(t) ==
  LET id == refreshTokens[t].userId
  IN /\ Serves(t)
     /\ IF \E phone \in DOMAIN users : users[phone].id = id
        THEN Issue(id, t, Burnt(t))
        ELSE refreshTokens' = Burnt(t) /\ UNCHANGED issued
     /\ UNCHANGED <<users, now, loggedOut, lost>>

Logout(t) ==
  /\ t \in DOMAIN refreshTokens
  /\ refreshTokens' = Burnt(t)
  /\ loggedOut' = loggedOut \cup {t}
  /\ UNCHANGED <<users, now, issued, lost>>

\* Both maps are fields of a process that keeps nothing on disk.
Restart ==
  /\ users' = <<>> /\ refreshTokens' = <<>>
  /\ lost' = Len(issued)
  /\ UNCHANGED <<now, issued, loggedOut>>

Tick ==
  /\ now < MaxTime
  /\ now' = now + 1
  /\ UNCHANGED <<users, refreshTokens, issued, loggedOut, lost>>

Next ==
  \/ \E p \in Phone, password \in Passwords : Register(p, password) \/ Login(p, password)
  \/ \E t \in Tokens : Refresh(t) \/ Logout(t)
  \/ Restart
  \/ Tick

Spec == Init /\ [][Next]_vars

\* verifyAccessToken: the signature and the expiry of the token are all it
\* looks at; both ends are rounded down to a second.
AccessAccepted(t) == (issued[t].at \div Second) + AccessTTL > now \div Second

-----------------------------------------------------------------------------
\* The state's shape: what the two maps and the history hold.
TypeOK ==
  /\ DOMAIN users \subseteq {NormalizePhone(p) : p \in Phone}
  /\ users \in [DOMAIN users -> Account]
  /\ DOMAIN refreshTokens \subseteq Tokens
  /\ refreshTokens \in [DOMAIN refreshTokens -> RefreshRecord]
  /\ now \in Nat /\ issued \in Seq(Issued)
  /\ loggedOut \subseteq Tokens /\ lost \in 0..Len(issued)

\* A session is a login and the chain of tokens exchanged since: t descends
\* from s when t is s or its parent does.  The chain of t is what every set that
\* holds t, and the parent of each of its members, holds.
ClosedUnderParent(S) == \A t \in S : issued[t].parent # 0 => issued[t].parent \in S

Chain(t) ==
  {s \in Tokens : \A S \in SUBSET Tokens : t \in S /\ ClosedUnderParent(S) => s \in S}

\* Rotation: however requests are repeated, reordered or lost, the tokens of
\* one session are a line (no token is exchanged twice) and only its last token
\* can serve: an exchanged token never serves again (refresh, logout).
OneTokenServes ==
  \A s, t \in Tokens : s # t /\ s \in Chain(t) =>
     /\ ~Serves(s)
     /\ \A u \in Tokens : s \in Chain(u) => u \in Chain(t) \/ t \in Chain(u)

\* No token in the map points to an account that is gone: the refusal "Compte
\* introuvable", which burns the token, is never met (refresh).
NoOrphanToken ==
  \A t \in DOMAIN refreshTokens :
     \E phone \in DOMAIN users : users[phone].id = refreshTokens[t].userId

\* A session never changes hands: the account a token leads to is the one its
\* login named, and no two accounts of the map share an identity, so an exchange
\* cannot end in somebody else's account (refresh finds by id, not by phone).
SessionKeepsItsAccount ==
  /\ \A t \in DOMAIN refreshTokens : \A s \in Chain(t) : issued[s].sub = refreshTokens[t].userId
  /\ \A p, q \in DOMAIN users : users[p].id = users[q].id => p = q

\* Every exchange is of a token that was given out less than RefreshTTL ago,
\* after the last restart, and that no logout has named (refresh).
ExchangesAreCurrent ==
  [][\A t \in 1..Len(issued') \ Tokens :
        issued'[t].parent # 0 =>
          /\ issued'[t].parent \in lost + 1 .. Len(issued)
          /\ issued'[t].parent \notin loggedOut
          /\ now < issued[issued'[t].parent].at + RefreshTTL]_vars

\* The rounding of both ends to a second never lengthens an access token's
\* fifteen minutes, and shortens them by less than a second (issue,
\* verifyAccessToken).
AccessLifetime ==
  \A t \in Tokens :
    LET age == now - issued[t].at
    IN /\ AccessAccepted(t) => age < AccessTTL * Second
       /\ age <= (AccessTTL - 1) * Second => AccessAccepted(t)
=============================================================================
