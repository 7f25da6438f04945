----------------------------- MODULE AuthProofs -----------------------------
(***************************************************************************)
(* What holds of accounts and sessions for every set of numbers and        *)
(* passwords, every lifetime and any number of tokens.                     *)
(***************************************************************************)
EXTENDS Auth, TLAPS

(***************************************************************************)
(* The refresh tokens on file are those given out since the last restart,  *)
(* each with the account it was given for and the date it was given at.    *)
(***************************************************************************)
OnFile ==
  \A t \in DOMAIN refreshTokens :
     /\ t \in lost + 1 .. Len(issued)
     /\ refreshTokens[t].userId = issued[t].sub
     /\ refreshTokens[t].expiresAt = issued[t].at + RefreshTTL

(***************************************************************************)
(* A token that was exchanged or logged out no longer serves.              *)
(***************************************************************************)
Spent ==
  /\ \A t \in Tokens : issued[t].parent \in DOMAIN refreshTokens
        => refreshTokens[issued[t].parent].used
  /\ \A t \in loggedOut : t \in DOMAIN refreshTokens => refreshTokens[t].used

(***************************************************************************)
(* Identities are fresh: an account has that of a token given out before,  *)
(* and no other account has it.                                            *)
(***************************************************************************)
FreshIds ==
  /\ \A p \in DOMAIN users : users[p].id \in 1..Len(issued)
  /\ \A p, q \in DOMAIN users : users[p].id = users[q].id => p = q

(***************************************************************************)
(* A token is exchanged for one given out before it.                       *)
(***************************************************************************)
Parents == \A t \in Tokens : issued[t].parent \in 0..(t - 1)

IInv == TypeOK /\ Parents /\ OnFile /\ Spent /\ FreshIds /\ NoOrphanToken

-----------------------------------------------------------------------------
LEMMA BurntIs ==
  ASSUME TypeOK, NEW t \in DOMAIN refreshTokens
  PROVE  /\ DOMAIN Burnt(t) = DOMAIN refreshTokens
         /\ Burnt(t) \in [DOMAIN refreshTokens -> RefreshRecord]
         /\ \A u \in DOMAIN refreshTokens :
              /\ Burnt(t)[u].userId = refreshTokens[u].userId
              /\ Burnt(t)[u].expiresAt = refreshTokens[u].expiresAt
              /\ Burnt(t)[u].used <=> (u = t \/ refreshTokens[u].used)
  BY DEF Burnt, TypeOK, RefreshRecord

LEMMA Issues ==
  ASSUME TypeOK, NEW id \in Nat, NEW parent \in Nat,
         NEW records, DOMAIN records = DOMAIN refreshTokens,
         records \in [DOMAIN refreshTokens -> RefreshRecord],
         Issue(id, parent, records)
  PROVE  LET n == Len(issued) + 1
         IN  /\ Len(issued') = n /\ Tokens' = Tokens \cup {n}
             /\ issued' \in Seq(Issued)
             /\ \A t \in Tokens : issued'[t] = issued[t]
             /\ issued'[n] = [sub |-> id, at |-> now, parent |-> parent]
             /\ DOMAIN refreshTokens' = DOMAIN refreshTokens \cup {n}
             /\ n \notin DOMAIN refreshTokens
             /\ \A t \in DOMAIN refreshTokens : refreshTokens'[t] = records[t]
             /\ refreshTokens'[n] = [userId |-> id, expiresAt |-> now + RefreshTTL,
                                     used |-> FALSE]
             /\ refreshTokens' \in [DOMAIN refreshTokens' -> RefreshRecord]
  <1> DEFINE n == Len(issued) + 1
             r == [userId |-> id, expiresAt |-> now + RefreshTTL, used |-> FALSE]
  <1>1. /\ Len(issued') = n /\ issued' \in Seq(Issued)
        /\ \A t \in Tokens : issued'[t] = issued[t]
        /\ issued'[n] = [sub |-> id, at |-> now, parent |-> parent]
    BY DEF Issue, TypeOK, Tokens, Issued
  <1>2. Tokens' = Tokens \cup {n} /\ n \notin Tokens
    BY <1>1 DEF Tokens, TypeOK
  <1>3. refreshTokens' = Put(records, n, r)
    BY DEF Issue
  <1>4. DOMAIN refreshTokens' = DOMAIN refreshTokens \cup {n}
    BY <1>3 DEF Put
  <1>5. n \notin DOMAIN refreshTokens
    BY <1>2 DEF TypeOK
  <1>6. \A t \in DOMAIN refreshTokens : refreshTokens'[t] = records[t]
    BY <1>3, <1>5 DEF Put
  <1>7. refreshTokens'[n] = r
    BY <1>3, <1>5 DEF Put
  <1>8. r \in RefreshRecord
    BY AuthAssumption DEF TypeOK, RefreshRecord
  <1>9. refreshTokens' \in [DOMAIN refreshTokens' -> RefreshRecord]
    BY <1>3, <1>4, <1>6, <1>7, <1>8 DEF Put
  <1> QED BY <1>1, <1>2, <1>4, <1>5, <1>6, <1>7, <1>9

(***************************************************************************)
(* Giving a token out keeps the invariant when its account is on the map   *)
(* and, for an exchange, when the token it was exchanged for is burnt.     *)
(***************************************************************************)
LEMMA IssueKeeps ==
  ASSUME IInv, NEW id \in 1..(Len(issued) + 1), NEW parent \in Tokens \cup {0},
         NEW records, DOMAIN records = DOMAIN refreshTokens,
         records \in [DOMAIN refreshTokens -> RefreshRecord],
         \A t \in DOMAIN refreshTokens :
            /\ records[t].userId = refreshTokens[t].userId
            /\ records[t].expiresAt = refreshTokens[t].expiresAt
            /\ records[t].used <=> (t = parent \/ refreshTokens[t].used),
         Issue(id, parent, records), UNCHANGED <<now, loggedOut, lost>>,
         DOMAIN users \subseteq DOMAIN users',
         \A p \in DOMAIN users : users'[p] = users[p],
         \E p \in DOMAIN users' : users'[p].id = id
  PROVE  /\ Parents' /\ OnFile' /\ Spent' /\ NoOrphanToken'
         /\ DOMAIN refreshTokens' \subseteq Tokens'
         /\ refreshTokens' \in [DOMAIN refreshTokens' -> RefreshRecord]
         /\ issued' \in Seq(Issued) /\ Len(issued') = Len(issued) + 1
         /\ loggedOut' \subseteq Tokens' /\ lost' \in 0..Len(issued') /\ now' \in Nat
  <1> DEFINE n == Len(issued) + 1
  <1>0. n \in Nat /\ parent \in Nat /\ id \in Nat
    BY DEF IInv, TypeOK, Tokens
  <1>1. /\ Len(issued') = n /\ Tokens' = Tokens \cup {n}
        /\ issued' \in Seq(Issued)
        /\ \A t \in Tokens : issued'[t] = issued[t]
        /\ issued'[n] = [sub |-> id, at |-> now, parent |-> parent]
        /\ DOMAIN refreshTokens' = DOMAIN refreshTokens \cup {n}
        /\ n \notin DOMAIN refreshTokens
        /\ \A t \in DOMAIN refreshTokens : refreshTokens'[t] = records[t]
        /\ refreshTokens'[n] = [userId |-> id, expiresAt |-> now + RefreshTTL,
                                used |-> FALSE]
        /\ refreshTokens' \in [DOMAIN refreshTokens' -> RefreshRecord]
    <2> HIDE DEF n
    <2> QED BY <1>0, Issues DEF IInv, n
  <1> HIDE DEF n
  <1>2. DOMAIN refreshTokens \subseteq Tokens /\ loggedOut \subseteq Tokens
        /\ lost \in 0..Len(issued) /\ now \in Nat /\ Len(issued) \in Nat
    BY DEF IInv, TypeOK
  <1>3. OnFile'
    <2> SUFFICES ASSUME NEW t \in DOMAIN refreshTokens'
                 PROVE  /\ t \in lost + 1 .. Len(issued')
                        /\ refreshTokens'[t].userId = issued'[t].sub
                        /\ refreshTokens'[t].expiresAt = issued'[t].at + RefreshTTL
      BY DEF OnFile
    <2>1. CASE t = n
      BY <2>1, <1>1, <1>2 DEF n
    <2>2. CASE t \in DOMAIN refreshTokens
      <3>1. t \in Tokens /\ t \in lost + 1 .. Len(issued)
        BY <2>2, <1>2 DEF IInv, OnFile
      <3>2. refreshTokens'[t].userId = issued[t].sub
            /\ refreshTokens'[t].expiresAt = issued[t].at + RefreshTTL
        BY <2>2, <1>1 DEF IInv, OnFile
      <3> QED BY <3>1, <3>2, <1>1, <1>2 DEF n
    <2> QED BY <2>1, <2>2, <1>1
  <1>4. n \notin Tokens
    BY <1>2 DEF n, Tokens
  <1>5. Spent'
    <2>1. ASSUME NEW t \in Tokens', issued'[t].parent \in DOMAIN refreshTokens'
          PROVE  refreshTokens'[issued'[t].parent].used
      <3>1. issued'[t].parent \in Tokens \cup {0}
        <4>1. CASE t = n
          BY <4>1, <1>1
        <4>2. CASE t \in Tokens
          <5>1. issued'[t] = issued[t] /\ issued[t].parent \in 0..(t - 1)
            BY <4>2, <1>1 DEF IInv, Parents
          <5> QED BY <5>1, <4>2, <1>2 DEF Tokens
        <4> QED BY <4>1, <4>2, <1>1
      <3>2. issued'[t].parent \in DOMAIN refreshTokens
        BY <3>1, <2>1, <1>1, <1>4, <1>0 DEF n, Tokens
      <3>3. CASE t = n
        <4>1. issued'[t].parent = parent
          BY <3>3, <1>1
        <4>2. refreshTokens'[parent] = records[parent] /\ parent \in DOMAIN refreshTokens
          BY <4>1, <3>2, <1>1
        <4> QED BY <4>1, <4>2
      <3>4. CASE t \in Tokens
        <4> DEFINE p == issued[t].parent
        <4>1. issued'[t].parent = p /\ p \in DOMAIN refreshTokens
          BY <3>4, <3>2, <1>1
        <4>2. refreshTokens'[p] = records[p] /\ refreshTokens[p].used
          BY <4>1, <3>4, <1>1 DEF IInv, Spent
        <4> QED BY <4>1, <4>2
      <3> QED BY <3>3, <3>4, <1>1
    <2>2. ASSUME NEW t \in loggedOut', t \in DOMAIN refreshTokens'
          PROVE  refreshTokens'[t].used
      BY <2>2, <1>1, <1>2, <1>4 DEF IInv, Spent
    <2> QED BY <2>1, <2>2 DEF Spent
  <1>6. NoOrphanToken'
    BY <1>1 DEF IInv, NoOrphanToken
  <1>7. Parents'
    BY <1>1, <1>2, <1>0 DEF IInv, Parents, n, Tokens
  <1> QED BY <1>1, <1>2, <1>3, <1>5, <1>6, <1>7 DEF n, Tokens

LEMMA Initially == Init => IInv
  BY DEF Init, IInv, TypeOK, Parents, OnFile, Spent, FreshIds, NoOrphanToken, Tokens

(***************************************************************************)
(* One step per handler.                                                   *)
(***************************************************************************)
LEMMA RegisterStep ==
  ASSUME IInv, NEW p \in Phone, NEW password \in Passwords, Register(p, password)
  PROVE  IInv'
  <1> DEFINE n == Len(issued) + 1
             phone == NormalizePhone(p)
             account == [id |-> n, password |-> password]
  <1>1. Len(issued) \in Nat /\ n \in 1..(Len(issued) + 1) /\ account \in Account
    BY DEF IInv, TypeOK, Account
  <1>2. /\ phone \notin DOMAIN users
        /\ DOMAIN users' = DOMAIN users \cup {phone}
        /\ \A q \in DOMAIN users : users'[q] = users[q]
        /\ users'[phone] = account
        /\ users' \in [DOMAIN users' -> Account]
    BY <1>1 DEF Register, Put, IInv, TypeOK
  <1>3. Issue(n, 0, refreshTokens) /\ UNCHANGED <<now, loggedOut, lost>>
    BY DEF Register
  <1>4. \A t \in DOMAIN refreshTokens : t # 0
    BY DEF IInv, TypeOK, Tokens
  <1>5. \E q \in DOMAIN users' : users'[q].id = n
    BY <1>2
  <1>6. /\ Parents' /\ OnFile' /\ Spent' /\ NoOrphanToken'
        /\ DOMAIN refreshTokens' \subseteq Tokens'
        /\ refreshTokens' \in [DOMAIN refreshTokens' -> RefreshRecord]
        /\ issued' \in Seq(Issued) /\ Len(issued') = n
        /\ loggedOut' \subseteq Tokens' /\ lost' \in 0..Len(issued') /\ now' \in Nat
    <2>1. refreshTokens \in [DOMAIN refreshTokens -> RefreshRecord]
      BY DEF IInv, TypeOK
    <2>2. \A t \in DOMAIN refreshTokens :
            refreshTokens[t].used <=> (t = 0 \/ refreshTokens[t].used)
      BY <1>4
    <2>3. DOMAIN users \subseteq DOMAIN users' /\ 0 \in Tokens \cup {0}
      BY <1>2
    <2>4. n \in 1..(Len(issued) + 1)
      BY <1>1
    <2> HIDE DEF n, phone, account
    <2>5. /\ Parents' /\ OnFile' /\ Spent' /\ NoOrphanToken'
          /\ DOMAIN refreshTokens' \subseteq Tokens'
          /\ refreshTokens' \in [DOMAIN refreshTokens' -> RefreshRecord]
          /\ issued' \in Seq(Issued) /\ Len(issued') = Len(issued) + 1
          /\ loggedOut' \subseteq Tokens' /\ lost' \in 0..Len(issued') /\ now' \in Nat
      BY <2>1, <2>2, <2>3, <2>4, <1>2, <1>3, <1>5, IssueKeeps
    <2> QED BY <2>5 DEF n
  <1>7. phone \in {NormalizePhone(q) : q \in Phone}
    OBVIOUS
  <1>8. TypeOK'
    BY <1>2, <1>6, <1>7 DEF IInv, TypeOK
  <1>9. FreshIds'
    BY <1>1, <1>2, <1>6 DEF IInv, FreshIds
  <1> QED BY <1>6, <1>8, <1>9 DEF IInv

(***************************************************************************)
(* An exchange or a login gives a token to an account of the map.          *)
(***************************************************************************)
LEMMA KnownAccountStep ==
  ASSUME IInv, NEW p \in DOMAIN users, NEW parent \in Tokens \cup {0}, NEW records,
         DOMAIN records = DOMAIN refreshTokens,
         records \in [DOMAIN refreshTokens -> RefreshRecord],
         \A t \in DOMAIN refreshTokens :
            /\ records[t].userId = refreshTokens[t].userId
            /\ records[t].expiresAt = refreshTokens[t].expiresAt
            /\ records[t].used <=> (t = parent \/ refreshTokens[t].used),
         Issue(users[p].id, parent, records), UNCHANGED <<users, now, loggedOut, lost>>
  PROVE  IInv'
  <1>1. users[p].id \in 1..(Len(issued) + 1) /\ Len(issued) \in Nat
    BY DEF IInv, TypeOK, FreshIds
  <1>2. \E q \in DOMAIN users' : users'[q].id = users[p].id
    OBVIOUS
  <1>3. /\ Parents' /\ OnFile' /\ Spent' /\ NoOrphanToken'
        /\ DOMAIN refreshTokens' \subseteq Tokens'
        /\ refreshTokens' \in [DOMAIN refreshTokens' -> RefreshRecord]
        /\ issued' \in Seq(Issued) /\ Len(issued') = Len(issued) + 1
        /\ loggedOut' \subseteq Tokens' /\ lost' \in 0..Len(issued') /\ now' \in Nat
    <2>1. /\ DOMAIN users \subseteq DOMAIN users'
          /\ \A q \in DOMAIN users : users'[q] = users[q]
          /\ UNCHANGED <<now, loggedOut, lost>>
      OBVIOUS
    <2> DEFINE id == users[p].id
    <2>2. id \in 1..(Len(issued) + 1) /\ Issue(id, parent, records)
      BY <1>1
    <2>3. \E q \in DOMAIN users' : users'[q].id = id
      BY <1>2
    <2> HIDE DEF id
    <2> QED BY <2>1, <2>2, <2>3, IssueKeeps
  <1>4. TypeOK'
    BY <1>3 DEF IInv, TypeOK
  <1>5. FreshIds'
    BY <1>1, <1>3 DEF IInv, FreshIds
  <1> QED BY <1>3, <1>4, <1>5 DEF IInv

LEMMA LoginStep ==
  ASSUME IInv, NEW p \in Phone, NEW password \in Passwords, Login(p, password)
  PROVE  IInv'
  <1>1. refreshTokens \in [DOMAIN refreshTokens -> RefreshRecord]
        /\ \A t \in DOMAIN refreshTokens : t # 0
    BY DEF IInv, TypeOK, Tokens
  <1> QED BY <1>1, KnownAccountStep DEF Login

(***************************************************************************)
(* Burning a token, and nothing else, keeps the invariant.                 *)
(***************************************************************************)
LEMMA BurnStep ==
  ASSUME IInv, NEW t \in DOMAIN refreshTokens, refreshTokens' = Burnt(t),
         loggedOut' \in {loggedOut, loggedOut \cup {t}},
         UNCHANGED <<users, now, issued, lost>>
  PROVE  IInv'
  <1>1. /\ DOMAIN refreshTokens' = DOMAIN refreshTokens
        /\ refreshTokens' \in [DOMAIN refreshTokens -> RefreshRecord]
        /\ \A u \in DOMAIN refreshTokens :
             /\ refreshTokens'[u].userId = refreshTokens[u].userId
             /\ refreshTokens'[u].expiresAt = refreshTokens[u].expiresAt
             /\ refreshTokens'[u].used <=> (u = t \/ refreshTokens[u].used)
    BY BurntIs DEF IInv
  <1>2. TypeOK' /\ Parents' /\ FreshIds' /\ Tokens' = Tokens
    BY <1>1 DEF IInv, TypeOK, Parents, FreshIds, Tokens
  <1>3. OnFile' /\ NoOrphanToken'
    BY <1>1 DEF IInv, OnFile, NoOrphanToken
  <1>4. Spent'
    BY <1>1, <1>2 DEF IInv, Spent
  <1> QED BY <1>2, <1>3, <1>4 DEF IInv

LEMMA RefreshStep ==
  ASSUME IInv, NEW t \in Tokens, Refresh(t)
  PROVE  IInv'
  <1>1. t \in DOMAIN refreshTokens
    BY DEF Refresh, Serves
  <1>2. CASE \E p \in DOMAIN users : users[p].id = refreshTokens[t].userId
    <2>1. PICK p \in DOMAIN users : users[p].id = refreshTokens[t].userId
      BY <1>2
    <2>2. Issue(users[p].id, t, Burnt(t)) /\ UNCHANGED <<users, now, loggedOut, lost>>
      BY <1>2, <2>1 DEF Refresh
    <2>3. /\ DOMAIN Burnt(t) = DOMAIN refreshTokens
          /\ Burnt(t) \in [DOMAIN refreshTokens -> RefreshRecord]
          /\ \A u \in DOMAIN refreshTokens :
               /\ Burnt(t)[u].userId = refreshTokens[u].userId
               /\ Burnt(t)[u].expiresAt = refreshTokens[u].expiresAt
               /\ Burnt(t)[u].used <=> (u = t \/ refreshTokens[u].used)
      BY <1>1, BurntIs DEF IInv
    <2> QED BY <2>2, <2>3, KnownAccountStep
  <1>3. CASE ~\E p \in DOMAIN users : users[p].id = refreshTokens[t].userId
    BY <1>1, <1>3, BurnStep DEF Refresh
  <1> QED BY <1>2, <1>3

LEMMA RestartStep == IInv /\ Restart => IInv'
  BY DEF Restart, IInv, TypeOK, Parents, OnFile, Spent, FreshIds, NoOrphanToken, Tokens

LEMMA TickStep == IInv /\ Tick => IInv'
  BY DEF Tick, IInv, TypeOK, Parents, OnFile, Spent, FreshIds, NoOrphanToken, Tokens

LEMMA Inductive == IInv /\ [Next]_vars => IInv'
  <1> SUFFICES ASSUME IInv, [Next]_vars PROVE IInv'
    OBVIOUS
  <1>1. ASSUME NEW t \in Tokens, Logout(t) PROVE IInv'
    BY <1>1, BurnStep DEF Logout
  <1>2. CASE UNCHANGED vars
    BY <1>2 DEF vars, IInv, TypeOK, Parents, OnFile, Spent, FreshIds, NoOrphanToken, Tokens
  <1> QED BY <1>1, <1>2, RegisterStep, LoginStep, RefreshStep, RestartStep, TickStep DEF Next

LEMMA Always == Spec => []IInv
  BY Initially, Inductive, PTL DEF Spec

-----------------------------------------------------------------------------
(***************************************************************************)
(* The maps and the history keep their shape.                              *)
(***************************************************************************)
THEOREM TypeCorrect == Spec => []TypeOK
  <1>1. IInv => TypeOK
    BY DEF IInv
  <1> QED BY <1>1, Always, PTL

(***************************************************************************)
(* The refusal "Compte introuvable" of refresh(), which burns the token of *)
(* the client, is never met: both maps are lost together.                  *)
(***************************************************************************)
THEOREM AccountsOutliveTokens == Spec => []NoOrphanToken
  <1>1. IInv => NoOrphanToken
    BY DEF IInv
  <1> QED BY <1>1, Always, PTL

(***************************************************************************)
(* What a step that gives a token out in exchange exchanges.               *)
(***************************************************************************)
LEMMA ExchangeStep ==
  ASSUME IInv, [Next]_vars, NEW u \in 1..Len(issued') \ Tokens, issued'[u].parent # 0
  PROVE  LET t == issued'[u].parent
         IN  /\ u = Len(issued) + 1 /\ issued' = Append(issued, issued'[u])
             /\ t \in Tokens /\ Refresh(t) /\ issued'[u].sub = issued[t].sub
  <1>0. Len(issued) \in Nat /\ issued \in Seq(Issued)
    BY DEF IInv, TypeOK
  <1>1. issued' # issued
    BY DEF Tokens
  <1>2. ASSUME NEW id, NEW parent, NEW records, Issue(id, parent, records)
        PROVE  /\ u = Len(issued) + 1 /\ issued' = Append(issued, issued'[u])
               /\ issued'[u].parent = parent /\ issued'[u].sub = id
    BY <1>0, <1>2 DEF Issue, Tokens
  <1>3. ASSUME NEW p \in Phone, NEW password \in Passwords,
               Register(p, password) \/ Login(p, password)
        PROVE  FALSE
    BY <1>2, <1>3 DEF Register, Login
  <1>4. PICK t \in Tokens : Refresh(t)
    BY <1>1, <1>3 DEF Next, Logout, Restart, Tick, vars
  <1>5. Issue(refreshTokens[t].userId, t, Burnt(t))
    BY <1>1, <1>4 DEF Refresh
  <1>6. refreshTokens[t].userId = issued[t].sub
    BY <1>4 DEF Refresh, Serves, IInv, OnFile
  <1> QED BY <1>2, <1>4, <1>5, <1>6

(***************************************************************************)
(* Every exchange is of a live token, whatever was replayed or lost: given *)
(* out since the last restart and less than RefreshTTL ago, and named by   *)
(* no logout.                                                              *)
(***************************************************************************)
LEMMA CurrentStep ==
  ASSUME IInv, [Next]_vars, NEW u \in 1..Len(issued') \ Tokens, issued'[u].parent # 0
  PROVE  /\ issued'[u].parent \in lost + 1 .. Len(issued)
         /\ issued'[u].parent \notin loggedOut
         /\ now < issued[issued'[u].parent].at + RefreshTTL
  <1> DEFINE t == issued'[u].parent
  <1>1. t \in Tokens /\ Refresh(t)
    BY ExchangeStep
  <1> HIDE DEF t
  <1>2. /\ t \in DOMAIN refreshTokens /\ ~refreshTokens[t].used
        /\ refreshTokens[t].expiresAt > now
    BY <1>1 DEF Refresh, Serves
  <1>3. t \in lost + 1 .. Len(issued)
        /\ refreshTokens[t].expiresAt = issued[t].at + RefreshTTL
    BY <1>2 DEF IInv, OnFile
  <1>4. t \notin loggedOut
    BY <1>2 DEF IInv, Spent
  <1>5. now \in Nat /\ issued[t].at + RefreshTTL \in Int
    <2>1. issued[t] \in Issued /\ now \in Nat
      BY <1>1 DEF IInv, TypeOK, Tokens
    <2> QED BY <2>1, AuthAssumption DEF Issued
  <1> QED BY <1>2, <1>3, <1>4, <1>5 DEF t

THEOREM OnlyCurrentTokensServe == Spec => ExchangesAreCurrent
  <1>1. IInv /\ [Next]_vars =>
          \A t \in 1..Len(issued') \ Tokens :
             issued'[t].parent # 0 =>
               /\ issued'[t].parent \in lost + 1 .. Len(issued)
               /\ issued'[t].parent \notin loggedOut
               /\ now < issued[issued'[t].parent].at + RefreshTTL
    BY CurrentStep
  <1> QED BY <1>1, Always, PTL DEF Spec, ExchangesAreCurrent

(***************************************************************************)
(* Rotation, one exchange at a time: a token is exchanged once at most, no *)
(* longer serves once it was, and is exchanged for one of its own account. *)
(* OneTokenServes and SessionKeepsItsAccount say the same of whole chains. *)
(***************************************************************************)
OneChild ==
  \A t \in Tokens : issued[t].parent # 0 =>
     /\ \A u \in Tokens : issued[u].parent = issued[t].parent => u = t
     /\ issued[issued[t].parent].sub = issued[t].sub

ExchangedOnce ==
  OneChild /\ \A t \in Tokens : issued[t].parent # 0 => ~Serves(issued[t].parent)

LEMMA ParentSpent ==
  IInv => \A t \in Tokens : issued[t].parent # 0 => ~Serves(issued[t].parent)
  BY DEF IInv, Spent, Serves

LEMMA OneChildStep == IInv /\ OneChild /\ [Next]_vars => OneChild'
  <1> SUFFICES ASSUME IInv, OneChild, [Next]_vars,
                      NEW t \in Tokens', issued'[t].parent # 0
               PROVE  /\ \A u \in Tokens' : issued'[u].parent = issued'[t].parent => u = t
                      /\ issued'[issued'[t].parent].sub = issued'[t].sub
    BY DEF OneChild
  <1>1. CASE issued' = issued
    BY <1>1 DEF OneChild, Tokens
  <1>2. CASE issued' # issued
    <2>1. PICK r : issued' = Append(issued, r)
      BY <1>2 DEF Next, Register, Login, Refresh, Issue, Logout, Restart, Tick, vars
    <2> DEFINE n == Len(issued) + 1
    <2>2. /\ Len(issued) \in Nat /\ Tokens = 1..Len(issued) /\ Tokens' = Tokens \cup {n}
          /\ n \notin Tokens /\ \A u \in Tokens : issued'[u] = issued[u]
          /\ \A u \in Tokens : issued[u].parent \in 0..(u - 1)
          /\ n \in 1..Len(issued') \ Tokens
      BY <2>1 DEF IInv, TypeOK, Tokens, Parents
    <2>3. issued'[n].parent # 0 =>
            /\ issued'[n].parent \in Tokens /\ Refresh(issued'[n].parent)
            /\ issued'[n].sub = issued[issued'[n].parent].sub
      BY <2>2, ExchangeStep
    <2> HIDE DEF n
    <2>4. ASSUME NEW u \in Tokens, issued'[n].parent # 0
          PROVE  issued[u].parent # issued'[n].parent
      BY <2>3, <2>4 DEF Refresh, Serves, IInv, Spent
    <2>5. CASE t = n
      BY <2>5, <2>2, <2>3, <2>4
    <2>6. CASE t \in Tokens
      <3>1. issued'[t].parent = issued[t].parent /\ issued[t].parent \in Tokens
        BY <2>6, <2>2
      <3>2. issued'[n].parent # issued[t].parent
        BY <2>4, <2>6, <3>1
      <3>3. /\ \A u \in Tokens : issued[u].parent = issued[t].parent => u = t
            /\ issued[issued[t].parent].sub = issued[t].sub
        BY <2>6, <3>1 DEF OneChild
      <3>4. issued'[issued'[t].parent].sub = issued'[t].sub
        BY <2>2, <2>6, <3>1, <3>3
      <3>5. ASSUME NEW u \in Tokens', issued'[u].parent = issued'[t].parent
            PROVE  u = t
        <4>1. u \in Tokens \/ u = n
          BY <2>2
        <4>2. u # n
          BY <3>1, <3>2, <3>5
        <4>3. issued'[u] = issued[u]
          BY <2>2, <4>1, <4>2
        <4> QED BY <3>1, <3>3, <3>5, <4>1, <4>2, <4>3
      <3> QED BY <3>4, <3>5
    <2> QED BY <2>2, <2>5, <2>6
  <1> QED BY <1>1, <1>2

LEMMA OneChildInit == Init => OneChild
  BY DEF Init, OneChild, Tokens

THEOREM Rotation == Spec => []ExchangedOnce
  <1>1. IInv /\ OneChild => ExchangedOnce
    BY ParentSpent DEF ExchangedOnce
  <1> QED BY <1>1, OneChildInit, OneChildStep, Always, PTL DEF Spec

-----------------------------------------------------------------------------
(***************************************************************************)
(* The chain of a token is closed under exchange, and the smallest such    *)
(* set: what is shown of every closed set that holds the token is shown of *)
(* its chain.                                                              *)
(***************************************************************************)
LEMMA ParentIsToken ==
  ASSUME IInv, NEW t \in Tokens, issued[t].parent # 0
  PROVE  issued[t].parent \in Tokens
  BY DEF IInv, TypeOK, Parents, Tokens

LEMMA ChainClosed ==
  ASSUME IInv, NEW t \in Tokens
  PROVE  t \in Chain(t) /\ Chain(t) \subseteq Tokens /\ ClosedUnderParent(Chain(t))
  <1>1. t \in Chain(t) /\ Chain(t) \subseteq Tokens
    BY DEF Chain
  <1>2. ASSUME NEW u \in Chain(t), issued[u].parent # 0
        PROVE  issued[u].parent \in Chain(t)
    <2>1. u \in Tokens /\ issued[u].parent \in Tokens
      BY <1>1, <1>2, ParentIsToken
    <2>2. ASSUME NEW S \in SUBSET Tokens, t \in S, ClosedUnderParent(S)
          PROVE  issued[u].parent \in S
      BY <1>2, <2>2 DEF Chain, ClosedUnderParent
    <2> QED BY <2>1, <2>2 DEF Chain
  <1> QED BY <1>1, <1>2 DEF ClosedUnderParent

LEMMA ChainLeast ==
  ASSUME NEW t \in Tokens, NEW S \in SUBSET Tokens, t \in S, ClosedUnderParent(S)
  PROVE  Chain(t) \subseteq S
  BY DEF Chain

(***************************************************************************)
(* All of a chain but its last token was exchanged for a token of it.      *)
(***************************************************************************)
LEMMA ChainStep ==
  ASSUME IInv, NEW t \in Tokens, NEW s \in Chain(t), s # t
  PROVE  \E u \in Chain(t) : issued[u].parent = s
  <1> SUFFICES ASSUME \A u \in Chain(t) : issued[u].parent # s
               PROVE  FALSE
    OBVIOUS
  <1>1. t \in Chain(t) /\ Chain(t) \subseteq Tokens /\ ClosedUnderParent(Chain(t))
    BY ChainClosed
  <1> DEFINE S == Chain(t) \ {s}
  <1>2. S \in SUBSET Tokens /\ t \in S /\ ClosedUnderParent(S)
    BY <1>1 DEF ClosedUnderParent
  <1> HIDE DEF S
  <1>3. Chain(t) \subseteq S
    BY <1>2, ChainLeast
  <1> QED BY <1>3 DEF S

(***************************************************************************)
(* A session is a line: of two tokens that descend from one, one descends  *)
(* from the other.  The tokens of the chain of u that are not of that of t *)
(* would be closed, since a token is exchanged once.                       *)
(***************************************************************************)
LEMMA ChainsAreLines ==
  ASSUME IInv, OneChild, NEW t \in Tokens, NEW u \in Tokens,
         NEW s \in Chain(t), s \in Chain(u)
  PROVE  u \in Chain(t) \/ t \in Chain(u)
  <1> SUFFICES ASSUME u \notin Chain(t), t \notin Chain(u)
               PROVE  FALSE
    OBVIOUS
  <1> DEFINE S == Chain(u) \ Chain(t)
  <1>1. u \in Chain(u) /\ Chain(u) \subseteq Tokens /\ ClosedUnderParent(Chain(u))
        /\ Chain(t) \subseteq Tokens
    BY ChainClosed
  <1>2. ASSUME NEW x \in S, issued[x].parent # 0
        PROVE  issued[x].parent \in S
    <2> DEFINE p == issued[x].parent
    <2>1. p \in Chain(u) /\ p # t
      BY <1>1, <1>2 DEF ClosedUnderParent
    <2>2. ASSUME p \in Chain(t) PROVE FALSE
      <3>1. PICK v \in Chain(t) : issued[v].parent = p
        BY <2>1, <2>2, ChainStep
      <3>2. v = x
        BY <3>1, <1>1, <1>2 DEF OneChild
      <3> QED BY <3>1, <3>2
    <2> QED BY <2>1, <2>2
  <1>3. S \in SUBSET Tokens /\ u \in S /\ ClosedUnderParent(S)
    BY <1>1, <1>2 DEF ClosedUnderParent
  <1> HIDE DEF S
  <1>4. Chain(u) \subseteq S
    BY <1>3, ChainLeast
  <1> QED BY <1>4 DEF S

(***************************************************************************)
(* Whatever was lost, repeated or replayed late, no token of a session but *)
(* its last one serves, and a session never forks (refresh, logout).       *)
(***************************************************************************)
THEOREM OneOfASessionServes == Spec => []OneTokenServes
  <1>1. ASSUME IInv, OneChild, NEW s \in Tokens, NEW t \in Tokens, s # t, s \in Chain(t)
        PROVE  /\ ~Serves(s)
               /\ \A u \in Tokens : s \in Chain(u) => u \in Chain(t) \/ t \in Chain(u)
    <2>1. PICK v \in Chain(t) : issued[v].parent = s
      BY <1>1, ChainStep
    <2>2. v \in Tokens /\ s # 0
      BY <1>1 DEF Chain, Tokens
    <2>3. ~Serves(s)
      BY <1>1, <2>1, <2>2, ParentSpent
    <2> QED BY <1>1, <2>3, ChainsAreLines
  <1>2. IInv /\ OneChild => OneTokenServes
    BY <1>1 DEF OneTokenServes
  <1> QED BY <1>2, OneChildInit, OneChildStep, Always, PTL DEF Spec

(***************************************************************************)
(* A token leads to the account its login named, however often the session *)
(* was continued: the tokens of that account's are closed under exchange.  *)
(***************************************************************************)
THEOREM SessionsKeepTheirAccount == Spec => []SessionKeepsItsAccount
  <1>1. ASSUME IInv, OneChild, NEW t \in DOMAIN refreshTokens, NEW s \in Chain(t)
        PROVE  issued[s].sub = refreshTokens[t].userId
    <2> DEFINE S == {x \in Tokens : issued[x].sub = issued[t].sub}
    <2>1. t \in Tokens /\ refreshTokens[t].userId = issued[t].sub
      BY <1>1 DEF IInv, TypeOK, OnFile
    <2>2. S \in SUBSET Tokens /\ t \in S /\ ClosedUnderParent(S)
      BY <1>1, <2>1, ParentIsToken DEF OneChild, ClosedUnderParent
    <2> HIDE DEF S
    <2>3. s \in S
      BY <1>1, <2>1, <2>2, ChainLeast
    <2> QED BY <2>1, <2>3 DEF S
  <1>2. IInv /\ OneChild => SessionKeepsItsAccount
    BY <1>1 DEF SessionKeepsItsAccount, IInv, FreshIds
  <1> QED BY <1>2, OneChildInit, OneChildStep, Always, PTL DEF Spec

-----------------------------------------------------------------------------
(***************************************************************************)
(* The second an instant falls in.                                         *)
(***************************************************************************)
LEMMA SecondOf ==
  ASSUME NEW n \in Nat
  PROVE  /\ n \div Second \in Nat
         /\ (n \div Second) * Second <= n
         /\ n < (n \div Second) * Second + Second
  BY AuthAssumption

LEMMA SecondsApart ==
  ASSUME NEW a \in Nat, NEW b \in Nat, a <= b
  PROVE  a * Second <= b * Second
  BY AuthAssumption

(***************************************************************************)
(* Both ends of an access token are rounded down to a second, so that it   *)
(* never lives longer than AccessTTL and less than a second shorter.       *)
(***************************************************************************)
THEOREM AccessBounded == Spec => []AccessLifetime
  <1>1. TypeOK => AccessLifetime
    <2> SUFFICES ASSUME TypeOK, NEW t \in Tokens
                 PROVE  LET age == now - issued[t].at
                        IN /\ AccessAccepted(t) => age < AccessTTL * Second
                           /\ age <= (AccessTTL - 1) * Second => AccessAccepted(t)
      BY DEF AccessLifetime
    <2> DEFINE at == issued[t].at
               a == at \div Second
               b == now \div Second
    <2>0. issued \in Seq(Issued) /\ t \in 1..Len(issued) /\ now \in Nat
      BY DEF TypeOK, Tokens
    <2>1. now \in Nat /\ at \in Nat
      <3>1. issued[t] \in Issued
        BY <2>0
      <3> QED BY <2>0, <3>1 DEF Issued
    <2>2. /\ a \in Nat /\ a * Second <= at /\ at < a * Second + Second
          /\ b \in Nat /\ b * Second <= now /\ now < b * Second + Second
      BY <2>1, SecondOf
    <2>3. AccessAccepted(t) <=> b < a + AccessTTL
      BY <2>2, AuthAssumption DEF AccessAccepted
    <2> HIDE DEF at, a, b
    <2>4. ASSUME b < a + AccessTTL PROVE now - at < AccessTTL * Second
      <3>1. (b + 1) * Second <= (a + AccessTTL) * Second
        BY <2>2, <2>4, SecondsApart, AuthAssumption
      <3>2. b * Second + Second <= a * Second + AccessTTL * Second
        BY <3>1, <2>2, AuthAssumption
      <3> QED BY <3>2, <2>1, <2>2, AuthAssumption
    <2>5. ASSUME ~(b < a + AccessTTL) PROVE now - at > (AccessTTL - 1) * Second
      <3>1. (a + AccessTTL) * Second <= b * Second
        BY <2>2, <2>5, SecondsApart, AuthAssumption
      <3>2. a * Second + AccessTTL * Second <= b * Second
        BY <3>1, <2>2, AuthAssumption
      <3> QED BY <3>2, <2>1, <2>2, AuthAssumption
    <2>6. (AccessTTL - 1) * Second \in Nat /\ now - at \in Int
      BY <2>1, AuthAssumption
    <2> QED BY <2>3, <2>4, <2>5, <2>6 DEF at
  <1> QED BY <1>1, TypeCorrect, PTL
=============================================================================
