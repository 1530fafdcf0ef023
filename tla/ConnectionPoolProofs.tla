------------------------ MODULE ConnectionPoolProofs ------------------------
(***************************************************************************)
(* For pools of any size and any finite number of goroutines: the pool's   *)
(* account is right, the lock is held on a connection, and among goroutines *)
(* that wait there is always one that waits for nobody.                    *)
(***************************************************************************)
EXTENDS ConnectionPool, FiniteSetTheorems, TLAPS

IInv == TypeOK /\ PoolAccounted /\ LockIsHeldOnConnection

LEMMA ConnectedFinite == IsFiniteSet(Connected)
BY PoolAssumption, FS_Subset DEF Connected

LEMMA InitIInv == Init => IInv
<1> SUFFICES ASSUME Init PROVE IInv
  OBVIOUS
<1>1. Connected = {} /\ Queued = {}
  BY DEF Init, Connected, Queued
<1>2. Cardinality(Connected) = 0
  BY <1>1, FS_EmptySet
<1> QED
  BY <1>1, <1>2, PoolAssumption
     DEF Init, IInv, TypeOK, PoolAccounted, LockIsHeldOnConnection, Borrowers

-----------------------------------------------------------------------------
\* The two operations of the pool keep its account.

LEMMA BorrowKeepsAccount ==
  ASSUME TypeOK, PoolAccounted, NEW b \in Borrowers, b \notin Connected, at[b] # "queued",
         Borrow(b)
  PROVE  PoolAccounted' /\ lent' \in 0..MaxOpen
<1> USE PoolAssumption DEF TypeOK
<1>1. CASE lent < MaxOpen
  <2>1. lent' = lent + 1 /\ at' = [at EXCEPT ![b] = "connected"]
    BY <1>1 DEF Borrow
  <2>2. Connected' = Connected \cup {b} /\ Queued' = Queued
    BY <2>1 DEF Connected, Queued
  <2>3. Cardinality(Connected') = Cardinality(Connected) + 1
    BY <2>2, ConnectedFinite, FS_AddElement
  <2> QED
    BY <1>1, <2>1, <2>2, <2>3 DEF PoolAccounted
<1>2. CASE ~(lent < MaxOpen)
  <2>1. lent' = lent /\ at' = [at EXCEPT ![b] = "queued"]
    BY <1>2 DEF Borrow
  <2>2. Connected' = Connected
    BY <2>1 DEF Connected
  <2> QED
    BY <1>2, <2>1, <2>2 DEF PoolAccounted
<1> QED
  BY <1>1, <1>2

LEMMA GiveBackKeepsAccount ==
  ASSUME TypeOK, PoolAccounted, NEW b \in Connected, NEW next \in {"idle", "backoff"},
         GiveBack(b, next)
  PROVE  PoolAccounted' /\ lent' \in 0..MaxOpen
<1> USE PoolAssumption DEF TypeOK
<1>1. b \in Borrowers /\ at[b] \in {"connected", "locked"}
  BY DEF Connected
<1>2. Cardinality(Connected \ {b}) = Cardinality(Connected) - 1
  BY ConnectedFinite, FS_RemoveElement
<1>3. IsFiniteSet(Connected \ {b})
  BY ConnectedFinite, FS_RemoveElement
<1>4. CASE \E q \in Queued : at' = [at EXCEPT ![b] = next, ![q] = "connected"] /\ UNCHANGED lent
  <2>1. PICK q \in Queued :
          at' = [at EXCEPT ![b] = next, ![q] = "connected"] /\ UNCHANGED lent
    BY <1>4
  <2>2. q \in Borrowers /\ at[q] = "queued" /\ q # b
    BY <1>1 DEF Queued
  <2>3. Connected' = (Connected \ {b}) \cup {q} /\ q \notin Connected
    BY <1>1, <2>1, <2>2 DEF Connected
  <2>4. Cardinality(Connected') = Cardinality(Connected \ {b}) + 1
    BY <1>3, <2>3, FS_AddElement
  <2>5. Cardinality(Connected) \in Nat
    BY ConnectedFinite, FS_CardinalityType
  <2>6. Cardinality(Connected') = Cardinality(Connected)
    BY <1>2, <2>4, <2>5
  <2>7. lent = MaxOpen
    BY <2>1 DEF PoolAccounted
  <2> QED
    BY <2>1, <2>6, <2>7 DEF PoolAccounted
<1>5. CASE Queued = {} /\ at' = [at EXCEPT ![b] = next] /\ lent' = lent - 1
  <2>1. Connected' = Connected \ {b} /\ Queued' = {}
    BY <1>1, <1>5 DEF Connected, Queued
  <2>2. Cardinality(Connected \ {b}) \in Nat
    BY <1>3, FS_CardinalityType
  <2> QED
    BY <1>2, <1>5, <2>1, <2>2 DEF PoolAccounted
<1> QED
  BY <1>4, <1>5 DEF GiveBack

\* Who gives its connection back has it no longer, and nobody else gets the lock.
LEMMA GiveBackMoves ==
  ASSUME TypeOK, NEW b \in Connected, NEW next \in {"idle", "backoff"}, GiveBack(b, next)
  PROVE  /\ at' \in [Borrowers -> {"idle", "queued", "connected", "locked", "backoff"}]
         /\ at'[b] = next
         /\ \A c \in Borrowers \ {b} : at'[c] = "locked" <=> at[c] = "locked"
<1>1. b \in Borrowers /\ at[b] \in {"connected", "locked"}
  BY DEF Connected
<1>2. CASE Queued = {} /\ at' = [at EXCEPT ![b] = next] /\ lent' = lent - 1
  BY <1>1, <1>2 DEF TypeOK
<1>3. CASE \E q \in Queued : at' = [at EXCEPT ![b] = next, ![q] = "connected"] /\ UNCHANGED lent
  <2>1. PICK q \in Queued : at' = [at EXCEPT ![b] = next, ![q] = "connected"]
    BY <1>3
  <2>2. q \in Borrowers /\ at[q] = "queued" /\ q # b
    BY <1>1 DEF Queued
  <2> QED
    BY <1>1, <2>1, <2>2 DEF TypeOK
<1> QED
  BY <1>2, <1>3 DEF GiveBack

-----------------------------------------------------------------------------
\* One step per action.

LEMMA NextIInv == IInv /\ [Next]_vars => IInv'
<1> SUFFICES ASSUME IInv, [Next]_vars PROVE IInv'
  OBVIOUS
<1> USE PoolAssumption DEF IInv
<1>1. ASSUME NEW b \in Borrowers, Arrive(b) PROVE IInv'
  <2>1. b \notin Connected /\ at[b] # "queued" /\ Borrow(b) /\ lock' = lock
    BY <1>1 DEF Arrive, Connected
  <2>2. PoolAccounted' /\ lent' \in 0..MaxOpen
    BY <2>1, BorrowKeepsAccount
  <2> QED
    BY <1>1, <2>1, <2>2 DEF Arrive, Borrow, TypeOK, LockIsHeldOnConnection, Borrowers
<1>2. ASSUME NEW b \in Borrowers, Expire(b) PROVE IInv'
  <2>1. CASE b \in Connected
    <3>1. GiveBack(b, "idle")
      BY <1>2, <2>1 DEF Expire
    <3>2. PoolAccounted' /\ lent' \in 0..MaxOpen
      BY <2>1, <3>1, GiveBackKeepsAccount
    <3>3. /\ at' \in [Borrowers -> {"idle", "queued", "connected", "locked", "backoff"}]
          /\ at'[b] = "idle"
          /\ \A c \in Borrowers \ {b} : at'[c] = "locked" <=> at[c] = "locked"
      BY <2>1, <3>1, GiveBackMoves
    <3> QED
      BY <1>2, <3>2, <3>3 DEF Expire, TypeOK, LockIsHeldOnConnection, Borrowers
  <2>2. CASE b \notin Connected
    <3>1. at' = [at EXCEPT ![b] = "idle"] /\ UNCHANGED lent
      BY <1>2, <2>2 DEF Expire
    <3>2. at[b] \in {"queued", "backoff"}
      BY <1>2, <2>2 DEF Expire, Busy, Connected, TypeOK
    <3>3. lock' = lock
      BY <1>2, <3>2 DEF Expire, LockIsHeldOnConnection, TypeOK
    <3>4. Connected' = Connected /\ Queued' \subseteq Queued
      BY <3>1, <3>2 DEF Connected, Queued, TypeOK
    <3> QED
      BY <3>1, <3>2, <3>3, <3>4 DEF TypeOK, LockIsHeldOnConnection, PoolAccounted, Borrowers
  <2> QED
    BY <2>1, <2>2
<1>3. ASSUME NEW w \in Writers, LockRow(w) PROVE IInv'
  <2>1. Connected' = Connected /\ Queued' = Queued
    BY <1>3 DEF LockRow, Connected, Queued, TypeOK, Borrowers
  <2> QED
    BY <1>3, <2>1 DEF LockRow, TypeOK, LockIsHeldOnConnection, PoolAccounted, Borrowers
<1>4. ASSUME NEW w \in Writers, End(w) \/ Conflict(w) PROVE IInv'
  <2>1. w \in Connected /\ \E next \in {"idle", "backoff"} : GiveBack(w, next)
    BY <1>4 DEF End, Conflict, Connected, Borrowers
  <2>2. PICK next \in {"idle", "backoff"} : GiveBack(w, next)
    BY <2>1
  <2>3. PoolAccounted' /\ lent' \in 0..MaxOpen
    BY <2>1, <2>2, GiveBackKeepsAccount
  <2>4. /\ at' \in [Borrowers -> {"idle", "queued", "connected", "locked", "backoff"}]
        /\ at'[w] = next
        /\ \A c \in Borrowers \ {w} : at'[c] = "locked" <=> at[c] = "locked"
    BY <2>1, <2>2, GiveBackMoves
  <2>5. lock' = IF lock = w THEN Free ELSE lock
    BY <1>4 DEF End, Conflict, LockIsHeldOnConnection
  <2> QED
    BY <2>3, <2>4, <2>5 DEF TypeOK, LockIsHeldOnConnection, Borrowers
<1>5. ASSUME NEW w \in Writers, Retry(w) PROVE IInv'
  <2>1. CASE Borrow(w)
    <3>1. w \notin Connected /\ at[w] # "queued" /\ lock' = lock
      BY <1>5 DEF Retry, Connected
    <3>2. PoolAccounted' /\ lent' \in 0..MaxOpen
      BY <2>1, <3>1, BorrowKeepsAccount DEF Borrowers
    <3> QED
      BY <1>5, <2>1, <3>1, <3>2
         DEF Retry, Borrow, TypeOK, LockIsHeldOnConnection, Borrowers
  <2>2. CASE at' = [at EXCEPT ![w] = "idle"] /\ UNCHANGED lent
    <3>1. Connected' = Connected /\ Queued' = Queued
      BY <1>5, <2>2 DEF Retry, Connected, Queued, TypeOK, Borrowers
    <3> QED
      BY <1>5, <2>2, <3>1
         DEF Retry, TypeOK, LockIsHeldOnConnection, PoolAccounted, Borrowers
  <2> QED
    BY <1>5, <2>1, <2>2 DEF Retry
<1>6. ASSUME NEW r \in Readers, Read(r) PROVE IInv'
  <2>1. r \in Connected /\ GiveBack(r, "idle") /\ lock' = lock
    BY <1>6 DEF Read, Connected, Borrowers
  <2>2. PoolAccounted' /\ lent' \in 0..MaxOpen
    BY <2>1, GiveBackKeepsAccount
  <2>3. /\ at' \in [Borrowers -> {"idle", "queued", "connected", "locked", "backoff"}]
        /\ \A c \in Borrowers \ {r} : at'[c] = "locked" <=> at[c] = "locked"
    BY <2>1, GiveBackMoves
  <2> QED
    BY <2>1, <2>2, <2>3 DEF TypeOK, LockIsHeldOnConnection, Borrowers
<1>7. CASE Settle
  BY <1>7 DEF Settle, TypeOK, LockIsHeldOnConnection, PoolAccounted, Connected, Queued, Borrowers
<1>8. CASE UNCHANGED vars
  BY <1>8 DEF vars, TypeOK, LockIsHeldOnConnection, PoolAccounted, Connected, Queued
<1> QED
  BY <1>1, <1>2, <1>3, <1>4, <1>5, <1>6, <1>7, <1>8 DEF Next, Write

LEMMA InvariantIInv == Spec => []IInv
BY InitIInv, NextIInv, PTL DEF Spec

-----------------------------------------------------------------------------
\* The types, and with them the limit: no more connections are lent than the
\* configuration allows (dependencies.go:80).
THEOREM PoolTypeTheorem == Spec => []TypeOK
<1>1. IInv => TypeOK
  BY DEF IInv
<1> QED
  BY <1>1, InvariantIInv, PTL

\* No path out of a transaction, a read or a deadline loses a connection or
\* lends one twice, and nobody waits while one is there.
THEOREM AccountTheorem == Spec => []PoolAccounted
<1>1. IInv => PoolAccounted
  BY DEF IInv
<1> QED
  BY <1>1, InvariantIInv, PTL

\* No request that was answered has left its transaction, and the row lock with
\* it, behind (transactionOnce, mysql.go:48).
THEOREM LockTheorem == Spec => []LockIsHeldOnConnection
<1>1. IInv => LockIsHeldOnConnection
  BY DEF IInv
<1> QED
  BY <1>1, InvariantIInv, PTL

\* A goroutine that waits for nobody: not for a connection, nor for the lock.
WaitsForNobody(b) ==
  \/ at[b] \in {"locked", "backoff"}
  \/ b \in Readers /\ at[b] = "connected"
  \/ b \in Writers /\ at[b] = "connected" /\ lock = Free

\* Why the goroutines are never stuck, whatever the size of the pool: when some
\* are busy, one of them waits for nobody, or the server has the lock and lets
\* go of it.  The lock is never sought by one who holds it, and a queue means
\* that connections are lent.
THEOREM ProgressTheorem ==
  Spec => [](Busy # {} => lock = Server \/ \E b \in Busy : WaitsForNobody(b))
<1>1. IInv => (Busy # {} => lock = Server \/ \E b \in Busy : WaitsForNobody(b))
  <2> SUFFICES ASSUME IInv, NEW b \in Busy, lock # Server,
                      \A c \in Busy : ~WaitsForNobody(c)
               PROVE  FALSE
    OBVIOUS
  <2> USE PoolAssumption DEF IInv, TypeOK
  <2>1. PICK c \in Connected : TRUE
    <3>1. CASE at[b] = "queued"
      <4>1. Cardinality(Connected) # 0
        BY <3>1 DEF PoolAccounted, Queued, Busy
      <4> QED
        BY <4>1, FS_EmptySet
    <3>2. CASE at[b] # "queued"
      BY <3>2 DEF Busy, Connected, WaitsForNobody
    <3> QED
      BY <3>1, <3>2
  <2>2. c \in Busy
    BY DEF Connected, Busy
  <2>3. c \in Writers /\ at[c] = "connected" /\ lock # Free
    BY <2>2 DEF WaitsForNobody, Connected, Borrowers
  <2>4. lock \in Writers /\ at[lock] = "locked"
    BY <2>3 DEF LockIsHeldOnConnection
  <2>5. lock \in Busy
    BY <2>4 DEF Busy, Borrowers
  <2> QED
    BY <2>4, <2>5 DEF WaitsForNobody
<1> QED
  BY <1>1, InvariantIInv, PTL
=============================================================================
