--------------------------- MODULE ConnectionPool ---------------------------
(***************************************************************************)
(* The connection pool the process opens (app/dependencies.go:75-85) and   *)
(* everybody who borrows from it: writes, whose transaction keeps one      *)
(* connection from BEGIN to COMMIT and waits on it for the row lock;       *)
(* snapshot reads and readiness probes, which borrow one for a single      *)
(* statement.  A borrower who finds the pool lent waits in it.  Deadlines  *)
(* (Expire) get everybody out in the end; the properties ask what happens  *)
(* without them.                                                           *)
(***************************************************************************)
EXTENDS Naturals, FiniteSets

CONSTANTS Writers,    \* goroutines inside transaction()
          Readers,    \* goroutines inside Snapshot() or the readiness probe
          MaxOpen,    \* max_open_connections
          Free,       \* nobody holds the row lock
          Server      \* the server holds it for a transaction nobody waits for

Borrowers == Writers \cup Readers

ASSUME PoolAssumption ==
  /\ MaxOpen \in Nat \ {0}                 \* validate.go:46
  /\ IsFiniteSet(Borrowers)
  /\ Writers \cap Readers = {}
  /\ Free # Server /\ {Free, Server} \cap Borrowers = {}

VARIABLES lent,   \* connections the pool has given out
          lock,   \* holder of the row lock
          at      \* per borrower: how far it is

vars == <<lent, lock, at>>

TypeOK ==
  /\ lent \in 0..MaxOpen
  /\ lock \in Writers \cup {Free, Server}
  /\ at \in [Borrowers -> {"idle", "queued", "connected", "locked", "backoff"}]

Init ==
  /\ lent = 0
  /\ lock = Free
  /\ at = [b \in Borrowers |-> "idle"]

Queued == {b \in Borrowers : at[b] = "queued"}
Connected == {b \in Borrowers : at[b] \in {"connected", "locked"}}
Busy == {b \in Borrowers : at[b] # "idle"}

-----------------------------------------------------------------------------
\* database/sql: b is given a connection, or queues for one.
Borrow(b) ==
  IF lent < MaxOpen
  THEN lent' = lent + 1 /\ at' = [at EXCEPT ![b] = "connected"]
  ELSE at' = [at EXCEPT ![b] = "queued"] /\ UNCHANGED lent

\* Mutant: the connection is not given back.
KeepConnection(b, next) ==
  /\ at' = [at EXCEPT ![b] = next]
  /\ UNCHANGED lent

\* database/sql: b's connection goes to any of those who queue for one, or back
\* into the pool.  A broken one is closed and another opened in its place.
GiveBack(b, next) ==
  \/ \E q \in Queued :
       /\ at' = [at EXCEPT ![b] = next, ![q] = "connected"]
       /\ UNCHANGED lent
  \/ /\ Queued = {}
     /\ at' = [at EXCEPT ![b] = next]
     /\ lent' = lent - 1

-----------------------------------------------------------------------------
\* A request or a probe arrives.
Arrive(b) ==
  /\ at[b] = "idle"
  /\ Borrow(b)
  /\ UNCHANGED lock

\* Mutant: the row is loaded through the pool instead of the transaction (both
\* are a rowQuerier): the statement needs a connection of its own.
LockRowThroughPool(w) ==
  /\ at[w] = "connected"
  /\ lock = Free
  /\ lent < MaxOpen
  /\ lock' = w
  /\ at' = [at EXCEPT ![w] = "locked"]
  /\ UNCHANGED lent

\* SELECT ... FOR UPDATE, on the connection of the transaction.
LockRow(w) ==
  /\ at[w] = "connected"
  /\ lock = Free
  /\ lock' = w
  /\ at' = [at EXCEPT ![w] = "locked"]
  /\ UNCHANGED lent

\* The operation and its statements, then Commit, or the deferred Rollback.
End(w) ==
  /\ at[w] = "locked"
  /\ lock' = Free
  /\ GiveBack(w, "idle")

\* Error 1213 or 1205: rolled back; the back-off holds no connection.
Conflict(w) ==
  /\ at[w] \in {"connected", "locked"}
  /\ lock' = IF lock = w THEN Free ELSE lock
  /\ GiveBack(w, "backoff")

\* The timer fires: another attempt, or the last error is returned.
Retry(w) ==
  /\ at[w] = "backoff"
  /\ Borrow(w) \/ (at' = [at EXCEPT ![w] = "idle"] /\ UNCHANGED lent)
  /\ UNCHANGED lock

\* Mutant: a reader locks what it reads.
ReadLocking(r) ==
  /\ at[r] = "connected"
  /\ lock = Free
  /\ GiveBack(r, "idle")
  /\ UNCHANGED lock

\* The SELECT of a snapshot reads the committed row whoever holds the lock; a
\* ping reads nothing.
Read(r) ==
  /\ at[r] = "connected"
  /\ GiveBack(r, "idle")
  /\ UNCHANGED lock

\* A deadline (10 s of an attempt, 5 s of a read, 2 s of a probe), the end of
\* the caller's context or of the connection.  The server finds out later; a
\* SELECT that waited for the lock when its connection broke may still get it.
Expire(b) ==
  /\ b \in Busy
  /\ \/ lock' = IF lock = b THEN Server ELSE lock
     \/ b \in Writers /\ at[b] = "connected" /\ lock = Free /\ lock' = Server
  /\ IF b \in Connected
     THEN GiveBack(b, "idle")
     ELSE at' = [at EXCEPT ![b] = "idle"] /\ UNCHANGED lent

\* The server rolls back the transaction whose connection is gone.
Settle ==
  /\ lock = Server
  /\ lock' = Free
  /\ UNCHANGED <<lent, at>>

-----------------------------------------------------------------------------
Write(w) == LockRow(w) \/ End(w) \/ Conflict(w) \/ Retry(w)

\* What happens without the help of a deadline, a caller or a failure.
Work ==
  \/ \E w \in Writers : LockRow(w) \/ End(w) \/ Retry(w)
  \/ \E r \in Readers : Read(r)
  \/ Settle

Next ==
  \/ \E b \in Borrowers : Arrive(b) \/ Expire(b)
  \/ \E w \in Writers : Write(w)
  \/ \E r \in Readers : Read(r)
  \/ Settle

Spec == Init /\ [][Next]_vars

\* A statement that waits for no lock is answered.  Nothing is asked of writers,
\* and no deadline is relied upon.
FairSpec == Spec /\ \A r \in Readers : WF_vars(Read(r))

-----------------------------------------------------------------------------
\* The pool neither loses a connection on any of the paths out of transaction()
\* nor lends one twice, and lets nobody wait while it has one to give.
PoolAccounted ==
  /\ lent = Cardinality(Connected)
  /\ Queued # {} => lent = MaxOpen

\* The row lock is held on a connection, or by a server that will let go of it:
\* a request that was answered has not left its transaction open.  Part of the
\* invariant the proofs rest on.
LockIsHeldOnConnection ==
  \A w \in Writers : lock = w <=> at[w] = "locked"

\* However many writers fill the pool while they wait for each other's lock,
\* the goroutines never come to depend on a deadline: somebody can go on.
NeverStuck == Busy # {} => ENABLED Work

\* A read or a probe that has its connection is answered, whether or not the
\* writers ever let go of the row.
ReadsPassWriters == \A r \in Readers : at[r] = "connected" ~> at[r] # "connected"
=============================================================================
