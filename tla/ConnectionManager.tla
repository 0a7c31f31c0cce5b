-------------------------- MODULE ConnectionManager --------------------------
(***************************************************************************)
(* ConnectionManager of src/ixia_mcp/client.py: the pool of IxNetwork       *)
(* connections shared by the executor threads, which run connect() and      *)
(* get(), and the main thread, which runs disconnect(), disconnect_stale()  *)
(* and disconnect_all().                                                    *)
(*                                                                         *)
(* Each public method takes _lock, does one thing to the dictionary, drops  *)
(* _lock, and - if it took connections out - cleans them up one by one      *)
(* outside the lock.  So a method is Acquire, then one body action (which   *)
(* also releases), then some Cleanup steps; McpServer decides which thread  *)
(* runs which method when.                                                  *)
(*                                                                         *)
(* Time is counted in ticks; last_used_at is kept as the ticks gone by      *)
(* since it was written, saturating where no comparison can tell values     *)
(* apart any more.                                                          *)
(***************************************************************************)
EXTENDS Integers, FiniteSets

CONSTANTS
  Conn,       \* the connections that may be built (uuid4 makes ids distinct)
  Thread,     \* whoever may run a method of the manager
  Session,    \* the IxNetwork sessions on the API servers
  MaxIdle,    \* max_idle_seconds, in ticks
  MaxLag,     \* bound: ticks that may pass between disconnect_stale reading
              \*   the clock and it getting _lock
  NoThread,   \* _lock is free
  NoSession   \* the connection has not been built

ASSUME ManagerAssumption ==
  /\ MaxIdle \in Nat
  /\ MaxLag \in Nat
  /\ NoThread \notin Thread
  /\ NoSession \notin Session

VARIABLES
  pool,     \* the connections that are values of _connections
  mlock,    \* the thread holding _lock, or NoThread
  idle,     \* ticks since last_used_at was written
  sess,     \* the session a connection is attached to
  made,     \* made[t]: built by t in connect(), not inserted yet
  taken,    \* taken[t]: removed from _connections by t, still to be cleaned up
  cleanup,  \* how _cleanup_connection(c) went; "no" if it has not run
  lost      \* removed from _connections by a call that was then abandoned

managerVars == <<pool, mlock, idle, sess, made, taken, cleanup, lost>>

\* Idle times from here on all compare alike with MaxIdle, whatever the lag.
IdleCap == MaxIdle + MaxLag + 1

\* The outcomes of _cleanup_connection: Session.remove() returned; there was
\* no remove() and the handles were set to None; it raised and the exception
\* was logged and dropped.
Cleaned == {"removed", "dropped", "failed"}

ManagerTypeOK ==
  /\ pool \subseteq Conn
  /\ mlock \in Thread \cup {NoThread}
  /\ idle \in [Conn -> 0 .. IdleCap]
  /\ sess \in [Conn -> Session \cup {NoSession}]
  /\ made \in [Thread -> SUBSET Conn]
  /\ taken \in [Thread -> SUBSET Conn]
  /\ cleanup \in [Conn -> Cleaned \cup {"no"}]
  /\ lost \subseteq Conn

ManagerInit ==
  /\ pool = {}
  /\ mlock = NoThread
  /\ idle = [c \in Conn |-> 0]
  /\ sess = [c \in Conn |-> NoSession]
  /\ made = [t \in Thread |-> {}]
  /\ taken = [t \in Thread |-> {}]
  /\ cleanup = [c \in Conn |-> "no"]
  /\ lost = {}

-----------------------------------------------------------------------------
(* The critical sections.                                                   *)

\* `with self._lock` is entered.
Acquire(t) ==
  /\ mlock = NoThread
  /\ mlock' = t
  /\ UNCHANGED <<pool, idle, sess, made, taken, cleanup, lost>>

\* connect(), before the lock: the SessionAssistant attached to session s and
\* the IxNetworkConnection around it was built; last_used_at starts to run.
Open(t, c, s) ==
  /\ sess[c] = NoSession
  /\ sess' = [sess EXCEPT ![c] = s]
  /\ made' = [made EXCEPT ![t] = @ \cup {c}]
  /\ UNCHANGED <<pool, mlock, idle, taken, cleanup, lost>>

\* connect(), under the lock: the connection becomes visible to get().
Insert(t, c) ==
  /\ mlock = t
  /\ c \in made[t]
  /\ pool' = pool \cup {c}
  /\ made' = [made EXCEPT ![t] = @ \ {c}]
  /\ mlock' = NoThread
  /\ UNCHANGED <<idle, sess, taken, cleanup, lost>>

\* Mutant: last_used_at is stamped by a clock that is ahead of the reaper's.
GetAhead(t, c) ==
  /\ mlock = t
  /\ idle' = IF c \in pool THEN [idle EXCEPT ![c] = -1] ELSE idle
  /\ mlock' = NoThread
  /\ UNCHANGED <<pool, sess, made, taken, cleanup, lost>>

\* Mutant: get() does not write last_used_at.
GetUnstamped(t, c) ==
  /\ mlock = t
  /\ mlock' = NoThread
  /\ UNCHANGED <<pool, idle, sess, made, taken, cleanup, lost>>

\* get(): a connection in the dictionary is stamped; for any other id the
\* lookup changes nothing and the caller gets a KeyError.
Get(t, c) ==
  /\ mlock = t
  /\ idle' = IF c \in pool THEN [idle EXCEPT ![c] = 0] ELSE idle
  /\ mlock' = NoThread
  /\ UNCHANGED <<pool, sess, made, taken, cleanup, lost>>

\* Thread t takes the connections S out of the dictionary; they are now its
\* own to clean up.  (Their last_used_at is not read again: it is zeroed.)
Withdraw(t, S) ==
  /\ mlock = t
  /\ pool' = pool \ S
  /\ taken' = [taken EXCEPT ![t] = @ \cup S]
  /\ idle' = [c \in Conn |-> IF c \in S THEN 0 ELSE idle[c]]
  /\ mlock' = NoThread
  /\ UNCHANGED <<sess, made, cleanup, lost>>

\* disconnect(): pop(connection_id, None); KeyError when there was none.
Disconnect(t, c) == Withdraw(t, {c} \cap pool)

\* Mutant: disconnect_all() without the clear().
DisconnectAllKeeps(t) ==
  /\ mlock = t
  /\ taken' = [taken EXCEPT ![t] = @ \cup pool]
  /\ mlock' = NoThread
  /\ UNCHANGED <<pool, idle, sess, made, cleanup, lost>>

\* disconnect_all(): snapshot of the values, then clear().
DisconnectAll(t) == Withdraw(t, pool)

\* disconnect_stale(): the connections for which now - last_used_at exceeds
\* the threshold, when `now` was read e ticks ago.
Expired(e) == {c \in pool : idle[c] - e > MaxIdle}

DisconnectStale(t, e) == Withdraw(t, Expired(e))

-----------------------------------------------------------------------------
(* Outside the lock.                                                        *)

\* Mutant: a connection whose cleanup raised goes back to the dictionary.
CleanupPutsBack(t, c, outcome) ==
  /\ c \in taken[t]
  /\ taken' = [taken EXCEPT ![t] = @ \ {c}]
  /\ IF outcome = "failed"
       THEN pool' = pool \cup {c} /\ UNCHANGED cleanup
       ELSE cleanup' = [cleanup EXCEPT ![c] = outcome] /\ UNCHANGED pool
  /\ UNCHANGED <<mlock, idle, sess, made, lost>>

\* _cleanup_connection(c), with whatever outcome: it never raises, and it
\* takes neither _lock nor the connection's own lock.
Cleanup(t, c, outcome) ==
  /\ c \in taken[t]
  /\ taken' = [taken EXCEPT ![t] = @ \ {c}]
  /\ cleanup' = [cleanup EXCEPT ![c] = outcome]
  /\ UNCHANGED <<pool, mlock, idle, sess, made, lost>>

\* The calls of the threads T are unwound by an exception that
\* _cleanup_connection does not catch (the SystemExit of sys.exit, raised by
\* a signal handler on top of them): `with self._lock` releases the lock and
\* the local lists of connections still to be cleaned up are dropped.
Abandon(T) ==
  /\ lost' = lost \cup UNION {taken[t] : t \in T}
  /\ taken' = [t \in Thread |-> IF t \in T THEN {} ELSE taken[t]]
  /\ mlock' = IF mlock \in T THEN NoThread ELSE mlock
  /\ UNCHANGED <<pool, idle, sess, made, cleanup>>

\* The connections whose last_used_at is running.
Ageing == pool \cup UNION {made[t] : t \in Thread}

Older(n) == IF n < IdleCap THEN n + 1 ELSE n

Tick ==
  /\ idle' = [c \in Conn |-> IF c \in Ageing THEN Older(idle[c]) ELSE idle[c]]
  /\ UNCHANGED <<pool, mlock, sess, made, taken, cleanup, lost>>

-----------------------------------------------------------------------------
(* The manager under every possible use by its threads.                     *)

ManagerNext ==
  \/ \E t \in Thread :
       \/ Acquire(t)
       \/ DisconnectAll(t)
       \/ \E e \in 0 .. MaxLag : DisconnectStale(t, e)
       \/ \E c \in Conn :
            \/ \E s \in Session : Open(t, c, s)
            \/ Insert(t, c)
            \/ Get(t, c)
            \/ Disconnect(t, c)
            \/ \E outcome \in Cleaned : Cleanup(t, c, outcome)
  \/ \E T \in SUBSET Thread : Abandon(T)
  \/ Tick

ManagerSpec == ManagerInit /\ [][ManagerNext]_managerVars

-----------------------------------------------------------------------------
(* Properties.                                                              *)

\* c is in no two of: the dictionary, the hands of one thread that is about to
\* insert it or to clean it up, the abandoned, the cleaned up.
Exclusive(c) ==
  /\ c \in pool => c \notin lost /\ cleanup[c] = "no"
  /\ c \in lost => cleanup[c] = "no"
  /\ \A t \in Thread :
       c \in made[t] \cup taken[t] =>
         /\ c \notin pool
         /\ c \notin lost
         /\ cleanup[c] = "no"
         /\ \A u \in Thread : c \in made[u] \cup taken[u] => t = u
         /\ c \notin made[t] \/ c \notin taken[t]

\* c is in one of them exactly if it was ever attached to a session.
Accounted(c) ==
  sess[c] # NoSession <=> \/ c \in pool
                          \/ c \in lost
                          \/ cleanup[c] # "no"
                          \/ \E t \in Thread : c \in made[t] \cup taken[t]

\* Every connection ever built has exactly one owner.  So nobody can get() a
\* connection another thread is about to tear down, two racing removals never
\* clean the same session up twice, and no removal makes a connection vanish
\* unnoticed (client.py:113, 146, 157, 172).
OneOwner == \A c \in Conn : Exclusive(c) /\ Accounted(c)

\* The stage of a connection, for ConnectionLifecycle.
StageOf(c) ==
  IF sess[c] = NoSession THEN "none"
  ELSE IF c \in pool THEN "open"
  ELSE IF cleanup[c] # "no" THEN "released"
  ELSE IF \E t \in Thread : c \in made[t] THEN "made"
  ELSE "withdrawn"

Lifecycle == INSTANCE ConnectionLifecycle
               WITH life <- [c \in Conn |-> StageOf(c)]

\* The pool implements the life cycle: built, offered, withdrawn, cleaned up,
\* in that order and never back, for every interleaving of the methods.
ImplementsLifecycle == Lifecycle!LifecycleSpec

=============================================================================
