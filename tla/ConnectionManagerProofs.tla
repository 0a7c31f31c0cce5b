----------------------- MODULE ConnectionManagerProofs -----------------------
(***************************************************************************)
(* Proofs about ConnectionManager, for any sets of connections, threads and *)
(* sessions and any threshold.                                              *)
(***************************************************************************)
EXTENDS ConnectionManager, TLAPS

\* The types at the start.
LEMMA InitTyped == ManagerInit => ManagerTypeOK
BY ManagerAssumption DEF ManagerInit, ManagerTypeOK, IdleCap, Cleaned

\* Every step of the manager keeps the type invariant.
LEMMA StepTyped == ManagerTypeOK /\ [ManagerNext]_managerVars => ManagerTypeOK'
<1> SUFFICES ASSUME ManagerTypeOK, [ManagerNext]_managerVars
             PROVE  ManagerTypeOK'
  OBVIOUS
<1> USE DEF ManagerTypeOK
<1> IdleCap \in Nat /\ 0 \in 0 .. IdleCap
  BY ManagerAssumption DEF IdleCap
<1>1. ASSUME NEW t \in Thread, Acquire(t)
      PROVE  ManagerTypeOK'
  BY <1>1 DEF Acquire
<1>2. ASSUME NEW t \in Thread, NEW S \in SUBSET Conn, Withdraw(t, S)
      PROVE  ManagerTypeOK'
  BY <1>2 DEF Withdraw
<1>3. ASSUME NEW t \in Thread, NEW c \in Conn, NEW s \in Session, Open(t, c, s)
      PROVE  ManagerTypeOK'
  BY <1>3 DEF Open
<1>4. ASSUME NEW t \in Thread, NEW c \in Conn, Insert(t, c)
      PROVE  ManagerTypeOK'
  BY <1>4 DEF Insert
<1>5. ASSUME NEW t \in Thread, NEW c \in Conn, Get(t, c)
      PROVE  ManagerTypeOK'
  BY <1>5 DEF Get
<1>6. ASSUME NEW t \in Thread, NEW c \in Conn, NEW o \in Cleaned, Cleanup(t, c, o)
      PROVE  ManagerTypeOK'
  BY <1>6 DEF Cleanup
<1>7. ASSUME NEW T \in SUBSET Thread, Abandon(T)
      PROVE  ManagerTypeOK'
  BY <1>7 DEF Abandon
<1>8. CASE Tick
  <2>1. \A n \in 0 .. IdleCap : Older(n) \in 0 .. IdleCap
    BY DEF Older
  <2> QED BY <1>8, <2>1 DEF Tick
<1>9. CASE UNCHANGED managerVars
  BY <1>9 DEF managerVars
<1>10. ASSUME NEW e \in 0 .. MaxLag
       PROVE  Expired(e) \in SUBSET Conn
  BY DEF Expired
<1> QED
  BY <1>1, <1>2, <1>3, <1>4, <1>5, <1>6, <1>7, <1>8, <1>9, <1>10
  DEF ManagerNext, Disconnect, DisconnectAll, DisconnectStale

\* The variables keep their types, whatever the threads do.
THEOREM ManagerTyped == ManagerSpec => []ManagerTypeOK
BY InitTyped, StepTyped, PTL DEF ManagerSpec

-----------------------------------------------------------------------------
(* One owner.                                                               *)

\* At the start nobody owns a connection.
LEMMA InitOwned == ManagerInit => OneOwner
BY DEF ManagerInit, OneOwner, Exclusive, Accounted

\* OneOwner is inductive relative to the types: each step moves a connection
\* from one owner to the next.
LEMMA StepOwned ==
  ManagerTypeOK /\ OneOwner /\ [ManagerNext]_managerVars => OneOwner'
<1> SUFFICES ASSUME ManagerTypeOK, OneOwner, [ManagerNext]_managerVars
             PROVE  OneOwner'
  OBVIOUS
<1> USE DEF ManagerTypeOK, OneOwner, Exclusive, Accounted
<1>1. ASSUME NEW t \in Thread, Acquire(t)
      PROVE  OneOwner'
  BY <1>1 DEF Acquire
<1>2. ASSUME NEW t \in Thread, NEW S \in SUBSET pool, Withdraw(t, S)
      PROVE  OneOwner'
  BY <1>2 DEF Withdraw
<1>3. ASSUME NEW t \in Thread, NEW c \in Conn, NEW s \in Session, Open(t, c, s)
      PROVE  OneOwner'
  BY <1>3, ManagerAssumption DEF Open
<1>4. ASSUME NEW t \in Thread, NEW c \in Conn, Insert(t, c)
      PROVE  OneOwner'
  BY <1>4 DEF Insert
<1>5. ASSUME NEW t \in Thread, NEW c \in Conn, Get(t, c)
      PROVE  OneOwner'
  BY <1>5 DEF Get
<1>6. ASSUME NEW t \in Thread, NEW c \in Conn, NEW o \in Cleaned, Cleanup(t, c, o)
      PROVE  OneOwner'
  BY <1>6 DEF Cleanup, Cleaned
<1>7. ASSUME NEW T \in SUBSET Thread, Abandon(T)
      PROVE  OneOwner'
  BY <1>7 DEF Abandon
<1>8. CASE Tick
  BY <1>8 DEF Tick
<1>9. CASE UNCHANGED managerVars
  BY <1>9 DEF managerVars
<1>10. ASSUME NEW e \in 0 .. MaxLag
       PROVE  Expired(e) \in SUBSET pool
  BY DEF Expired
<1> QED
  BY <1>1, <1>2, <1>3, <1>4, <1>5, <1>6, <1>7, <1>8, <1>9, <1>10
  DEF ManagerNext, Disconnect, DisconnectAll, DisconnectStale

\* Every connection has exactly one owner, for every number of threads.
THEOREM ManagerOwned == ManagerSpec => []OneOwner
BY InitTyped, StepTyped, InitOwned, StepOwned, PTL DEF ManagerSpec

\* Before it is built a connection has not aged: only those in the pool or in the hands
\* of connect() do.
Unaged == \A c \in Conn : sess[c] = NoSession => idle[c] = 0

\* Every step of the manager keeps that.
LEMMA StepUnaged ==
  ManagerTypeOK /\ OneOwner /\ Unaged /\ [ManagerNext]_managerVars => Unaged'
<1> SUFFICES ASSUME ManagerTypeOK, OneOwner, Unaged, [ManagerNext]_managerVars
             PROVE  Unaged'
  OBVIOUS
<1> USE DEF ManagerTypeOK, Unaged
<1>1. ASSUME NEW t \in Thread, Acquire(t)
      PROVE  Unaged'
  BY <1>1 DEF Acquire
<1>2. ASSUME NEW t \in Thread, NEW S, Withdraw(t, S)
      PROVE  Unaged'
  BY <1>2 DEF Withdraw
<1>3. ASSUME NEW t \in Thread, NEW c \in Conn, NEW s \in Session, Open(t, c, s)
      PROVE  Unaged'
  BY <1>3, ManagerAssumption DEF Open
<1>4. ASSUME NEW t \in Thread, NEW c \in Conn, Insert(t, c)
      PROVE  Unaged'
  BY <1>4 DEF Insert
<1>5. ASSUME NEW t \in Thread, NEW c \in Conn, Get(t, c)
      PROVE  Unaged'
  BY <1>5 DEF Get
<1>6. ASSUME NEW t \in Thread, NEW c \in Conn, NEW o \in Cleaned, Cleanup(t, c, o)
      PROVE  Unaged'
  BY <1>6 DEF Cleanup
<1>7. ASSUME NEW T \in SUBSET Thread, Abandon(T)
      PROVE  Unaged'
  BY <1>7 DEF Abandon
<1>8. CASE Tick
  <2>1. \A c \in Conn : sess[c] = NoSession => c \notin Ageing
    BY DEF OneOwner, Accounted, Ageing
  <2> QED BY <1>8, <2>1 DEF Tick
<1>9. CASE UNCHANGED managerVars
  BY <1>9 DEF managerVars
<1> QED
  BY <1>1, <1>2, <1>3, <1>4, <1>5, <1>6, <1>7, <1>8, <1>9
  DEF ManagerNext, Disconnect, DisconnectAll, DisconnectStale

-----------------------------------------------------------------------------
(* The life cycle.                                                          *)

Life == [c \in Conn |-> StageOf(c)]

InHand(c) == \E t \in Thread : c \in made[t]

Doomed(c) == c \in lost \/ \E t \in Thread : c \in taken[t]

\* The owner of c decides its stage.
StageFromOwner(c) ==
  /\ sess[c] = NoSession => StageOf(c) = "none"
  /\ c \in pool => StageOf(c) = "open"
  /\ cleanup[c] # "no" => StageOf(c) = "released"
  /\ InHand(c) => StageOf(c) = "made"
  /\ Doomed(c) => StageOf(c) = "withdrawn"
  /\ \/ sess[c] = NoSession \/ c \in pool \/ cleanup[c] # "no"
     \/ InHand(c) \/ Doomed(c)

\* With one owner per connection the stages are told apart by the owner alone.
LEMMA StageByOwner ==
  ManagerTypeOK /\ OneOwner => \A c \in Conn : StageFromOwner(c)
<1> SUFFICES ASSUME ManagerTypeOK, OneOwner, NEW c \in Conn
             PROVE  StageFromOwner(c)
  OBVIOUS
<1> USE DEF OneOwner, Exclusive, Accounted, InHand, Doomed
<1>1. sess[c] = NoSession => StageOf(c) = "none"
  BY DEF StageOf
<1>2. c \in pool => StageOf(c) = "open"
  BY DEF StageOf
<1>3. cleanup[c] # "no" => StageOf(c) = "released"
  BY DEF StageOf
<1>4. InHand(c) => StageOf(c) = "made"
  BY DEF StageOf
<1>5. Doomed(c) => StageOf(c) = "withdrawn"
  BY DEF StageOf
<1>6. \/ sess[c] = NoSession \/ c \in pool \/ cleanup[c] # "no"
      \/ InHand(c) \/ Doomed(c)
  OBVIOUS
<1> QED BY <1>1, <1>2, <1>3, <1>4, <1>5, <1>6 DEF StageFromOwner

\* The same of the state after a step.
LEMMA StageByOwnerAfter ==
  ManagerTypeOK' /\ OneOwner' => \A c \in Conn : StageFromOwner(c)'
<1>1. (ManagerTypeOK /\ OneOwner => \A c \in Conn : StageFromOwner(c))'
  BY StageByOwner, PTL
<1> QED BY <1>1

\* A connection whose owners a step leaves alone stays in its stage.
LEMMA StageUnchanged ==
  ASSUME ManagerTypeOK, OneOwner, ManagerTypeOK', OneOwner', NEW c \in Conn,
         sess'[c] = sess[c], cleanup'[c] = cleanup[c],
         c \in pool' <=> c \in pool,
         InHand(c)' <=> InHand(c),
         Doomed(c)' <=> Doomed(c)
  PROVE  StageOf(c)' = StageOf(c)
BY StageByOwner, StageByOwnerAfter DEF StageFromOwner

\* At the start no connection has begun its life.
LEMMA InitMaps == ManagerInit => Lifecycle!LifecycleInit
BY DEF ManagerInit, Lifecycle!LifecycleInit, StageOf

\* Every step of the manager advances the connections it touches by one stage,
\* or leaves all stages alone.
LEMMA StepMaps ==
  /\ ManagerTypeOK /\ OneOwner /\ ManagerTypeOK' /\ OneOwner'
  /\ [ManagerNext]_managerVars
  => [Lifecycle!LifecycleNext]_Life
<1> SUFFICES ASSUME ManagerTypeOK, OneOwner, ManagerTypeOK', OneOwner',
                    [ManagerNext]_managerVars
             PROVE  Lifecycle!LifecycleNext \/ Life' = Life
  BY DEF Life
<1> USE DEF InHand, Doomed
<1>0. ASSUME \A c \in Conn : StageOf(c)' = StageOf(c)
      PROVE  Life' = Life
  BY <1>0 DEF Life
<1>1. ASSUME NEW S \in SUBSET Conn, S # {}, NEW from, NEW to,
             \A c \in S : StageOf(c) = from /\ StageOf(c)' = to,
             \A c \in Conn \ S : StageOf(c)' = StageOf(c)
      PROVE  Lifecycle!Advance(S, from, to)
  BY <1>1 DEF Lifecycle!Advance
<1>2. ASSUME NEW t \in Thread, NEW S \in SUBSET pool, Withdraw(t, S)
      PROVE  Lifecycle!LifecycleNext \/ Life' = Life
  <2>1. \A c \in Conn \ S : StageOf(c)' = StageOf(c)
    BY <1>2, StageUnchanged DEF Withdraw, ManagerTypeOK
  <2>2. \A c \in S : StageOf(c) = "open" /\ StageOf(c)' = "withdrawn"
    BY <1>2, StageByOwner, StageByOwnerAfter DEF StageFromOwner, Withdraw, ManagerTypeOK
  <2>3. CASE S = {}
    BY <2>1, <2>3, <1>0
  <2>4. CASE S # {}
    <3>1. Lifecycle!WithdrawAll(S)
      BY <1>1, <2>1, <2>2, <2>4 DEF Lifecycle!WithdrawAll, ManagerTypeOK
    <3> QED BY <3>1 DEF Lifecycle!LifecycleNext, ManagerTypeOK
  <2> QED BY <2>3, <2>4
<1>3. ASSUME NEW t \in Thread, NEW c \in Conn, NEW s \in Session, Open(t, c, s)
      PROVE  Lifecycle!LifecycleNext
  <2>1. StageOf(c) = "none" /\ StageOf(c)' = "made"
    BY <1>3, StageByOwner, StageByOwnerAfter DEF StageFromOwner, Open, ManagerTypeOK
  <2>2. \A d \in Conn \ {c} : StageOf(d)' = StageOf(d)
    BY <1>3, StageUnchanged DEF Open, ManagerTypeOK
  <2>3. Lifecycle!Make(c)
    BY <1>1, <2>1, <2>2 DEF Lifecycle!Make
  <2> QED BY <2>3 DEF Lifecycle!LifecycleNext
<1>4. ASSUME NEW t \in Thread, NEW c \in Conn, Insert(t, c)
      PROVE  Lifecycle!LifecycleNext
  <2>1. StageOf(c) = "made" /\ StageOf(c)' = "open"
    BY <1>4, StageByOwner, StageByOwnerAfter DEF StageFromOwner, Insert, ManagerTypeOK
  <2>2. \A d \in Conn \ {c} : StageOf(d)' = StageOf(d)
    BY <1>4, StageUnchanged DEF Insert, ManagerTypeOK
  <2>3. Lifecycle!Offer(c)
    BY <1>1, <2>1, <2>2 DEF Lifecycle!Offer
  <2> QED BY <2>3 DEF Lifecycle!LifecycleNext
<1>5. ASSUME NEW t \in Thread, NEW c \in Conn, NEW o \in Cleaned, Cleanup(t, c, o)
      PROVE  Lifecycle!LifecycleNext
  <2>1. StageOf(c) = "withdrawn" /\ StageOf(c)' = "released"
    BY <1>5, StageByOwner, StageByOwnerAfter DEF StageFromOwner, Cleanup, Cleaned, ManagerTypeOK
  <2>2. \A d \in Conn \ {c} : StageOf(d)' = StageOf(d)
    BY <1>5, StageUnchanged DEF Cleanup, ManagerTypeOK
  <2>3. Lifecycle!Release(c)
    BY <1>1, <2>1, <2>2 DEF Lifecycle!Release
  <2> QED BY <2>3 DEF Lifecycle!LifecycleNext
<1>6. ASSUME NEW T \in SUBSET Thread, Abandon(T)
      PROVE  \A c \in Conn : StageOf(c)' = StageOf(c)
  BY <1>6, StageUnchanged DEF Abandon, ManagerTypeOK
<1>7. ASSUME NEW t \in Thread, NEW c \in Conn, Acquire(t) \/ Get(t, c)
      PROVE  \A d \in Conn : StageOf(d)' = StageOf(d)
  BY <1>7 DEF Acquire, Get, StageOf
<1>8. Tick \/ UNCHANGED managerVars => \A c \in Conn : StageOf(c)' = StageOf(c)
  BY DEF Tick, managerVars, StageOf
<1>9. ASSUME NEW t \in Thread, Acquire(t)
      PROVE  \A d \in Conn : StageOf(d)' = StageOf(d)
  BY <1>9 DEF Acquire, StageOf
<1>10. ASSUME NEW e \in 0 .. MaxLag
       PROVE  Expired(e) \in SUBSET pool
  BY DEF Expired
<1> QED
  BY <1>0, <1>2, <1>3, <1>4, <1>5, <1>6, <1>7, <1>8, <1>9, <1>10
  DEF ManagerNext, Disconnect, DisconnectAll, DisconnectStale

\* The pool implements the life cycle: no connection is offered before it is
\* built, cleaned up before it is withdrawn, or ever goes back.
THEOREM ManagerImplementsLifecycle == ManagerSpec => ImplementsLifecycle
<1>1. ManagerSpec => [](ManagerTypeOK /\ OneOwner)
  BY ManagerTyped, ManagerOwned, PTL
<1>2. [Lifecycle!LifecycleNext]_Life
        <=> [Lifecycle!LifecycleNext]_([c \in Conn |-> StageOf(c)])
  BY DEF Life
<1> QED
  BY <1>1, <1>2, InitMaps, StepMaps, PTL
  DEF ManagerSpec, ImplementsLifecycle, Lifecycle!LifecycleSpec

=============================================================================
