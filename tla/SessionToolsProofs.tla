-------------------------- MODULE SessionToolsProofs --------------------------
(***************************************************************************)
(* Proofs about SessionTools, for any names, any bounds and any contents of *)
(* loaded files: what calls leave behind is a well-formed configuration,    *)
(* and success by name covers every object of the name.                     *)
(***************************************************************************)
EXTENDS SessionTools, WellFoundedInduction, TLAPS

Distinct(S) == \A x, y \in S : x.at = y.at => x = y

PortsOK(P) == P \subseteq Port /\ Distinct(P)
TopologiesOK(T) == T \subseteq Topology /\ Distinct(T)
GroupsOK(G, T) ==
  /\ G \subseteq Group /\ Distinct(G)
  /\ \A g \in G : \E t \in T : t.at = g.under

\* ConfigTypeOK of any configuration.
Sound(c) ==
  /\ c \in [ports : SUBSET Port, topologies : SUBSET Topology, groups : SUBSET Group]
  /\ PortsOK(c.ports) /\ TopologiesOK(c.topologies) /\ GroupsOK(c.groups, c.topologies)

\* All configurations an operation of a tool may end in.
AllSound(outcomes) == \A o \in outcomes : Fits(o.to) => Sound(o.to)

-----------------------------------------------------------------------------
(* Numbers.                                                                 *)

\* A non-empty bounded set of numbers has a largest one.
LEMMA LargestNumber ==
  ASSUME NEW N \in Nat, NEW T, T \subseteq 0 .. N, T # {}
  PROVE  \E x \in T : \A y \in T : x >= y
  <1> DEFINE U == {N - x : x \in T}
  <1>0. U \subseteq Nat /\ U # {}
    <2>1. \A x \in T : x \in Nat /\ x <= N /\ N - x \in Nat
      OBVIOUS
    <2>2. \A u \in U : \E x \in T : u = N - x
      OBVIOUS
    <2>3. PICK x : x \in T
      OBVIOUS
    <2>4. N - x \in U
      BY <2>3
    <2> HIDE DEF U
    <2> QED
      BY <2>1, <2>2, <2>4
  <1>1. IsWellFoundedOn(OpToRel(<, Nat), Nat)
    BY NatLessThanWellFounded
  <1>2. \E u \in U : \A v \in U : ~ (<<v, u>> \in OpToRel(<, Nat))
    BY <1>0, <1>1, WFMin, Zenon
  <1>3. PICK u \in U : \A v \in U : ~ (<<v, u>> \in OpToRel(<, Nat))
    BY <1>2
  <1>4. \A v \in U : <<v, u>> \in OpToRel(<, Nat) <=> v < u
    BY <1>0 DEF OpToRel
  <1>5. \A v \in U : ~ (v < u)
    BY <1>3, <1>4, Zenon
  <1>6. PICK x \in T : u = N - x
    BY <1>3
  <1>7. \A y \in T : N - y \in U
    OBVIOUS
  <1> HIDE DEF U
  <1>8. \A y \in T : y \in Nat /\ x \in Nat /\ ~ (N - y < N - x)
    BY <1>5, <1>6, <1>7
  <1>9. \A y \in T : x >= y
    BY <1>8
  <1> QED
    BY <1>9

\* The number of a new object is above those that are there.
LEMMA NextAtAbove ==
  ASSUME NEW S, NEW N \in Nat, \A x \in S : x.at \in 1 .. N
  PROVE  NextAt(S) \in 1 .. N + 1 /\ \A x \in S : x.at < NextAt(S)
  <1> DEFINE T == {x.at : x \in S} \cup {0}
  <1>1. T \subseteq 0 .. N /\ T # {}
    OBVIOUS
  <1>2. \E m \in T : \A y \in T : m >= y
    BY <1>1, LargestNumber
  <1>3. Max(T) \in T /\ \A y \in T : Max(T) >= y
    BY <1>2 DEF Max
  <1>4. NextAt(S) = 1 + Max(T)
    BY DEF NextAt
  <1>5. \A x \in S : x.at \in T
    OBVIOUS
  <1> HIDE DEF T
  <1>6. Max(T) \in 0 .. N /\ \A x \in S : x.at \in 0 .. N /\ Max(T) >= x.at
    BY <1>1, <1>3, <1>5
  <1> QED
    BY <1>4, <1>6

\* A bound on the next number is one on all numbers.
LEMMA FitsBound ==
  ASSUME NEW S, NEW N \in Nat, \A x \in S : x.at \in 1 .. N, NEW M \in Nat, NextAt(S) <= M + 1
  PROVE  \A x \in S : x.at \in 1 .. M
  BY NextAtAbove

-----------------------------------------------------------------------------
(* Ports.                                                                   *)

\* Ports may change, and the rest of the configuration does not.
LEMMA WithPortsSound ==
  ASSUME NEW c, Sound(c), NEW P, PortsOK(P)
  PROVE  Sound(WithPorts(P, c))
  BY DEF Sound, WithPorts, PortsOK

\* Ports that are added, assigned or not, get numbers of their own.
LEMMA AddedPorts ==
  ASSUME NEW c, Sound(c), NEW names, NEW n \in Nat, \A i \in 1 .. n : names[i] \in PortName,
         NEW S, S \subseteq NewPorts(names, n, c),
         NEW P, P = c.ports \cup SetAssigned(S, TRUE) \cup (NewPorts(names, n, c) \ S),
         NextAt(P) <= MaxPorts + 1
  PROVE  PortsOK(P)
  <1> DEFINE new == NewPorts(names, n, c)
             a == NextAt(c.ports)
  <1>0. MaxPorts \in Nat
    BY ConfigAssumption
  <1>1. /\ \A p \in c.ports : p \in Port /\ p.at \in 1 .. MaxPorts
        /\ Distinct(c.ports)
    BY DEF Sound, PortsOK, Port
  <1>2. a \in 1 .. MaxPorts + 1 /\ \A p \in c.ports : p.at < a
    BY <1>0, <1>1, NextAtAbove
  <1> HIDE DEF a
  <1>3. \A p \in new : \E i \in 1 .. n :
          p = [at |-> a + i - 1, name |-> names[i], assigned |-> FALSE]
    BY DEF NewPorts, a
  <1>4. \A p \in P \ c.ports : \E i \in 1 .. n, b \in BOOLEAN :
          /\ p = [at |-> a + i - 1, name |-> names[i], assigned |-> b]
          /\ b => [at |-> a + i - 1, name |-> names[i], assigned |-> FALSE] \in S
          /\ ~b => [at |-> a + i - 1, name |-> names[i], assigned |-> FALSE] \notin S
    <2> SUFFICES ASSUME NEW p \in P \ c.ports
                 PROVE  \E i \in 1 .. n, b \in BOOLEAN :
          /\ p = [at |-> a + i - 1, name |-> names[i], assigned |-> b]
          /\ b => [at |-> a + i - 1, name |-> names[i], assigned |-> FALSE] \in S
          /\ ~b => [at |-> a + i - 1, name |-> names[i], assigned |-> FALSE] \notin S
      OBVIOUS
    <2>1. CASE p \in new \ S
      BY <1>3, <2>1
    <2>2. CASE p \in SetAssigned(S, TRUE)
      <3>1. PICK q \in S : p = [q EXCEPT !.assigned = TRUE]
        BY <2>2 DEF SetAssigned
      <3>2. PICK i \in 1 .. n : q = [at |-> a + i - 1, name |-> names[i], assigned |-> FALSE]
        BY <1>3, <3>1
      <3>3. p = [at |-> a + i - 1, name |-> names[i], assigned |-> TRUE]
        BY <3>1, <3>2
      <3> QED
        BY <3>1, <3>2, <3>3
    <2> QED
      BY <2>1, <2>2
  <1>a. \A i \in 1 .. n : a + i - 1 \in Nat /\ a + i - 1 >= a /\ a + i - 1 \in 1 .. MaxPorts + 1 + n
    BY <1>0, <1>2
  <1>5. \A p \in P \ c.ports : /\ p \in [at : Nat, name : PortName, assigned : BOOLEAN]
                               /\ p.at >= a /\ p.at \in 1 .. MaxPorts + 1 + n
    <2> SUFFICES ASSUME NEW p \in P \ c.ports
                 PROVE  /\ p \in [at : Nat, name : PortName, assigned : BOOLEAN]
                        /\ p.at >= a /\ p.at \in 1 .. MaxPorts + 1 + n
      OBVIOUS
    <2>1. PICK i \in 1 .. n, b \in BOOLEAN : p = [at |-> a + i - 1, name |-> names[i], assigned |-> b]
      BY <1>4
    <2>2. p.at = a + i - 1
      BY <2>1
    <2>3. names[i] \in PortName
      OBVIOUS
    <2> QED
      BY <1>a, <2>1, <2>2, <2>3
  <1>6. \A p \in P : p.at \in 1 .. MaxPorts + 1 + n
    <2>1. \A m \in 1 .. MaxPorts : m \in 1 .. MaxPorts + 1 + n
      BY <1>0
    <2> QED
      BY <1>1, <1>5, <2>1
  <1>7. \A p \in P : p.at \in 1 .. MaxPorts
    <2> DEFINE N == MaxPorts + 1 + n
    <2>1. N \in Nat
      BY <1>0
    <2>2. NextAt(P) <= MaxPorts + 1
      OBVIOUS
    <2>3. \A p \in P : p.at \in 1 .. N
      BY <1>6
    <2> HIDE DEF new, N
    <2> QED
      BY <1>0, <2>1, <2>2, <2>3, FitsBound, Zenon
  <1>8. P \subseteq Port
    <2> SUFFICES ASSUME NEW p \in P, p \notin c.ports PROVE p \in Port
      BY <1>1
    <2>1. p \in [at : Nat, name : PortName, assigned : BOOLEAN]
      BY <1>5
    <2>2. p.at \in 1 .. MaxPorts
      BY <1>7
    <2> QED
      BY <2>1, <2>2 DEF Port
  <1>9. Distinct(P)
    <2> SUFFICES ASSUME NEW x \in P, NEW y \in P, x.at = y.at PROVE x = y
      BY DEF Distinct
    <2>1. CASE x \in c.ports /\ y \in c.ports
      BY <1>1, <2>1 DEF Distinct
    <2>2. CASE x \notin c.ports /\ y \notin c.ports
      <3>1. PICK i \in 1 .. n, b \in BOOLEAN :
              /\ x = [at |-> a + i - 1, name |-> names[i], assigned |-> b]
              /\ b => [at |-> a + i - 1, name |-> names[i], assigned |-> FALSE] \in S
              /\ ~b => [at |-> a + i - 1, name |-> names[i], assigned |-> FALSE] \notin S
        BY <1>4, <2>2
      <3>2. PICK j \in 1 .. n, d \in BOOLEAN :
              /\ y = [at |-> a + j - 1, name |-> names[j], assigned |-> d]
              /\ d => [at |-> a + j - 1, name |-> names[j], assigned |-> FALSE] \in S
              /\ ~d => [at |-> a + j - 1, name |-> names[j], assigned |-> FALSE] \notin S
        BY <1>4, <2>2
      <3>3. x.at = a + i - 1 /\ y.at = a + j - 1
        BY <3>1, <3>2
      <3>4. i = j
        <4>1. a \in Int /\ i \in Int /\ j \in Int
          BY <1>0, <1>2
        <4>2. a + i - 1 = a + j - 1
          BY <3>3
        <4> QED
          BY <4>1, <4>2
      <3>5. b = d
        BY <3>1, <3>2, <3>4
      <3> QED
        BY <3>1, <3>2, <3>4, <3>5
    <2>3. x \in c.ports <=> y \in c.ports
      <3>1. ASSUME NEW p \in c.ports, NEW q \in P \ c.ports PROVE p.at # q.at
        <4>1. p.at < a /\ p.at \in Int
          BY <1>1, <1>2
        <4>2. a \in Int
          BY <1>0, <1>2
        <4>3. q.at >= a /\ q.at \in 1 .. MaxPorts + 1 + n
          BY <1>5
        <4>4. q.at \in Int
          BY <4>3
        <4> QED
          BY <4>1, <4>2, <4>3, <4>4
      <3> QED
        BY <3>1
    <2> QED
      BY <2>1, <2>2, <2>3
  <1> QED
    BY <1>8, <1>9 DEF PortsOK

\* ixia_add_ports keeps the configuration sound (ports.py:182-204).
LEMMA AddPortsSound ==
  ASSUME NEW c, Sound(c), NEW call \in AddCall
  PROVE  AllSound(AddPorts(call, c))
  <1> DEFINE names == NewNames(call)
             n == call.pairs
  <1>a. MaxPairs \in Nat /\ 1 .. MaxPairs \subseteq PortName
    BY ConfigAssumption
  <1>0. n \in Nat /\ n \in 0 .. MaxPairs
    <2>1. call.pairs \in 0 .. MaxPairs
      BY DEF AddCall
    <2> QED
      BY <1>a, <2>1
  <1>1. ASSUME Len(names) = n PROVE \A i \in 1 .. n : names[i] \in PortName
    <2>1. CASE call.names # <<>>
      <3>1. PICK m \in 0 .. MaxPairs : call.names \in [1 .. m -> PortName]
        BY DEF AddCall, Names
      <3>2. Len(call.names) = m
        BY <1>a, <3>1
      <3> QED
        BY <1>1, <2>1, <3>1, <3>2 DEF NewNames
    <2>2. CASE call.names = <<>>
      <3>1. \A i \in 1 .. n : i \in 1 .. MaxPairs
        BY <1>a, <1>0
      <3> QED
        BY <1>a, <2>2, <3>1 DEF NewNames
    <2> QED
      BY <2>1, <2>2
  <1> HIDE DEF names, n
  <1>2. CASE Len(names) # n
    <2>1. AddPorts(call, c) = {Outcome(c, "error")}
      BY <1>2 DEF AddPorts, names, n
    <2> QED
      BY <2>1 DEF AllSound, Outcome
  <1>3. CASE Len(names) = n
    <2>1. ASSUME NEW k \in 0 .. n, NEW S \in SUBSET NewPorts(names, k, c),
                 NEW P, P = c.ports \cup SetAssigned(S, TRUE) \cup (NewPorts(names, k, c) \ S),
                 Fits(WithPorts(P, c))
          PROVE  Sound(WithPorts(P, c))
      <3>1. NextAt(P) <= MaxPorts + 1
        BY <2>1 DEF Fits, WithPorts, Sound
      <3>2. \A i \in 1 .. k : names[i] \in PortName
        BY <1>0, <1>1, <1>3
      <3>3. k \in Nat /\ S \subseteq NewPorts(names, k, c)
        BY <1>0
      <3>4. PortsOK(P)
        BY <2>1, <3>1, <3>2, <3>3, AddedPorts, Zenon
      <3> QED
        BY <3>4, WithPortsSound
    <2>2. \A k \in 0 .. n : c.ports \cup NewPorts(names, k, c)
             = c.ports \cup SetAssigned({}, TRUE) \cup (NewPorts(names, k, c) \ {})
      BY DEF SetAssigned
    <2>3. ASSUME NEW o \in AddPorts(call, c), Fits(o.to) PROVE Sound(o.to)
      <3> DEFINE with(k, S) == c.ports \cup SetAssigned(S, TRUE) \cup (NewPorts(names, k, c) \ S)
      <3>1. ASSUME NEW k \in 0 .. n, NEW S \in SUBSET NewPorts(names, k, c), o.to = WithPorts(with(k, S), c)
            PROVE  Sound(o.to)
        BY <2>1, <2>3, <3>1
      <3>2. \A k \in 0 .. n : c.ports \cup NewPorts(names, k, c) = with(k, {})
        BY <2>2
      <3>3. c.ports \cup SetAssigned(NewPorts(names, n, c), TRUE) = with(n, NewPorts(names, n, c))
        OBVIOUS
      <3> HIDE DEF with
      <3>4. AddPorts(call, c) =
                   {Outcome(WithPorts(c.ports \cup NewPorts(names, k, c), c), "error") : k \in 0 .. n}
              \cup {Outcome(WithPorts(with(n, S), c), "error") : S \in SUBSET NewPorts(names, n, c)}
              \cup {Outcome(WithPorts(c.ports \cup SetAssigned(NewPorts(names, n, c), TRUE), c), "ok")}
        BY <1>3, Zenon DEF AddPorts, names, n, with
      <3>5. \/ \E k \in 0 .. n : o = Outcome(WithPorts(c.ports \cup NewPorts(names, k, c), c), "error")
            \/ \E S \in SUBSET NewPorts(names, n, c) : o = Outcome(WithPorts(with(n, S), c), "error")
            \/ o = Outcome(WithPorts(c.ports \cup SetAssigned(NewPorts(names, n, c), TRUE), c), "ok")
        BY <2>3, <3>4, Zenon
      <3>6. \E k \in 0 .. n : \E S \in SUBSET NewPorts(names, k, c) : o.to = WithPorts(with(k, S), c)
        <4>1. n \in 0 .. n
          BY <1>0
        <4>2. \A k : {} \in SUBSET NewPorts(names, k, c) /\ NewPorts(names, k, c) \in SUBSET NewPorts(names, k, c)
          OBVIOUS
        <4>3. CASE \E k \in 0 .. n : o = Outcome(WithPorts(c.ports \cup NewPorts(names, k, c), c), "error")
          BY <3>2, <4>2, <4>3 DEF Outcome
        <4>4. CASE \E S \in SUBSET NewPorts(names, n, c) : o = Outcome(WithPorts(with(n, S), c), "error")
          BY <4>1, <4>4 DEF Outcome
        <4>5. CASE o = Outcome(WithPorts(c.ports \cup SetAssigned(NewPorts(names, n, c), TRUE), c), "ok")
          BY <3>3, <4>1, <4>2, <4>5 DEF Outcome
        <4> QED
          BY <3>5, <4>3, <4>4, <4>5
      <3> QED
        BY <3>1, <3>6
    <2> QED
      BY <2>3 DEF AllSound
  <1> QED
    BY <1>2, <1>3

\* The configuration is sound whichever ports were dealt with.
LEMMA GoneSound ==
  ASSUME NEW c, Sound(c), NEW call, NEW S, S \subseteq c.ports
  PROVE  Sound(Gone(call, S, c))
  <1> DEFINE R == IF call.tool = "release ports" THEN SetAssigned(S, FALSE) ELSE {}
  <1>1. \A p \in R : \E q \in S : p = [q EXCEPT !.assigned = FALSE]
    BY DEF SetAssigned
  <1> HIDE DEF R
  <1>2. c.ports \subseteq Port /\ Distinct(c.ports)
    BY DEF Sound, PortsOK
  <1>3. ASSUME NEW p \in R
        PROVE  p \in Port /\ \E q \in S : p.at = q.at /\ p = [q EXCEPT !.assigned = FALSE]
    <2>1. PICK q \in S : p = [q EXCEPT !.assigned = FALSE]
      BY <1>1
    <2>2. q \in Port
      BY <1>2
    <2>3. p \in Port /\ p.at = q.at
      BY <2>1, <2>2 DEF Port
    <2> QED
      BY <2>1, <2>3
  <1>4. Distinct((c.ports \ S) \cup R)
    <2> SUFFICES ASSUME NEW x \in (c.ports \ S) \cup R, NEW y \in (c.ports \ S) \cup R, x.at = y.at
                 PROVE  x = y
      BY DEF Distinct
    <2>1. \A p \in R : \E q \in S : p.at = q.at /\ p = [q EXCEPT !.assigned = FALSE]
      BY <1>3
    <2>2. \A p, q \in c.ports : p.at = q.at => p = q
      BY <1>2 DEF Distinct
    <2>3. CASE x \in R /\ y \in R
      BY <2>1, <2>2, <2>3
    <2>4. CASE x \notin R /\ y \notin R
      BY <2>2, <2>4
    <2>5. CASE ~ (x \in R <=> y \in R)
      BY <2>1, <2>2, <2>5
    <2> QED
      BY <2>3, <2>4, <2>5
  <1>5. PortsOK((c.ports \ S) \cup R)
    BY <1>2, <1>3, <1>4 DEF PortsOK
  <1> QED
    BY <1>5, WithPortsSound DEF Gone, R

\* Wherever the loop over the names stops, it has dealt with some of the ports.
LEMMA SomePortsGone ==
  ASSUME NEW c, NEW call \in NamesCall
  PROVE  \A o \in ForNamedPorts(call, c) : \E S : S \subseteq c.ports /\ o.to = Gone(call, S, c)
  <1>1. \A i, n : /\ {p \in c.ports : p.at <= n} \subseteq c.ports
                  /\ DealtWith(call, i, c) \subseteq c.ports
                  /\ DealtWith(call, i, c) \cup {p \in Found(call, i, c) : p.at <= n} \subseteq c.ports
    BY DEF DealtWith, Found, Named
  <1> SUFFICES ASSUME NEW o \in ForNamedPorts(call, c)
               PROVE  \E S : S \subseteq c.ports /\ o.to = Gone(call, S, c)
    OBVIOUS
  <1>2. \/ \E n : o.to = Gone(call, {p \in c.ports : p.at <= n}, c)
        \/ o.to = Gone(call, c.ports, c)
        \/ \E i : o.to = Gone(call, DealtWith(call, i, c), c)
        \/ \E i, n : o.to = Gone(call, DealtWith(call, i, c) \cup {p \in Found(call, i, c) : p.at <= n}, c)
    <2>1. CASE call.names = <<>>
      <3>1. \/ \E n \in 0 .. MaxPorts : o = Outcome(Gone(call, {p \in c.ports : p.at <= n}, c), "error")
            \/ o = Outcome(Gone(call, c.ports, c), IF c.ports = {} THEN "nothing" ELSE "ok")
        BY <2>1, Zenon DEF ForNamedPorts
      <3> QED
        BY <3>1 DEF Outcome
    <2>2. CASE call.names # <<>>
      <3> DEFINE end == Len(call.names) + 1
                 loop == {i \in 1 .. end - 1 : Reaches(call, i, c)}
                 missed == {i \in 1 .. end - 1 : Reaches(call, i, c) /\ Misses(call, i, c)}
                 over == {i \in {end} : Reaches(call, i, c)}
                 half == loop \X (0 .. MaxPorts)
                 partly(x) == DealtWith(call, x[1], c) \cup {p \in Found(call, x[1], c) : p.at <= x[2]}
      <3>0. ForNamedPorts(call, c) =
                 {Outcome(Gone(call, DealtWith(call, i, c), c), "not found") : i \in missed}
            \cup {Outcome(Gone(call, partly(x), c), "error") : x \in half}
            \cup {Outcome(Gone(call, DealtWith(call, i, c), c), "ok") : i \in over}
        BY <2>2, Zenon DEF ForNamedPorts
      <3> HIDE DEF missed, half, over, loop, end, partly
      <3>a. \/ \E i \in missed : o = Outcome(Gone(call, DealtWith(call, i, c), c), "not found")
            \/ \E x \in half : o = Outcome(Gone(call, partly(x), c), "error")
            \/ \E i \in over : o = Outcome(Gone(call, DealtWith(call, i, c), c), "ok")
        BY <3>0, Zenon
      <3>1. \/ \E i : o = Outcome(Gone(call, DealtWith(call, i, c), c), "not found")
            \/ \E x : o = Outcome(Gone(call, DealtWith(call, x[1], c)
                                   \cup {p \in Found(call, x[1], c) : p.at <= x[2]}, c), "error")
            \/ \E i : o = Outcome(Gone(call, DealtWith(call, i, c), c), "ok")
        <4>1. \A x : partly(x) = DealtWith(call, x[1], c) \cup {p \in Found(call, x[1], c) : p.at <= x[2]}
          BY DEF partly
        <4> QED
          BY <3>a, <4>1, Zenon
      <3>2. \A a, b : Outcome(a, b).to = a
        BY DEF Outcome
      <3>3. CASE \E x : o = Outcome(Gone(call, DealtWith(call, x[1], c)
                                   \cup {p \in Found(call, x[1], c) : p.at <= x[2]}, c), "error")
        <4>1. PICK x : o = Outcome(Gone(call, DealtWith(call, x[1], c)
                                   \cup {p \in Found(call, x[1], c) : p.at <= x[2]}, c), "error")
          BY <3>3
        <4>2. o.to = Gone(call, DealtWith(call, x[1], c)
                                   \cup {p \in Found(call, x[1], c) : p.at <= x[2]}, c)
          BY <3>2, <4>1
        <4> QED
          BY <4>2
      <3>4. ASSUME NEW a, NEW i, o = Outcome(Gone(call, DealtWith(call, i, c), c), a)
            PROVE  o.to = Gone(call, DealtWith(call, i, c), c)
        BY <3>2, <3>4
      <3> QED
        BY <3>1, <3>3, <3>4, Zenon
    <2> QED
      BY <2>1, <2>2
  <1> QED
    BY <1>1, <1>2

\* So do releasing and removing, wherever they stop (ports.py:251-266, 304-319).
LEMMA NamedPortsSound ==
  ASSUME NEW c, Sound(c), NEW call \in NamesCall
  PROVE  AllSound(ForNamedPorts(call, c))
  BY GoneSound, SomePortsGone DEF AllSound

-----------------------------------------------------------------------------
(* Topologies and device groups: what REST calls do.                        *)

\* An object with the next number.
LEMMA AddedDistinct ==
  ASSUME NEW S, NEW N \in Nat, \A x \in S : x.at \in 1 .. N, Distinct(S),
         NEW y, y.at = NextAt(S)
  PROVE  Distinct(S \cup {y})
  <1>1. NextAt(S) \in 1 .. N + 1 /\ \A x \in S : x.at < NextAt(S)
    BY NextAtAbove
  <1>2. \A x \in S : x.at # y.at
    BY <1>1
  <1> QED
    BY <1>2 DEF Distinct

\* An object takes the place of one with its number.
LEMMA ReplacedDistinct ==
  ASSUME NEW S, Distinct(S), NEW x \in S, NEW y, y.at = x.at
  PROVE  Distinct((S \ {x}) \cup {y})
  BY DEF Distinct

\* What soundness of a configuration gives.
LEMMA SoundParts ==
  ASSUME NEW c, Sound(c)
  PROVE  /\ c.ports \subseteq Port /\ Distinct(c.ports)
         /\ c.topologies \subseteq Topology /\ Distinct(c.topologies)
         /\ c.groups \subseteq Group /\ Distinct(c.groups)
         /\ \A g \in c.groups : \E t \in c.topologies : t.at = g.under
  BY DEF Sound, PortsOK, TopologiesOK, GroupsOK

\* Device groups may change, in the topologies there are.
LEMMA WithGroupsSound ==
  ASSUME NEW c, Sound(c), NEW G, GroupsOK(G, c.topologies)
  PROVE  Sound([c EXCEPT !.groups = G])
  BY DEF Sound, GroupsOK

\* Topologies may change as long as their numbers stay.
LEMMA WithTopologiesSound ==
  ASSUME NEW c, Sound(c), NEW T, TopologiesOK(T),
         \A t \in c.topologies : \E u \in T : u.at = t.at
  PROVE  Sound([c EXCEPT !.topologies = T])
  <1>1. GroupsOK(c.groups, T)
    BY SoundParts DEF GroupsOK
  <1> QED
    BY <1>1 DEF Sound, TopologiesOK, GroupsOK

\* topo.remove()
LEMMA WithoutTopologySound ==
  ASSUME NEW c, Sound(c), NEW t \in c.topologies
  PROVE  Sound(WithoutTopology(t, c))
  <1> DEFINE T == c.topologies \ {t}
             G == c.groups \ GroupsOf({t}, c)
  <1>1. TopologiesOK(T)
    BY SoundParts DEF TopologiesOK, Distinct
  <1>2. \A g \in G : g \in c.groups /\ g.under # t.at
    BY DEF GroupsOf
  <1>3. GroupsOK(G, T)
    BY <1>2, SoundParts DEF GroupsOK, Distinct
  <1> HIDE DEF T, G
  <1>4. Sound([c EXCEPT !.topologies = T, !.groups = G])
    BY <1>1, <1>3 DEF Sound, TopologiesOK, GroupsOK
  <1> QED
    BY <1>4 DEF WithoutTopology, T, G

\* App.Topology.add
LEMMA AddedTopologySound ==
  ASSUME NEW c, Sound(c), NEW n \in TopologyName,
         NEW d, d = [c EXCEPT !.topologies = @ \cup {[at |-> NextAt(c.topologies), name |-> n]}],
         Fits(d)
  PROVE  Sound(d)
  <1> DEFINE t == [at |-> NextAt(c.topologies), name |-> n]
             T == c.topologies \cup {t}
  <1>0. MaxTopologies \in Nat
    BY ConfigAssumption
  <1>1. /\ c.topologies \subseteq Topology /\ Distinct(c.topologies)
        /\ \A x \in c.topologies : x.at \in 1 .. MaxTopologies
    BY SoundParts DEF Topology
  <1>2. NextAt(c.topologies) \in 1 .. MaxTopologies + 1
    BY <1>0, <1>1, NextAtAbove
  <1>3. d.topologies = T
    BY DEF Sound
  <1>4. NextAt(T) <= MaxTopologies + 1
    BY <1>3 DEF Fits
  <1>5. t.at = NextAt(c.topologies)
    OBVIOUS
  <1> HIDE DEF t
  <1>6. Distinct(T)
    BY <1>0, <1>1, <1>5, AddedDistinct
  <1>7. t.at \in 1 .. MaxTopologies
    <2> DEFINE N == MaxTopologies + 1
    <2>1. N \in Nat
      BY <1>0
    <2>2. \A x \in T : x.at \in 1 .. N
      BY <1>0, <1>1, <1>2, <1>5
    <2> HIDE DEF N, T
    <2>3. \A x \in T : x.at \in 1 .. MaxTopologies
      BY <1>0, <1>4, <2>1, <2>2, FitsBound, Zenon
    <2> QED
      BY <2>3 DEF T
  <1>8. t \in Topology
    BY <1>7 DEF Topology, t
  <1>9. TopologiesOK(T)
    BY <1>1, <1>6, <1>8 DEF TopologiesOK
  <1>10. \A x \in c.topologies : \E u \in T : u.at = x.at
    OBVIOUS
  <1>11. d = [c EXCEPT !.topologies = T]
    BY DEF t
  <1> HIDE DEF T
  <1>12. Sound([c EXCEPT !.topologies = T])
    BY <1>9, <1>10, WithTopologiesSound
  <1> QED
    BY <1>11, <1>12

\* A topology is renamed.
LEMMA TopologyNowSound ==
  ASSUME NEW c, Sound(c), NEW t \in c.topologies, NEW n \in TopologyName
  PROVE  Sound(TopologyNow(t, [t EXCEPT !.name = n], c))
  <1> DEFINE r == [t EXCEPT !.name = n]
             T == (c.topologies \ {t}) \cup {r}
  <1>1. t \in Topology
    BY SoundParts
  <1>2. r \in Topology /\ r.at = t.at
    BY <1>1 DEF Topology
  <1> HIDE DEF r
  <1>3. Distinct(T)
    BY <1>2, SoundParts, ReplacedDistinct
  <1>4. TopologiesOK(T)
    BY <1>2, <1>3, SoundParts DEF TopologiesOK
  <1>5. \A x \in c.topologies : \E u \in T : u.at = x.at
    BY <1>2
  <1> HIDE DEF T
  <1>6. Sound([c EXCEPT !.topologies = T])
    BY <1>4, <1>5, WithTopologiesSound
  <1>7. TopologyNow(t, r, c) = [c EXCEPT !.topologies = T]
    BY DEF TopologyNow, T
  <1>8. Sound(TopologyNow(t, r, c))
    BY <1>6, <1>7
  <1> QED
    BY <1>8 DEF r

\* dg.Start() and dg.Stop()
LEMMA SetRunningSound ==
  ASSUME NEW c, Sound(c), NEW S, S \subseteq c.groups, NEW b \in BOOLEAN
  PROVE  Sound(SetRunning(S, b, c))
  <1> DEFINE R == {[g EXCEPT !.running = b] : g \in S}
             G == (c.groups \ S) \cup R
  <1>0. \A g \in c.groups : g \in Group
    BY SoundParts
  <1>1. ASSUME NEW r \in R
        PROVE  r \in Group /\ \E g \in S : r.at = g.at /\ r.under = g.under /\ r = [g EXCEPT !.running = b]
    <2>1. PICK g \in S : r = [g EXCEPT !.running = b]
      OBVIOUS
    <2>2. g \in Group
      BY <1>0
    <2>3. r \in Group /\ r.at = g.at /\ r.under = g.under
      BY <2>1, <2>2 DEF Group
    <2> QED
      BY <2>1, <2>3
  <1> HIDE DEF R
  <1>2. Distinct(G)
    <2> SUFFICES ASSUME NEW x \in G, NEW y \in G, x.at = y.at PROVE x = y
      BY DEF Distinct
    <2>1. \A g, h \in c.groups : g.at = h.at => g = h
      BY SoundParts DEF Distinct
    <2>2. \A r \in R : \E g \in S : r.at = g.at /\ r = [g EXCEPT !.running = b]
      BY <1>1
    <2>3. CASE x \in R /\ y \in R
      BY <2>1, <2>2, <2>3
    <2>4. CASE x \notin R /\ y \notin R
      BY <2>1, <2>4
    <2>5. CASE ~ (x \in R <=> y \in R)
      BY <2>1, <2>2, <2>5
    <2> QED
      BY <2>3, <2>4, <2>5
  <1>3. G \subseteq Group
    BY <1>0, <1>1
  <1>4. \A g \in G : \E t \in c.topologies : t.at = g.under
    BY <1>1, SoundParts
  <1>5. GroupsOK(G, c.topologies)
    BY <1>2, <1>3, <1>4 DEF GroupsOK
  <1> HIDE DEF G
  <1>6. Sound([c EXCEPT !.groups = G])
    BY <1>5, WithGroupsSound
  <1> QED
    BY <1>6 DEF SetRunning, G, R

\* topo.DeviceGroup.add
LEMMA AddedGroupSound ==
  ASSUME NEW c, Sound(c), NEW t \in c.topologies, NEW n \in GroupName,
         NEW d, d = [c EXCEPT !.groups = @ \cup
                       {[at |-> NextAt(c.groups), under |-> t.at, name |-> n,
                         running |-> FALSE, routed |-> FALSE]}],
         Fits(d)
  PROVE  Sound(d)
  <1> DEFINE g == [at |-> NextAt(c.groups), under |-> t.at, name |-> n,
                   running |-> FALSE, routed |-> FALSE]
             G == c.groups \cup {g}
  <1>0. MaxGroups \in Nat
    BY ConfigAssumption
  <1>1. /\ c.groups \subseteq Group /\ Distinct(c.groups)
        /\ \A x \in c.groups : x.at \in 1 .. MaxGroups
        /\ \A x \in c.groups : \E u \in c.topologies : u.at = x.under
    BY SoundParts DEF Group
  <1>2. NextAt(c.groups) \in 1 .. MaxGroups + 1
    BY <1>0, <1>1, NextAtAbove
  <1>3. d.groups = G
    BY DEF Sound
  <1>4. NextAt(G) <= MaxGroups + 1
    BY <1>3 DEF Fits
  <1>5. g.at = NextAt(c.groups) /\ g.under = t.at
    OBVIOUS
  <1>6. t.at \in 1 .. MaxTopologies
    BY SoundParts DEF Topology
  <1> HIDE DEF g
  <1>7. Distinct(G)
    BY <1>0, <1>1, <1>5, AddedDistinct
  <1>8. g.at \in 1 .. MaxGroups
    <2> DEFINE N == MaxGroups + 1
    <2>1. N \in Nat
      BY <1>0
    <2>2. \A x \in G : x.at \in 1 .. N
      BY <1>0, <1>1, <1>2, <1>5
    <2> HIDE DEF N, G
    <2>3. \A x \in G : x.at \in 1 .. MaxGroups
      BY <1>0, <1>4, <2>1, <2>2, FitsBound, Zenon
    <2> QED
      BY <2>3 DEF G
  <1>9. g \in Group
    BY <1>6, <1>8 DEF Group, g
  <1>10. GroupsOK(G, c.topologies)
    BY <1>1, <1>5, <1>7, <1>9 DEF GroupsOK
  <1>11. d = [c EXCEPT !.groups = G]
    BY DEF g
  <1> HIDE DEF G
  <1> QED
    BY <1>10, <1>11, WithGroupsSound

\* A device group is renamed, or gets a network group.
LEMMA GroupNowSound ==
  ASSUME NEW c, Sound(c), NEW g \in c.groups,
         NEW r \in Group, r.at = g.at, r.under = g.under
  PROVE  Sound(GroupNow(g, r, c))
  <1> DEFINE G == (c.groups \ {g}) \cup {r}
  <1>1. Distinct(G)
    BY SoundParts, ReplacedDistinct
  <1>2. GroupsOK(G, c.topologies)
    BY <1>1, SoundParts DEF GroupsOK
  <1> HIDE DEF G
  <1>3. Sound([c EXCEPT !.groups = G])
    BY <1>2, WithGroupsSound
  <1> QED
    BY <1>3 DEF GroupNow, G

\* dg.remove()
LEMMA WithoutGroupSound ==
  ASSUME NEW c, Sound(c), NEW g \in c.groups
  PROVE  Sound([c EXCEPT !.groups = @ \ {g}])
  <1> DEFINE G == c.groups \ {g}
  <1>1. GroupsOK(G, c.topologies)
    BY SoundParts DEF GroupsOK, Distinct
  <1> HIDE DEF G
  <1>2. Sound([c EXCEPT !.groups = G])
    BY <1>1, WithGroupsSound
  <1> QED
    BY <1>2 DEF G

-----------------------------------------------------------------------------
(* Topologies and device groups: the tools.                                 *)

\* Before or after a REST call that keeps the configuration sound it is sound.
LEMMA MadeSound ==
  ASSUME NEW c, Sound(c), NEW d, Fits(d) => Sound(d)
  PROVE  AllSound(Made(c, d))
  BY DEF AllSound, Made, Outcome

\* A tool that changes nothing leaves it sound.
LEMMA UnchangedSound ==
  ASSUME NEW c, Sound(c), NEW answers
  PROVE  AllSound(Unchanged(c, answers))
  BY DEF AllSound, Unchanged, Outcome

\* The same of a single answer.
LEMMA OneOutcomeSound ==
  ASSUME NEW c, Sound(c), NEW answer
  PROVE  AllSound({Outcome(c, answer)})
  <1>1. Outcome(c, answer).to = c
    BY DEF Outcome
  <1> QED
    BY <1>1 DEF AllSound

\* _find_topo finds topologies there are.
LEMMA FoundTopology ==
  ASSUME NEW n, NEW c
  PROVE  FindTopo(n, c) \subseteq c.topologies
  BY DEF FindTopo, First, Named

\* _find_device_group finds device groups there are.
LEMMA FoundGroup ==
  ASSUME NEW n, NEW d, NEW c
  PROVE  FindDeviceGroup(n, d, c) \subseteq c.groups
  BY DEF FindDeviceGroup, First, Named, GroupsOf

\* ixia_create_topology (topology.py:428-434).
LEMMA CreateTopologySound ==
  ASSUME NEW c, Sound(c), NEW call \in Of("create topology")
  PROVE  AllSound(CreateTopology(call, c))
  <1> DEFINE d == [c EXCEPT !.topologies = @ \cup
                     {[at |-> NextAt(c.topologies), name |-> call.name]}]
  <1>1. call.name \in TopologyName
    BY DEF Of, TopologyCall, GroupCall
  <1>2. Fits(d) => Sound(d)
    BY <1>1, AddedTopologySound
  <1> HIDE DEF d
  <1>3. AllSound(Made(c, d)) /\ AllSound(Unchanged(c, {"not found", "error"}))
    BY <1>2, MadeSound, UnchangedSound
  <1> QED
    BY <1>3 DEF CreateTopology, d

\* ixia_delete_topology (topology.py:473-477).
LEMMA DeleteTopologySound ==
  ASSUME NEW c, Sound(c), NEW call \in Of("delete topology")
  PROVE  AllSound(DeleteTopology(call, c))
  <1>1. ASSUME NEW t \in FindTopo(call.topology, c)
        PROVE  AllSound(Made(c, WithoutTopology(t, c)))
    BY <1>1, FoundTopology, WithoutTopologySound, MadeSound
  <1>2. AllSound(Unchanged(c, {"not found", "error"}))
    BY UnchangedSound
  <1>3. AllSound(UNION {Made(c, WithoutTopology(t, c)) : t \in FindTopo(call.topology, c)})
    BY <1>1 DEF AllSound
  <1> QED
    BY <1>2, <1>3 DEF DeleteTopology

\* ixia_update_topology (topology.py:509-530).
LEMMA UpdateTopologySound ==
  ASSUME NEW c, Sound(c), NEW call \in Of("update topology")
  PROVE  AllSound(UpdateTopology(call, c))
  <1> DEFINE renamed(t) == IF call.new = NoName THEN c
                           ELSE TopologyNow(t, [t EXCEPT !.name = call.new], c)
             answers == IF PortMissing(call, c) THEN {"not found", "error"}
                        ELSE IF call.new = NoName /\ call.ports = NoName THEN {"nothing", "error"}
                        ELSE {"ok", "error"}
  <1>1. call.new \in TopologyName \cup {NoName}
    BY DEF Of, TopologyCall, GroupCall
  <1>2. ASSUME NEW t \in FindTopo(call.topology, c) PROVE AllSound(Unchanged(renamed(t), answers))
    <2>1. Sound(renamed(t))
      BY <1>1, FoundTopology, TopologyNowSound
    <2> QED
      BY <2>1, UnchangedSound
  <1> HIDE DEF renamed, answers
  <1>3. AllSound(Unchanged(c, {"not found", "error"})) /\ AllSound({Outcome(c, "error")})
    <2>1. AllSound({Outcome(c, "error")})
      BY OneOutcomeSound
    <2>2. AllSound(Unchanged(c, {"not found", "error"}))
      BY UnchangedSound
    <2> QED
      BY <2>1, <2>2
  <1>4. AllSound(UNION {Unchanged(renamed(t), answers) : t \in FindTopo(call.topology, c)})
    BY <1>2 DEF AllSound
  <1>5. AllSound({Outcome(c, "error")} \cup
                 UNION {Unchanged(renamed(t), answers) : t \in FindTopo(call.topology, c)})
    BY <1>3, <1>4 DEF AllSound
  <1>6. UpdateTopology(call, c) =
          IF FindTopo(call.topology, c) = {}
            THEN Unchanged(c, {"not found", "error"})
            ELSE {Outcome(c, "error")} \cup
                 UNION {Unchanged(renamed(t), answers) : t \in FindTopo(call.topology, c)}
    BY Zenon DEF UpdateTopology, renamed, answers
  <1> QED
    BY <1>3, <1>5, <1>6

\* ixia_start_protocols and ixia_stop_protocols (topology.py:323-333, 372-382).
LEMMA StartStopSound ==
  ASSUME NEW c, Sound(c), NEW call \in Of("start protocols") \cup Of("stop protocols")
  PROVE  AllSound(StartStop(call, c))
  <1> DEFINE b == call.tool = "start protocols"
             G == IF call.topology = NoName THEN c.groups
                  ELSE GroupsOf(Named(call.topology, c.topologies), c)
             before(g, h) == g.under < h.under \/ (g.under = h.under /\ g.at <= h.at)
             some == {Outcome(SetRunning({g \in G : before(g, h)}, b, c), "error") : h \in G}
  <1>1. b \in BOOLEAN
    OBVIOUS
  <1>2. G \subseteq c.groups
    BY DEF GroupsOf
  <1> HIDE DEF b, G
  <1>3. \A S : S \subseteq G => Sound(SetRunning(S, b, c))
    BY <1>1, <1>2, SetRunningSound
  <1>4. AllSound(Made(c, SetRunning(G, b, c)))
    BY <1>3, MadeSound
  <1>5. \A h : {g \in G : before(g, h)} \subseteq G
    OBVIOUS
  <1> HIDE DEF before
  <1>6. AllSound(some)
    <2>1. \A h \in G : Sound(SetRunning({g \in G : before(g, h)}, b, c))
      BY <1>3, <1>5
    <2>2. ASSUME NEW o \in some PROVE Sound(o.to)
      <3>1. PICK h \in G : o = Outcome(SetRunning({g \in G : before(g, h)}, b, c), "error")
        OBVIOUS
      <3>2. o.to = SetRunning({g \in G : before(g, h)}, b, c)
        BY <3>1 DEF Outcome
      <3> QED
        BY <2>1, <3>2
    <2> QED
      BY <2>2 DEF AllSound
  <1>7. AllSound(Unchanged(c, {"not found", "error"}))
    BY UnchangedSound
  <1> HIDE DEF some
  <1>8. AllSound(Made(c, SetRunning(G, b, c)) \cup some)
    BY <1>4, <1>6 DEF AllSound
  <1>9. StartStop(call, c) =
          IF call.topology # NoName /\ Named(call.topology, c.topologies) = {}
            THEN Unchanged(c, {"not found", "error"})
            ELSE Made(c, SetRunning(G, b, c)) \cup some
    BY Zenon DEF StartStop, some, G, b, before
  <1> QED
    BY <1>7, <1>8, <1>9

\* ixia_create_device_group (topology.py:571-574).
LEMMA CreateDeviceGroupSound ==
  ASSUME NEW c, Sound(c), NEW call \in Of("create group")
  PROVE  AllSound(CreateDeviceGroup(call, c))
  <1> DEFINE d(t) == [c EXCEPT !.groups = @ \cup
                        {[at |-> NextAt(c.groups), under |-> t.at, name |-> call.name,
                          running |-> FALSE, routed |-> FALSE]}]
  <1>1. call.name \in GroupName
    BY DEF Of, TopologyCall, GroupCall
  <1>2. ASSUME NEW t \in FindTopo(call.topology, c) PROVE AllSound(Made(c, d(t)))
    <2>1. Fits(d(t)) => Sound(d(t))
      BY <1>1, FoundTopology, AddedGroupSound
    <2> HIDE DEF d
    <2> QED
      BY <2>1, MadeSound
  <1>3. AllSound(Unchanged(c, {"not found", "error"}))
    BY UnchangedSound
  <1> HIDE DEF d
  <1>4. AllSound(UNION {Made(c, d(t)) : t \in FindTopo(call.topology, c)})
    BY <1>2 DEF AllSound
  <1>5. CreateDeviceGroup(call, c) =
          IF FindTopo(call.topology, c) = {}
            THEN Unchanged(c, {"not found", "error"})
            ELSE UNION {Made(c, d(t)) : t \in FindTopo(call.topology, c)}
    BY Zenon DEF CreateDeviceGroup, d
  <1> QED
    BY <1>3, <1>4, <1>5

\* ixia_delete_device_group (topology.py:613-619).
LEMMA DeleteDeviceGroupSound ==
  ASSUME NEW c, Sound(c), NEW call \in Of("delete group")
  PROVE  AllSound(DeleteDeviceGroup(call, c))
  <1> DEFINE found == FindDeviceGroup(call.topology, call.group, c)
             d(g) == [c EXCEPT !.groups = @ \ {g}]
  <1>1. ASSUME NEW g \in found PROVE AllSound(Made(c, d(g)))
    <2>1. Sound(d(g))
      BY FoundGroup, WithoutGroupSound
    <2> HIDE DEF d
    <2> QED
      BY <2>1, MadeSound
  <1>2. AllSound(Unchanged(c, {"not found", "error"}))
    BY UnchangedSound
  <1> HIDE DEF d, found
  <1>3. AllSound(UNION {Made(c, d(g)) : g \in found})
    BY <1>1 DEF AllSound
  <1>4. DeleteDeviceGroup(call, c) =
          IF found = {} THEN Unchanged(c, {"not found", "error"})
          ELSE UNION {Made(c, d(g)) : g \in found}
    BY Zenon DEF DeleteDeviceGroup, d, found
  <1> QED
    BY <1>2, <1>3, <1>4

\* ixia_update_device_group (topology.py:653-672).
LEMMA UpdateDeviceGroupSound ==
  ASSUME NEW c, Sound(c), NEW call \in Of("update group")
  PROVE  AllSound(UpdateDeviceGroup(call, c))
  <1> DEFINE found == FindDeviceGroup(call.topology, call.group, c)
             renamed(g) == IF call.new = NoName THEN c
                           ELSE GroupNow(g, [g EXCEPT !.name = call.new], c)
             answer == IF call.new = NoName /\ call.fields = 0 THEN "nothing" ELSE "ok"
  <1>1. call.new \in GroupName \cup {NoName}
    BY DEF Of, TopologyCall, GroupCall
  <1>2. ASSUME NEW g \in found PROVE AllSound(Unchanged(renamed(g), {"error", answer}))
    <2>1. g \in c.groups /\ g \in Group
      BY FoundGroup, SoundParts
    <2>2. CASE call.new \in GroupName
      <3> DEFINE r == [g EXCEPT !.name = call.new]
      <3>1. r \in Group /\ r.at = g.at /\ r.under = g.under
        BY <2>1, <2>2 DEF Group
      <3> HIDE DEF r
      <3>2. Sound(GroupNow(g, r, c))
        BY <2>1, <3>1, GroupNowSound
      <3> QED
        BY <3>2, UnchangedSound DEF r
    <2>3. CASE call.new = NoName
      BY <2>3, UnchangedSound
    <2> QED
      BY <1>1, <2>2, <2>3
  <1> HIDE DEF found, renamed, answer
  <1>3. AllSound(Unchanged(c, {"not found", "error"})) /\ AllSound({Outcome(c, "error")})
    <2>1. AllSound({Outcome(c, "error")})
      BY OneOutcomeSound
    <2>2. AllSound(Unchanged(c, {"not found", "error"}))
      BY UnchangedSound
    <2> QED
      BY <2>1, <2>2
  <1>4. AllSound(UNION {Unchanged(renamed(g), {"error", answer}) : g \in found})
    BY <1>2 DEF AllSound
  <1>5. AllSound({Outcome(c, "error")} \cup
                 UNION {Unchanged(renamed(g), {"error", answer}) : g \in found})
    BY <1>3, <1>4 DEF AllSound
  <1>6. UpdateDeviceGroup(call, c) =
          IF found = {} THEN Unchanged(c, {"not found", "error"})
          ELSE {Outcome(c, "error")} \cup
               UNION {Unchanged(renamed(g), {"error", answer}) : g \in found}
    BY Zenon DEF UpdateDeviceGroup, found, renamed, answer
  <1> QED
    BY <1>3, <1>5, <1>6

\* ixia_create_network_group (topology.py:712-728).
LEMMA CreateNetworkGroupSound ==
  ASSUME NEW c, Sound(c), NEW call \in Of("create network group")
  PROVE  AllSound(CreateNetworkGroup(call, c))
  <1> DEFINE found == FindDeviceGroup(call.topology, call.group, c)
             d(g) == GroupNow(g, [g EXCEPT !.routed = @ \/ call.pool], c)
  <1>1. ASSUME NEW g \in found PROVE AllSound(Made(c, d(g)))
    <2>1. g \in c.groups /\ g \in Group
      BY FoundGroup, SoundParts
    <2>2. (g.routed \/ call.pool) \in BOOLEAN
      OBVIOUS
    <2> DEFINE r == [g EXCEPT !.routed = @ \/ call.pool]
    <2>3. r \in Group /\ r.at = g.at /\ r.under = g.under
      BY <2>1, <2>2 DEF Group
    <2> HIDE DEF r
    <2>4. Sound(GroupNow(g, r, c))
      BY <2>1, <2>3, GroupNowSound
    <2> QED
      BY <2>4, MadeSound DEF r
  <1>2. AllSound(Unchanged(c, {"not found", "error"}))
    BY UnchangedSound
  <1> HIDE DEF d, found
  <1>3. AllSound(UNION {Made(c, d(g)) : g \in found})
    BY <1>1 DEF AllSound
  <1>4. CreateNetworkGroup(call, c) =
          IF found = {} THEN Unchanged(c, {"not found", "error"})
          ELSE UNION {Made(c, d(g)) : g \in found}
    BY Zenon DEF CreateNetworkGroup, d, found
  <1> QED
    BY <1>2, <1>3, <1>4

-----------------------------------------------------------------------------
(* Loading.                                                                 *)

\* The empty configuration is sound.
LEMMA NoConfigSound == Sound(NoConfig)
  BY DEF Sound, NoConfig, PortsOK, TopologiesOK, GroupsOK, Distinct

\* ixia_load_config leaves what the file holds, or nothing (config.py:79).
LEMMA LoadConfigSound ==
  ASSUME NEW c, Sound(c), NEW call \in LoadCall
  PROVE  AllSound(LoadConfig(call, c))
  <1> DEFINE upTo(n, max) == 1 .. (IF n < max THEN n ELSE max)
             port == [at : upTo(MaxLoaded, MaxPorts), name : PortName, assigned : BOOLEAN]
             topology == [at : upTo(MaxLoaded, MaxTopologies), name : TopologyName]
             group == [at : upTo(MaxLoaded, MaxGroups), under : upTo(MaxLoaded, MaxTopologies),
                       name : GroupName, running : {FALSE}, routed : BOOLEAN]
  <1> DEFINE f == call.file
  <1>1. f \in Loadable
    BY DEF LoadCall
  <1>2. /\ f \in [ports : SUBSET port, topologies : SUBSET topology, groups : SUBSET group]
        /\ Distinct(f.ports) /\ Distinct(f.topologies) /\ Distinct(f.groups)
        /\ \A g \in f.groups : \E t \in f.topologies : t.at = g.under
    BY <1>1, Zenon DEF Loadable, Distinct
  <1>3. \A n, max \in Nat : upTo(n, max) \subseteq 1 .. max
    OBVIOUS
  <1>4. /\ MaxLoaded \in Nat /\ MaxPorts \in Nat
        /\ MaxTopologies \in Nat /\ MaxGroups \in Nat
    BY ConfigAssumption, SessionAssumption
  <1>5. /\ upTo(MaxLoaded, MaxPorts) \subseteq 1 .. MaxPorts
        /\ upTo(MaxLoaded, MaxTopologies) \subseteq 1 .. MaxTopologies
        /\ upTo(MaxLoaded, MaxGroups) \subseteq 1 .. MaxGroups
    BY <1>3, <1>4
  <1> HIDE DEF upTo
  <1>6. port \subseteq Port /\ topology \subseteq Topology /\ group \subseteq Group
    BY <1>5 DEF Port, Topology, Group
  <1> HIDE DEF port, topology, group, f
  <1>7. /\ f \in [ports : SUBSET Port, topologies : SUBSET Topology, groups : SUBSET Group]
        /\ f.ports \subseteq Port /\ f.topologies \subseteq Topology /\ f.groups \subseteq Group
    BY <1>2, <1>6
  <1>8. Sound(f)
    BY <1>2, <1>7 DEF Sound, PortsOK, TopologiesOK, GroupsOK
  <1>9. AllSound(Made(c, f)) /\ AllSound({Outcome(NoConfig, "error")})
    BY <1>8, MadeSound, NoConfigSound DEF AllSound, Outcome
  <1> QED
    BY <1>9 DEF LoadConfig, AllSound, f

-----------------------------------------------------------------------------
(* The theorem.                                                             *)

IInv == Sound(config)

\* The invariant implies the types.
LEMMA SoundIsTyped == IInv => ConfigTypeOK
  <1> SUFFICES ASSUME Sound(config) PROVE ConfigTypeOK
    BY DEF IInv
  <1>1. /\ config = [ports |-> config.ports, topologies |-> config.topologies,
                     groups |-> config.groups]
        /\ config.ports \in SUBSET Port
        /\ config.topologies \in SUBSET Topology
        /\ config.groups \in SUBSET Group
    BY DEF Sound
  <1>2. \A S \in {config.ports, config.topologies, config.groups} :
          \A x, y \in S : x.at = y.at => x = y
    BY SoundParts DEF Distinct
  <1>3. \A g \in config.groups : \E t \in config.topologies : t.at = g.under
    BY SoundParts
  <1> QED
    BY <1>1, <1>2, <1>3 DEF ConfigTypeOK

\* A call ends in a sound configuration if all its outcomes are sound.
LEMMA EndsSound ==
  ASSUME NEW outcomes, AllSound(outcomes), Ends(outcomes)
  PROVE  Sound(config')
  BY DEF AllSound, Ends

\* The invariant is inductive.
LEMMA StepSound == IInv /\ [Next]_config => IInv'
  <1> SUFFICES ASSUME Sound(config), [Next]_config PROVE Sound(config')
    BY DEF IInv
  <1>1. CASE \E call \in AddCall : Ends(AddPorts(call, config))
    BY <1>1, AddPortsSound, EndsSound
  <1>2. CASE \E call \in NamesCall : Ends(ForNamedPorts(call, config))
    BY <1>2, NamedPortsSound, EndsSound
  <1>3. CASE \E call \in Of("create topology") : Ends(CreateTopology(call, config))
    BY <1>3, CreateTopologySound, EndsSound
  <1>4. CASE \E call \in Of("delete topology") : Ends(DeleteTopology(call, config))
    BY <1>4, DeleteTopologySound, EndsSound
  <1>5. CASE \E call \in Of("update topology") : Ends(UpdateTopology(call, config))
    BY <1>5, UpdateTopologySound, EndsSound
  <1>6. CASE \E call \in Of("start protocols") \cup Of("stop protocols") :
               Ends(StartStop(call, config))
    BY <1>6, StartStopSound, EndsSound
  <1>7. CASE \E call \in Of("create group") : Ends(CreateDeviceGroup(call, config))
    BY <1>7, CreateDeviceGroupSound, EndsSound
  <1>8. CASE \E call \in Of("delete group") : Ends(DeleteDeviceGroup(call, config))
    BY <1>8, DeleteDeviceGroupSound, EndsSound
  <1>9. CASE \E call \in Of("update group") : Ends(UpdateDeviceGroup(call, config))
    BY <1>9, UpdateDeviceGroupSound, EndsSound
  <1>10. CASE \E call \in Of("create network group") : Ends(CreateNetworkGroup(call, config))
    BY <1>10, CreateNetworkGroupSound, EndsSound
  <1>11. CASE \E call \in LoadCall : Ends(LoadConfig(call, config))
    BY <1>11, LoadConfigSound, EndsSound
  <1>12. CASE UNCHANGED config
    BY <1>12
  <1> QED
    BY <1>1, <1>2, <1>3, <1>4, <1>5, <1>6, <1>7, <1>8, <1>9, <1>10, <1>11, <1>12 DEF Next

\* Whatever calls are made and wherever they fail, numbers identify objects and no
\* device group is left without its topology (topology.py:473; config.py:79).
THEOREM ConfigTyped == Spec => []ConfigTypeOK
  <1>1. Init => IInv
    BY NoConfigSound DEF Init, IInv
  <1> QED
    BY <1>1, StepSound, SoundIsTyped, PTL DEF Spec

-----------------------------------------------------------------------------
(* Success by name.                                                         *)

\* The elements of a list of names.
LEMMA NameList ==
  ASSUME NEW call \in NamesCall
  PROVE  ToSet(call.names) = {call.names[j] : j \in 1 .. (Len(call.names) + 1) - 1}
  <1>1. PICK m \in 0 .. MaxPairs : call.names \in [1 .. m -> PortName]
    BY DEF NamesCall, Names
  <1>2. m \in Nat
    BY ConfigAssumption
  <1>3. Len(call.names) = m
    BY <1>1, <1>2
  <1>4. 1 .. (Len(call.names) + 1) - 1 = 1 .. m
    BY <1>2, <1>3
  <1>5. ToSet(call.names) = {call.names[j] : j \in 1 .. m}
    BY <1>1, <1>2, <1>3 DEF ToSet
  <1> QED
    BY <1>4, <1>5

\* The ports that are left, or still assigned, after S were dealt with.
LEMMA GonePorts ==
  ASSUME NEW c, Sound(c), NEW call \in NamesCall, NEW S, S \subseteq c.ports,
         NEW p \in Gone(call, S, c).ports, call.tool = "remove ports" \/ p.assigned
  PROVE  p \in c.ports \ S
  <1>1. Gone(call, S, c).ports =
          (c.ports \ S) \cup (IF call.tool = "release ports" THEN SetAssigned(S, FALSE) ELSE {})
    BY DEF Gone, WithPorts, Sound
  <1>2. CASE p \in SetAssigned(S, FALSE) /\ call.tool = "release ports"
    <2>1. PICK q \in S : p = [q EXCEPT !.assigned = FALSE]
      BY <1>2 DEF SetAssigned
    <2>2. q \in Port
      BY SoundParts
    <2>3. ~p.assigned
      BY <2>1, <2>2 DEF Port
    <2> QED
      BY <1>2, <2>3
  <1> QED
    BY <1>1, <1>2

\* Release and remove, answered with success (ports.py:253-259, 306-312).
LEMMA NamesOk ==
  ASSUME NEW c, Sound(c), NEW call \in NamesCall,
         NEW o \in ForNamedPorts(call, c), o.answer = "ok",
         NEW p \in o.to.ports, call.tool = "remove ports" \/ p.assigned
  PROVE  call.names # <<>> /\ p.name \notin ToSet(call.names)
  <1>a. ASSUME NEW d, NEW a, o = Outcome(d, a) PROVE o.to = d /\ a = "ok"
    BY <1>a DEF Outcome
  <1>b. "not found" # "ok" /\ "error" # "ok"
    OBVIOUS
  <1>1. CASE call.names = <<>>
    <2>1. \/ \E n \in 0 .. MaxPorts : o = Outcome(Gone(call, {q \in c.ports : q.at <= n}, c), "error")
          \/ o = Outcome(Gone(call, c.ports, c), IF c.ports = {} THEN "nothing" ELSE "ok")
      BY <1>1, Zenon DEF ForNamedPorts
    <2>2. o = Outcome(Gone(call, c.ports, c), IF c.ports = {} THEN "nothing" ELSE "ok")
      BY <1>a, <1>b, <2>1, Zenon
    <2>3. o.to = Gone(call, c.ports, c)
      BY <1>a, <2>2, Zenon
    <2>4. p \in c.ports \ c.ports
      BY <2>3, GonePorts
    <2> QED
      BY <2>4
  <1>2. CASE call.names # <<>>
    <2> DEFINE end == Len(call.names) + 1
               loop == {i \in 1 .. end - 1 : Reaches(call, i, c)}
               missed == {i \in 1 .. end - 1 : Reaches(call, i, c) /\ Misses(call, i, c)}
               over == {i \in {end} : Reaches(call, i, c)}
               half == loop \X (0 .. MaxPorts)
               partly(x) == DealtWith(call, x[1], c) \cup {q \in Found(call, x[1], c) : q.at <= x[2]}
    <2>1. ForNamedPorts(call, c) =
               {Outcome(Gone(call, DealtWith(call, i, c), c), "not found") : i \in missed}
          \cup {Outcome(Gone(call, partly(x), c), "error") : x \in half}
          \cup {Outcome(Gone(call, DealtWith(call, i, c), c), "ok") : i \in over}
      BY <1>2, Zenon DEF ForNamedPorts
    <2>2. \A i \in over : i = end
      OBVIOUS
    <2> HIDE DEF missed, half, over, loop, end, partly
    <2>3. \/ \E i \in missed : o = Outcome(Gone(call, DealtWith(call, i, c), c), "not found")
          \/ \E x \in half : o = Outcome(Gone(call, partly(x), c), "error")
          \/ \E i \in over : o = Outcome(Gone(call, DealtWith(call, i, c), c), "ok")
      BY <2>1, Zenon
    <2>4. o = Outcome(Gone(call, DealtWith(call, end, c), c), "ok")
      BY <1>a, <1>b, <2>2, <2>3, Zenon
    <2>5. DealtWith(call, end, c) \subseteq c.ports
      BY DEF DealtWith
    <2>6. p \in c.ports \ DealtWith(call, end, c)
      <3>1. o.to = Gone(call, DealtWith(call, end, c), c)
        BY <1>a, <2>4, Zenon
      <3> QED
        BY <2>5, <3>1, GonePorts
    <2>7. ~ \E j \in 1 .. end - 1 : call.names[j] = p.name
      BY <2>6 DEF DealtWith
    <2>8. ToSet(call.names) = {call.names[j] : j \in 1 .. end - 1}
      BY NameList DEF end
    <2> QED
      BY <1>2, <2>7, <2>8
  <1> QED
    BY <1>1, <1>2

\* Start and stop of protocols, answered with success (topology.py:327-329,
\* 376-378).
LEMMA StartStopOk ==
  ASSUME NEW c, Sound(c), NEW call \in Of("start protocols") \cup Of("stop protocols"),
         NEW o \in StartStop(call, c), o.answer = "ok",
         NEW t \in o.to.topologies, NEW g \in o.to.groups,
         g.under = t.at, call.topology \in {NoName, t.name}
  PROVE  g.running = (call.tool = "start protocols")
  <1> DEFINE b == call.tool = "start protocols"
             G == IF call.topology = NoName THEN c.groups
                  ELSE GroupsOf(Named(call.topology, c.topologies), c)
             before(x, h) == x.under < h.under \/ (x.under = h.under /\ x.at <= h.at)
             some == {Outcome(SetRunning({x \in G : before(x, h)}, b, c), "error") : h \in G}
             R == {[x EXCEPT !.running = b] : x \in G}
  <1>a. ASSUME NEW d, NEW a, o = Outcome(d, a) PROVE o.to = d /\ a = "ok"
    <2> HIDE DEF b, G, before, some, R
    <2> QED
      BY <1>a DEF Outcome
  <1>b. "not found" # "ok" /\ "error" # "ok"
    OBVIOUS
  <1>1. o \notin some
    <2> HIDE DEF b, G, before
    <2> QED
      BY <1>a, <1>b, Zenon DEF some
  <1>2. StartStop(call, c) =
          IF call.topology # NoName /\ Named(call.topology, c.topologies) = {}
            THEN Unchanged(c, {"not found", "error"})
            ELSE Made(c, SetRunning(G, b, c)) \cup some
    BY Zenon DEF StartStop
  <1> HIDE DEF some
  <1>3. o \notin Unchanged(c, {"not found", "error"})
    BY <1>a, <1>b DEF Unchanged
  <1>4. o \in Made(c, SetRunning(G, b, c)) => o.to = SetRunning(G, b, c)
    <2> HIDE DEF b, G, before
    <2> QED
      BY <1>a, <1>b DEF Made
  <1>5. o.to = SetRunning(G, b, c)
    BY <1>1, <1>2, <1>3, <1>4
  <1>6. SetRunning(G, b, c) = [c EXCEPT !.groups = (@ \ G) \cup R]
    BY DEF SetRunning
  <1>7. ASSUME NEW r \in R PROVE r.running = b
    <2>1. PICK x \in G : r = [x EXCEPT !.running = b]
      OBVIOUS
    <2>2. x \in Group
      BY SoundParts DEF GroupsOf
    <2> QED
      BY <2>1, <2>2 DEF Group
  <1>8. t \in c.topologies /\ g \in (c.groups \ G) \cup R
    <2> HIDE DEF G, R, b
    <2> QED
      BY <1>5, <1>6 DEF Sound
  <1>9. CASE g \in R
    BY <1>7, <1>9
  <1>10. CASE g \in c.groups \ G
    <2>1. call.topology # NoName /\ call.topology = t.name
      BY <1>10
    <2>2. t \in Named(call.topology, c.topologies)
      BY <1>8, <2>1 DEF Named
    <2>3. g \in GroupsOf(Named(call.topology, c.topologies), c)
      BY <1>10, <2>2 DEF GroupsOf
    <2> QED
      BY <1>10, <2>1, <2>3
  <1> QED
    BY <1>8, <1>9, <1>10

\* When a call by name succeeds, every object of the name is as it says, those that
\* failed or repeated calls left there too (ports.py:253-259, 306-312;
\* topology.py:327-329, 376-378).
THEOREM OkCoversAll == Spec => []OkMeansAll
  <1>1. IInv => OkMeansAll
    <2> SUFFICES ASSUME Sound(config) PROVE OkMeansAll
      BY DEF IInv
    <2>1. ASSUME NEW call \in NamesCall, NEW o \in ForNamedPorts(call, config), o.answer = "ok",
                 NEW p \in o.to.ports, call.tool = "remove ports" \/ p.assigned
          PROVE  call.names # <<>> /\ p.name \notin ToSet(call.names)
      BY <2>1, NamesOk
    <2>2. ASSUME NEW call \in Of("start protocols") \cup Of("stop protocols"),
                 NEW o \in StartStop(call, config), o.answer = "ok",
                 NEW t \in o.to.topologies, NEW g \in o.to.groups,
                 g.under = t.at, call.topology \in {NoName, t.name}
          PROVE  g.running = (call.tool = "start protocols")
      BY <2>2, StartStopOk
    <2> QED
      BY <2>1, <2>2 DEF OkMeansAll
  <1>2. Init => IInv
    BY NoConfigSound DEF Init, IInv
  <1> QED
    BY <1>1, <1>2, StepSound, PTL DEF Spec

=============================================================================
