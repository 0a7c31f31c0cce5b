-------------------------- MODULE SessionRetryProofs ---------------------------
(***************************************************************************)
(* Proofs about SessionTools, for any names, any bounds and any contents of *)
(* loaded files: repeating a call that failed half way does no harm and     *)
(* gets where the call should have got at once, and removing and adding     *)
(* ports again is a way out of a failed ixia_add_ports.                     *)
(***************************************************************************)
EXTENDS SessionToolsProofs

-----------------------------------------------------------------------------
(* Which tool a call is for.                                                *)

\* Release and remove.
LEMMA OutcomesOfNames ==
  ASSUME NEW call \in NamesCall, NEW c
  PROVE  Outcomes(call, c) = ForNamedPorts(call, c)
  <1>1. call.tool # "add ports"
    BY DEF NamesCall
  <1>2. call.tool \in {"release ports", "remove ports"}
    BY DEF NamesCall
  <1> QED
    BY <1>1, <1>2 DEF Outcomes

\* Load.
LEMMA OutcomesOfLoad ==
  ASSUME NEW call \in LoadCall, NEW c
  PROVE  Outcomes(call, c) = LoadConfig(call, c)
  <1>1. call.tool = "load config"
    BY DEF LoadCall
  <1>2. call \notin NamesCall
    BY <1>1 DEF NamesCall
  <1> QED
    BY <1>1, <1>2 DEF Outcomes

\* Those that change, start and stop topologies and device groups.
LEMMA OutcomesOfTool ==
  ASSUME NEW call, NEW c
  PROVE  /\ call.tool = "delete topology" => Outcomes(call, c) = DeleteTopology(call, c)
         /\ call.tool = "update topology" => Outcomes(call, c) = UpdateTopology(call, c)
         /\ call.tool \in {"start protocols", "stop protocols"}
              => Outcomes(call, c) = StartStop(call, c)
         /\ call.tool = "delete group" => Outcomes(call, c) = DeleteDeviceGroup(call, c)
         /\ call.tool = "update group" => Outcomes(call, c) = UpdateDeviceGroup(call, c)
  <1>1. call \in NamesCall => call.tool \in {"release ports", "remove ports"}
    BY DEF NamesCall
  <1> QED
    BY <1>1 DEF Outcomes

-----------------------------------------------------------------------------
(* Release and remove: what a call does to what an earlier one left.        *)

\* The ports dealt with when the loop stops at the i-th name, after those of its
\* ports that have numbers up to n.
Part(call, i, n, c) ==
  IF call.names = <<>> THEN {p \in c.ports : p.at <= n}
  ELSE DealtWith(call, i, c) \cup {p \in Found(call, i, c) : p.at <= n}

\* Where the loop may stop, and that it gets there.
Stops(call) == (IF call.names = <<>> THEN {1} ELSE 1 .. Len(call.names)) \X (0 .. MaxPorts)
GetsTo(call, i, c) == call.names = <<>> \/ Reaches(call, i, c)

\* The ports a call is about.
Wanted(call, c) ==
  IF call.names = <<>> THEN c.ports ELSE DealtWith(call, Len(call.names) + 1, c)

\* The number and the name of a port last as long as the port.
LEMMA PortsLeft ==
  ASSUME NEW c, Sound(c), NEW call \in NamesCall, NEW S, S \subseteq c.ports
  PROVE  /\ \A p \in Gone(call, S, c).ports : \E q \in c.ports :
              q.at = p.at /\ q.name = p.name /\ (q \in S => call.tool = "release ports")
         /\ \A q \in c.ports \ S : q \in Gone(call, S, c).ports
         /\ call.tool = "release ports" =>
              \A q \in c.ports : \E p \in Gone(call, S, c).ports : q.at = p.at /\ q.name = p.name
  <1> DEFINE f(q) == [q EXCEPT !.assigned = FALSE]
  <1>1. Gone(call, S, c).ports =
          (c.ports \ S) \cup (IF call.tool = "release ports" THEN {f(q) : q \in S} ELSE {})
    BY DEF Gone, WithPorts, Sound, SetAssigned
  <1>2. \A q \in c.ports : f(q).at = q.at /\ f(q).name = q.name
    BY SoundParts DEF Port
  <1> HIDE DEF f
  <1> QED
    BY <1>1, <1>2

\* L is P with the elements of S treated by f.
Treated(f, S, P, L) == \A x : x \in L <=> x \in P \ S \/ \E q \in S : x = f[q]

\* T are the elements of U, found again in L by their numbers.
FoundAgain(U, L, T) == T \subseteq L /\ \A x \in L : x \in T <=> \E u \in U : u.at = x.at

\* Numbers stay, and being treated twice is being treated once.
TreatsOnce(f, P) == \A q \in P : f[q].at = q.at /\ f[f[q]] = f[q]

\* Treating the elements of S and then those of U is treating both.
LEMMA TreatedTwice ==
  \A P, S, U, f, L, T, M, N :
    /\ S \subseteq P /\ U \subseteq P /\ Distinct(P) /\ TreatsOnce(f, P)
    /\ Treated(f, S, P, L) /\ FoundAgain(U, L, T) /\ Treated(f, T, L, M)
    /\ Treated(f, S \cup U, P, N)
    => M = N
  <1> SUFFICES ASSUME NEW P, NEW S, S \subseteq P, NEW U, U \subseteq P, Distinct(P),
                      NEW f, TreatsOnce(f, P),
                      NEW L, Treated(f, S, P, L), NEW T, FoundAgain(U, L, T),
                      NEW M, Treated(f, T, L, M), NEW N, Treated(f, S \cup U, P, N)
               PROVE  M = N
    OBVIOUS
  <1>1. /\ \A x : x \in L <=> x \in P \ S \/ \E q \in S : x = f[q]
        /\ \A p, q \in P : p.at = q.at => p = q
        /\ \A q \in P : f[q].at = q.at /\ f[f[q]] = f[q]
        /\ T \subseteq L /\ \A x \in L : x \in T <=> \E u \in U : u.at = x.at
    BY DEF Distinct, Treated, FoundAgain, TreatsOnce
  <1>2. ASSUME NEW s \in S PROVE f[s] \in T <=> s \in U
    <2>1. f[s] \in L /\ f[s].at = s.at
      BY <1>1
    <2>2. \A u \in U : u.at = s.at => u = s
      BY <1>1
    <2> QED
      BY <1>1, <2>1, <2>2
  <1>3. ASSUME NEW p \in P \ S PROVE p \in T <=> p \in U
    <2>1. p \in L
      BY <1>1
    <2>2. \A u \in U : u.at = p.at => u = p
      BY <1>1
    <2> QED
      BY <1>1, <2>1, <2>2
  <1>4. ASSUME NEW x PROVE (\E t \in T : x = f[t]) <=> \E s \in U : x = f[s]
    <2>1. ASSUME NEW t \in T PROVE \E s \in U : f[t] = f[s]
      <3>1. CASE t \in P \ S
        BY <1>3, <3>1
      <3>2. CASE \E s \in S : t = f[s]
        <4>1. PICK s \in S : t = f[s]
          BY <3>2
        <4>2. s \in U /\ f[f[s]] = f[s]
          BY <1>1, <1>2, <4>1
        <4> QED
          BY <4>1, <4>2
      <3> QED
        BY <1>1, <3>1, <3>2
    <2>2. ASSUME NEW s \in U PROVE \E t \in T : f[s] = f[t]
      <3>1. CASE s \in S
        <4>1. f[s] \in T /\ f[f[s]] = f[s]
          BY <1>1, <1>2, <3>1
        <4> QED
          BY <4>1
      <3>2. CASE s \notin S
        BY <1>3, <3>2
      <3> QED
        BY <3>1, <3>2
    <2> QED
      BY <2>1, <2>2
  <1>5. ASSUME NEW x
        PROVE  x \in L \ T <=> x \in P \ (S \cup U) \/ \E s \in S \ U : x = f[s]
    <2>1. ASSUME x \in L \ T PROVE x \in P \ (S \cup U) \/ \E s \in S \ U : x = f[s]
      BY <1>1, <1>2, <1>3, <2>1
    <2>2. ASSUME x \in P \ (S \cup U) PROVE x \in L \ T
      BY <1>1, <1>3, <2>2
    <2>3. ASSUME NEW s \in S \ U PROVE f[s] \in L \ T
      BY <1>1, <1>2
    <2> QED
      BY <2>1, <2>2, <2>3
  <1>6. ASSUME NEW x PROVE x \in M <=> x \in N
    <2>1. x \in M <=> x \in L \ T \/ \E q \in T : x = f[q]
      BY DEF Treated
    <2>2. x \in N <=> x \in P \ (S \cup U) \/ \E q \in S \cup U : x = f[q]
      BY DEF Treated
    <2> QED
      BY <1>4, <1>5, <2>1, <2>2
  <1> QED
    BY <1>6

\* Dealing with some ports and then with the ports of U is dealing with both.
LEMMA GoneTwice ==
  ASSUME NEW c, Sound(c), NEW call \in NamesCall,
         NEW S, S \subseteq c.ports, NEW d, d = Gone(call, S, c),
         NEW U, U \subseteq c.ports, NEW T, T \subseteq d.ports,
         \A p \in d.ports : p \in T <=> \E u \in U : u.at = p.at
  PROVE  Gone(call, T, d) = Gone(call, S \cup U, c)
  <1> DEFINE g(q) == [q EXCEPT !.assigned = FALSE]
             P == c.ports
             f == [q \in Port |-> g(q)]
             R(X) == IF call.tool = "release ports" THEN SetAssigned(X, FALSE) ELSE {}
             L == (P \ S) \cup R(S)
  <1>1. /\ d = WithPorts(L, c)
        /\ Gone(call, S \cup U, c) = WithPorts((P \ (S \cup U)) \cup R(S \cup U), c)
    BY DEF Gone
  <1>2. d.ports = L
    BY <1>1 DEF WithPorts, Sound
  <1>3. Gone(call, T, d) = WithPorts((L \ T) \cup R(T), d)
    BY <1>2 DEF Gone
  <1>4. \A X : WithPorts(X, d) = WithPorts(X, c)
    BY <1>1 DEF WithPorts, Sound
  <1>5. P \subseteq Port /\ Distinct(P) /\ S \subseteq P /\ U \subseteq P
    BY SoundParts
  <1>6. \A q \in Port : g(q) \in Port /\ g(q).at = q.at /\ g(g(q)) = g(q)
    <2> SUFFICES ASSUME NEW q \in Port PROVE g(q) \in Port /\ g(q).at = q.at /\ g(g(q)) = g(q)
      OBVIOUS
    <2>1. q = [at |-> q.at, name |-> q.name, assigned |-> q.assigned]
      BY DEF Port
    <2>2. PICK a, n, b : q = [at |-> a, name |-> n, assigned |-> b]
      BY <2>1, Zenon
    <2>3. PICK x : x = g(q)
      BY Zenon
    <2>4. PICK y : y = g(x)
      BY Zenon
    <2>5. x = [at |-> a, name |-> n, assigned |-> FALSE]
      BY <2>2, <2>3
    <2>6. y = [at |-> a, name |-> n, assigned |-> FALSE]
      BY <2>4, <2>5
    <2>7. x.at = q.at /\ y = x
      BY <2>2, <2>5, <2>6
    <2>8. x \in Port
      BY <2>3 DEF Port
    <2> HIDE DEF g
    <2> QED
      BY <2>3, <2>4, <2>7, <2>8
  <1>7. \A X : SetAssigned(X, FALSE) = {g(q) : q \in X}
    BY DEF SetAssigned
  <1> HIDE DEF g
  <1>8. (L \ T) \cup R(T) = (P \ (S \cup U)) \cup R(S \cup U)
    <2>1. CASE call.tool # "release ports"
      <3>1. \A X : R(X) = {}
        BY <2>1
      <3>2. L = P \ S
        BY <3>1
      <3> HIDE DEF R, L, P
      <3>3. T = U \ S
        BY <1>2, <1>5, <3>2 DEF Distinct
      <3>4. (L \ T) \cup R(T) = L \ T /\ R(S \cup U) = {}
        BY <3>1
      <3> QED
        BY <1>5, <3>2, <3>3, <3>4
    <2>2. CASE call.tool = "release ports"
      <3>1. ASSUME NEW X, X \subseteq Port
            PROVE  \A x : x \in R(X) <=> \E q \in X : x = f[q]
        <4>1. \A x : x \in R(X) <=> \E q \in X : x = g(q)
          BY <1>7, <2>2
        <4>2. \A q \in Port : f[q] = g(q)
          OBVIOUS
        <4> HIDE DEF R, f
        <4> QED
          BY <3>1, <4>1, <4>2
      <3>2. TreatsOnce(f, P)
        BY <1>5, <1>6 DEF TreatsOnce
      <3>3. Treated(f, S, P, L) /\ L \subseteq Port
        <4>1. \A x : x \in R(S) <=> \E q \in S : x = f[q]
          BY <1>5, <3>1
        <4>2. \A q \in S : f[q] \in Port
          BY <1>5, <1>6
        <4> HIDE DEF R, f
        <4> QED
          BY <1>5, <4>1, <4>2 DEF Treated
      <3> HIDE DEF R, L, P, f
      <3>4. T \subseteq Port /\ S \cup U \subseteq Port
        BY <1>2, <1>5, <3>3
      <3>5. Treated(f, T, L, (L \ T) \cup R(T))
        BY <3>1, <3>4 DEF Treated
      <3>6. Treated(f, S \cup U, P, (P \ (S \cup U)) \cup R(S \cup U))
        BY <3>1, <3>4 DEF Treated
      <3>7. FoundAgain(U, L, T)
        BY <1>2 DEF FoundAgain
      <3> QED
        BY <1>5, <3>2, <3>3, <3>5, <3>6, <3>7, TreatedTwice
    <2> QED
      BY <2>1, <2>2
  <1> HIDE DEF L, R, P
  <1> QED
    BY <1>1, <1>3, <1>4, <1>8

\* Ports are looked up by name and dealt with in the order of their numbers, and
\* neither changes.
LEMMA SamePorts ==
  ASSUME NEW c, Sound(c), NEW call \in NamesCall, NEW S, S \subseteq c.ports
  PROVE  /\ \A j, m : Gone(call, Part(call, j, m, Gone(call, S, c)), Gone(call, S, c))
                        = Gone(call, S \cup Part(call, j, m, c), c)
         /\ Gone(call, Wanted(call, Gone(call, S, c)), Gone(call, S, c))
              = Gone(call, S \cup Wanted(call, c), c)
  <1>0. PICK d : d = Gone(call, S, c)
    OBVIOUS
  <1>1. /\ \A p \in d.ports : \E q \in c.ports : q.at = p.at /\ q.name = p.name
        /\ \A p, q \in c.ports : p.at = q.at => p = q
    <2>1. \A p \in d.ports : \E q \in c.ports :
            q.at = p.at /\ q.name = p.name /\ (q \in S => call.tool = "release ports")
      BY <1>0, PortsLeft, Zenon
    <2>2. Distinct(c.ports)
      BY SoundParts
    <2> QED
      BY <2>1, <2>2 DEF Distinct
  <1>2. ASSUME NEW j, NEW m
        PROVE  Gone(call, Part(call, j, m, d), d) = Gone(call, S \cup Part(call, j, m, c), c)
    <2> DEFINE T == Part(call, j, m, d)
               U == Part(call, j, m, c)
    <2>1. /\ \A p \in c.ports : p \in U <=>
               \/ call.names = <<>> /\ p.at <= m
               \/ call.names # <<>> /\ \E k \in 1 .. j - 1 : call.names[k] = p.name
               \/ call.names # <<>> /\ call.names[j] = p.name /\ p.at <= m
          /\ U \subseteq c.ports
      BY DEF Part, DealtWith, Found, Named
    <2>2. /\ \A p \in d.ports : p \in T <=>
               \/ call.names = <<>> /\ p.at <= m
               \/ call.names # <<>> /\ \E k \in 1 .. j - 1 : call.names[k] = p.name
               \/ call.names # <<>> /\ call.names[j] = p.name /\ p.at <= m
          /\ T \subseteq d.ports
      BY DEF Part, DealtWith, Found, Named
    <2> HIDE DEF T, U
    <2>3. \A p \in d.ports : p \in T <=> \E u \in U : u.at = p.at
      <3> SUFFICES ASSUME NEW p \in d.ports PROVE p \in T <=> \E u \in U : u.at = p.at
        OBVIOUS
      <3>1. PICK q \in c.ports : q.at = p.at /\ q.name = p.name
        BY <1>1
      <3>2. p \in T <=> q \in U
        BY <2>1, <2>2, <3>1
      <3>3. \A u \in U : u.at = p.at => u = q
        BY <1>1, <2>1, <3>1
      <3> QED
        BY <3>1, <3>2, <3>3
    <2>4. U \subseteq c.ports /\ T \subseteq d.ports
      BY <2>1, <2>2
    <2>5. Gone(call, T, d) = Gone(call, S \cup U, c)
      <3>1. PICK V : V = U
        OBVIOUS
      <3>2. PICK W : W = T
        OBVIOUS
      <3>3. /\ V \subseteq c.ports /\ W \subseteq d.ports
            /\ \A p \in d.ports : p \in W <=> \E u \in V : u.at = p.at
        BY <2>3, <2>4, <3>1, <3>2
      <3>4. Gone(call, W, d) = Gone(call, S \cup V, c)
        BY <1>0, <3>3, GoneTwice, SMT
      <3> QED
        BY <3>1, <3>2, <3>4
    <2> QED
      BY <2>5 DEF T, U
  <1>3. Gone(call, Wanted(call, d), d) = Gone(call, S \cup Wanted(call, c), c)
    <2> DEFINE T == Wanted(call, d)
               U == Wanted(call, c)
               end == Len(call.names) + 1
    <2>1. /\ \A p \in c.ports : p \in U <=>
               call.names = <<>> \/ \E k \in 1 .. end - 1 : call.names[k] = p.name
          /\ U \subseteq c.ports
      BY DEF Wanted, DealtWith
    <2>2. /\ \A p \in d.ports : p \in T <=>
               call.names = <<>> \/ \E k \in 1 .. end - 1 : call.names[k] = p.name
          /\ T \subseteq d.ports
      BY DEF Wanted, DealtWith
    <2> HIDE DEF T, U, end
    <2>3. \A p \in d.ports : p \in T <=> \E u \in U : u.at = p.at
      <3> SUFFICES ASSUME NEW p \in d.ports PROVE p \in T <=> \E u \in U : u.at = p.at
        OBVIOUS
      <3>1. PICK q \in c.ports : q.at = p.at /\ q.name = p.name
        BY <1>1
      <3>2. p \in T <=> q \in U
        BY <2>1, <2>2, <3>1
      <3>3. \A u \in U : u.at = p.at => u = q
        BY <1>1, <2>1, <3>1
      <3> QED
        BY <3>1, <3>2, <3>3
    <2>4. U \subseteq c.ports /\ T \subseteq d.ports
      BY <2>1, <2>2
    <2>5. Gone(call, T, d) = Gone(call, S \cup U, c)
      <3>1. PICK V : V = U
        OBVIOUS
      <3>2. PICK W : W = T
        OBVIOUS
      <3>3. /\ V \subseteq c.ports /\ W \subseteq d.ports
            /\ \A p \in d.ports : p \in W <=> \E u \in V : u.at = p.at
        BY <2>3, <2>4, <3>1, <3>2
      <3>4. Gone(call, W, d) = Gone(call, S \cup V, c)
        BY <1>0, <3>3, GoneTwice, SMT
      <3> QED
        BY <3>1, <3>2, <3>4
    <2> QED
      BY <2>5 DEF T, U
  <1> QED
    BY <1>0, <1>2, <1>3

\* Whatever becomes of a call, the loop stopped at some place it gets to, and it may
\* stop at any of them (ports.py:251-266, 304-319).
LEMMA WhereItStops ==
  ASSUME NEW c, Sound(c), NEW call \in NamesCall
  PROVE  /\ \A o \in ForNamedPorts(call, c) : \E x \in Stops(call) :
              GetsTo(call, x[1], c) /\ o.to = Gone(call, Part(call, x[1], x[2], c), c)
         /\ \A x \in Stops(call) : GetsTo(call, x[1], c) =>
              \E o \in ForNamedPorts(call, c) : o.to = Gone(call, Part(call, x[1], x[2], c), c)
  <1>0. MaxPorts \in Nat /\ \A p \in c.ports : p.at \in 1 .. MaxPorts
    BY ConfigAssumption, SoundParts DEF Port
  <1>a. 0 \in 0 .. MaxPorts /\ MaxPorts \in 0 .. MaxPorts
    BY <1>0
  <1>b. \A d, a : Outcome(d, a).to = d
    BY DEF Outcome
  <1>1. CASE call.names = <<>>
    <2> DEFINE some == {Outcome(Gone(call, {p \in c.ports : p.at <= n}, c), "error") : n \in 0 .. MaxPorts}
               all == Outcome(Gone(call, c.ports, c), IF c.ports = {} THEN "nothing" ELSE "ok")
    <2>1. ForNamedPorts(call, c) = some \cup {all}
      BY <1>1, Zenon DEF ForNamedPorts
    <2>2. /\ Stops(call) = {1} \X (0 .. MaxPorts)
          /\ \A i : GetsTo(call, i, c)
          /\ \A i, n : Part(call, i, n, c) = {p \in c.ports : p.at <= n}
      BY <1>1 DEF Stops, GetsTo, Part
    <2>3. c.ports = {p \in c.ports : p.at <= MaxPorts}
      BY <1>0
    <2>4. ASSUME NEW o \in ForNamedPorts(call, c)
          PROVE  \E n \in 0 .. MaxPorts : o.to = Gone(call, {p \in c.ports : p.at <= n}, c)
      <3>1. CASE o = all
        <4>1. o.to = Gone(call, c.ports, c)
          BY <1>b, <3>1
        <4> QED
          BY <1>a, <2>3, <4>1
      <3>2. CASE o \in some
        BY <1>b, <3>2, Zenon
      <3> QED
        BY <2>1, <2>4, <3>1, <3>2
    <2>5. ASSUME NEW n \in 0 .. MaxPorts
          PROVE  \E o \in ForNamedPorts(call, c) : o.to = Gone(call, {p \in c.ports : p.at <= n}, c)
      <3>1. Outcome(Gone(call, {p \in c.ports : p.at <= n}, c), "error") \in some
        OBVIOUS
      <3> QED
        BY <1>b, <2>1, <3>1
    <2> HIDE DEF some, all
    <2>6. ASSUME NEW o \in ForNamedPorts(call, c)
          PROVE  \E x \in Stops(call) : GetsTo(call, x[1], c) /\ o.to = Gone(call, Part(call, x[1], x[2], c), c)
      <3>1. PICK n \in 0 .. MaxPorts : o.to = Gone(call, {p \in c.ports : p.at <= n}, c)
        BY <2>4
      <3>2. <<1, n>> \in Stops(call) /\ <<1, n>>[1] = 1 /\ <<1, n>>[2] = n
        BY <2>2
      <3> QED
        BY <2>2, <3>1, <3>2
    <2>7. \A x \in Stops(call) : x[2] \in 0 .. MaxPorts
      BY <2>2
    <2> QED
      BY <2>2, <2>5, <2>6, <2>7
  <1>2. CASE call.names # <<>>
    <2> DEFINE end == Len(call.names) + 1
               loop == {i \in 1 .. end - 1 : Reaches(call, i, c)}
               missed == {i \in 1 .. end - 1 : Reaches(call, i, c) /\ Misses(call, i, c)}
               over == {i \in {end} : Reaches(call, i, c)}
               half == loop \X (0 .. MaxPorts)
               partly(x) == DealtWith(call, x[1], c) \cup {q \in Found(call, x[1], c) : q.at <= x[2]}
    <2>1. ForNamedPorts(call, c) =
               {Outcome(Gone(call, DealtWith(call, i, c), c), "not found") : i \in missed}
          \cup {Outcome(Gone(call, partly(x), c), "error") : x \in half}
          \cup {Outcome(Gone(call, DealtWith(call, i, c), c), "ok") : i \in over}
      BY <1>2, Zenon DEF ForNamedPorts
    <2>2. PICK len \in Nat : end = len + 1 /\ len >= 1 /\ Len(call.names) = len
      <3>1. PICK m \in 0 .. MaxPairs : call.names \in [1 .. m -> PortName]
        BY DEF NamesCall, Names
      <3>2. m \in Nat
        BY ConfigAssumption
      <3>3. Len(call.names) = m
        BY <3>1, <3>2
      <3>4. m # 0
        BY <1>2, <3>1
      <3> QED
        BY <3>2, <3>3, <3>4
    <2>3. Stops(call) = (1 .. len) \X (0 .. MaxPorts) /\ 1 .. end - 1 = 1 .. len
      BY <1>2, <2>2 DEF Stops
    <2>4. \A i : GetsTo(call, i, c) <=> Reaches(call, i, c)
      BY <1>2 DEF GetsTo
    <2>5. \A x : Part(call, x[1], x[2], c) = partly(x)
      BY <1>2 DEF Part
    <2>6. \A x : x \in half <=> x \in Stops(call) /\ GetsTo(call, x[1], c)
      BY <2>3, <2>4
    <2>7. ASSUME NEW i \in 1 .. len, Reaches(call, i, c)
          PROVE  \E x \in half : DealtWith(call, i, c) = partly(x)
      <3>1. <<i, 0>> \in half
        BY <1>a, <2>3, <2>7
      <3>2. {q \in Found(call, i, c) : q.at <= 0} = {}
        BY <1>0 DEF Found, Named
      <3>3. partly(<<i, 0>>) = DealtWith(call, i, c)
        BY <3>2
      <3> QED
        BY <3>1, <3>3
    <2>8. ASSUME Reaches(call, end, c)
          PROVE  \E x \in half : DealtWith(call, end, c) = partly(x)
      <3>1. Reaches(call, len, c)
        BY <2>2, <2>8 DEF Reaches
      <3>2. <<len, MaxPorts>> \in half
        BY <1>a, <2>2, <2>3, <3>1
      <3>3. {q \in Found(call, len, c) : q.at <= MaxPorts} = Found(call, len, c)
        BY <1>0 DEF Found, Named
      <3>4. DealtWith(call, end, c) = DealtWith(call, len, c) \cup Found(call, len, c)
        <4>1. 1 .. end - 1 = (1 .. len - 1) \cup {len}
          BY <2>2
        <4> QED
          BY <4>1 DEF DealtWith, Found, Named
      <3>5. partly(<<len, MaxPorts>>) = DealtWith(call, end, c)
        BY <3>3, <3>4
      <3> QED
        BY <3>2, <3>5
    <2>9. /\ \A i \in missed : i \in 1 .. len /\ Reaches(call, i, c)
          /\ \A i \in over : i = end /\ Reaches(call, end, c)
      BY <2>3
    <2> HIDE DEF missed, half, over, loop, end, partly
    <2>10. ASSUME NEW o \in ForNamedPorts(call, c)
           PROVE  \E x \in half : o.to = Gone(call, partly(x), c)
      <3>1. CASE \E i \in missed : o = Outcome(Gone(call, DealtWith(call, i, c), c), "not found")
        <4>1. PICK i \in missed : o = Outcome(Gone(call, DealtWith(call, i, c), c), "not found")
          BY <3>1
        <4>2. o.to = Gone(call, DealtWith(call, i, c), c)
          BY <1>b, <4>1, Zenon
        <4>3. PICK x \in half : DealtWith(call, i, c) = partly(x)
          BY <2>7, <2>9, Zenon
        <4> QED
          BY <4>2, <4>3, Zenon
      <3>2. CASE \E x \in half : o = Outcome(Gone(call, partly(x), c), "error")
        BY <1>b, <3>2, Zenon
      <3>3. CASE \E i \in over : o = Outcome(Gone(call, DealtWith(call, i, c), c), "ok")
        <4>1. o = Outcome(Gone(call, DealtWith(call, end, c), c), "ok") /\ Reaches(call, end, c)
          BY <2>9, <3>3, Zenon
        <4>2. o.to = Gone(call, DealtWith(call, end, c), c)
          BY <1>b, <4>1, Zenon
        <4> QED
          BY <2>8, <4>1, <4>2
      <3> QED
        BY <2>1, <2>10, <3>1, <3>2, <3>3, Zenon
    <2>11. ASSUME NEW x \in half
           PROVE  \E o \in ForNamedPorts(call, c) : o.to = Gone(call, partly(x), c)
      <3>1. Outcome(Gone(call, partly(x), c), "error") \in ForNamedPorts(call, c)
        BY <2>1, Zenon
      <3> QED
        BY <1>b, <3>1
    <2> QED
      BY <2>5, <2>6, <2>10, <2>11
  <1> QED
    BY <1>1, <1>2

-----------------------------------------------------------------------------
(* Release and remove: getting there by repeating.                          *)

\* Every name of the list finds a port.
AllThere(call, c) == call.names = <<>> \/ Reaches(call, Len(call.names) + 1, c)

\* Success is that all ports the call is about were dealt with.
LEMMA NamedSucceeds ==
  ASSUME NEW c, Sound(c), NEW call \in NamesCall
  PROVE  Succeeds(call, c) =
           IF AllThere(call, c) THEN {Gone(call, Wanted(call, c), c)} ELSE {}
  <1>a. \A d, a : Outcome(d, a).to = d /\ Outcome(d, a).answer = a
    BY DEF Outcome
  <1>b. Succeeds(call, c) =
          {o.to : o \in {o \in ForNamedPorts(call, c) : o.answer \in {"ok", "nothing"}}}
    BY OutcomesOfNames DEF Succeeds
  <1>c. "error" \notin {"ok", "nothing"} /\ "not found" \notin {"ok", "nothing"} /\ "ok" \in {"ok", "nothing"}
    OBVIOUS
  <1>1. CASE call.names = <<>>
    <2> DEFINE some == {Outcome(Gone(call, {p \in c.ports : p.at <= n}, c), "error") : n \in 0 .. MaxPorts}
               answer == IF c.ports = {} THEN "nothing" ELSE "ok"
               all == Outcome(Gone(call, c.ports, c), answer)
    <2>1. ForNamedPorts(call, c) = some \cup {all}
      BY <1>1, Zenon DEF ForNamedPorts
    <2>2. \A o \in some : o.answer = "error"
      BY <1>a, Zenon
    <2>3. all.to = Gone(call, c.ports, c) /\ all.answer = answer
      BY <1>a, Zenon
    <2>4. answer \in {"ok", "nothing"}
      OBVIOUS
    <2>5. AllThere(call, c) /\ Wanted(call, c) = c.ports
      BY <1>1 DEF AllThere, Wanted
    <2> HIDE DEF some, all, answer
    <2>6. {o \in ForNamedPorts(call, c) : o.answer \in {"ok", "nothing"}} = {all}
      BY <1>c, <2>1, <2>2, <2>3, <2>4
    <2>7. Succeeds(call, c) = {all.to}
      BY <1>b, <2>6
    <2> QED
      BY <2>3, <2>5, <2>7
  <1>2. CASE call.names # <<>>
    <2> DEFINE end == Len(call.names) + 1
               loop == {i \in 1 .. end - 1 : Reaches(call, i, c)}
               missed == {i \in 1 .. end - 1 : Reaches(call, i, c) /\ Misses(call, i, c)}
               over == {i \in {end} : Reaches(call, i, c)}
               half == loop \X (0 .. MaxPorts)
               partly(x) == DealtWith(call, x[1], c) \cup {q \in Found(call, x[1], c) : q.at <= x[2]}
               stops == {Outcome(Gone(call, DealtWith(call, i, c), c), "not found") : i \in missed}
                   \cup {Outcome(Gone(call, partly(x), c), "error") : x \in half}
               all == Outcome(Gone(call, DealtWith(call, end, c), c), "ok")
    <2>1. ForNamedPorts(call, c) =
            stops \cup {Outcome(Gone(call, DealtWith(call, i, c), c), "ok") : i \in over}
      BY <1>2, Zenon DEF ForNamedPorts
    <2>2. over = IF Reaches(call, end, c) THEN {end} ELSE {}
      OBVIOUS
    <2>3. \A o \in stops : o.answer \in {"error", "not found"}
      <3> HIDE DEF missed, half, partly
      <3>1. ASSUME NEW o \in stops PROVE o.answer = "not found" \/ o.answer = "error"
        <4>1. CASE o \in {Outcome(Gone(call, DealtWith(call, i, c), c), "not found") : i \in missed}
          <5>1. PICK i \in missed : o = Outcome(Gone(call, DealtWith(call, i, c), c), "not found")
            BY <4>1, Zenon
          <5> HIDE DEF stops
          <5> QED
            BY <5>1 DEF Outcome
        <4>2. CASE o \in {Outcome(Gone(call, partly(x), c), "error") : x \in half}
          <5>1. PICK x \in half : o = Outcome(Gone(call, partly(x), c), "error")
            BY <4>2, Zenon
          <5> HIDE DEF stops
          <5> QED
            BY <5>1 DEF Outcome
        <4> QED
          BY <3>1, <4>1, <4>2
      <3> HIDE DEF stops
      <3> QED
        BY <3>1
    <2>4. all.to = Gone(call, Wanted(call, c), c) /\ all.answer = "ok"
      BY <1>a, <1>2 DEF Wanted
    <2>5. AllThere(call, c) <=> Reaches(call, end, c)
      BY <1>2 DEF AllThere
    <2> HIDE DEF stops, over, end
    <2>6. ForNamedPorts(call, c) = IF AllThere(call, c) THEN stops \cup {all} ELSE stops
      BY <2>1, <2>2, <2>5
    <2> HIDE DEF all
    <2>7. {o \in ForNamedPorts(call, c) : o.answer \in {"ok", "nothing"}}
             = IF AllThere(call, c) THEN {all} ELSE {}
      BY <1>c, <2>3, <2>4, <2>6
    <2>8. Succeeds(call, c) = IF AllThere(call, c) THEN {all.to} ELSE {}
      BY <1>b, <2>7
    <2> QED
      BY <2>4, <2>8
  <1> QED
    BY <1>1, <1>2

\* What a call deals with is what it is about.
LEMMA PartWanted ==
  ASSUME NEW c, Sound(c), NEW call \in NamesCall, NEW x \in Stops(call)
  PROVE  Part(call, x[1], x[2], c) \subseteq Wanted(call, c) /\ Wanted(call, c) \subseteq c.ports
  <1>1. CASE call.names = <<>>
    BY <1>1 DEF Part, Wanted
  <1>2. CASE call.names # <<>>
    <2>1. PICK len \in Nat : Len(call.names) = len
      <3>1. PICK m \in 0 .. MaxPairs : call.names \in [1 .. m -> PortName]
        BY DEF NamesCall, Names
      <3>2. m \in Nat
        BY ConfigAssumption
      <3> QED
        BY <3>1, <3>2
    <2>2. PICK i \in 1 .. len : x[1] = i
      BY <1>2, <2>1 DEF Stops
    <2>3. \A k \in 1 .. i - 1 : k \in 1 .. (len + 1) - 1
      BY <2>1
    <2>4. i \in 1 .. (len + 1) - 1
      BY <2>1
    <2> QED
      BY <1>2, <2>1, <2>2, <2>3, <2>4 DEF Part, Wanted, DealtWith, Found, Named
  <1> QED
    BY <1>1, <1>2

\* ixia_release_ports, and ixia_remove_ports of all ports, after an attempt that
\* failed anywhere (ports.py:251-266, 304-319).
LEMMA NamesConverge ==
  ASSUME NEW c, Sound(c), NEW call \in NamesCall,
         call.tool = "remove ports" => call.names = <<>>,
         NEW o \in ForNamedPorts(call, c)
  PROVE  Succeeds(call, o.to) = Succeeds(call, c)
  <1>1. PICK S : S \subseteq Wanted(call, c) /\ S \subseteq c.ports /\ o.to = Gone(call, S, c)
    <2>1. PICK x \in Stops(call) : o.to = Gone(call, Part(call, x[1], x[2], c), c)
      BY WhereItStops
    <2> QED
      BY <2>1, PartWanted
  <1>2. Sound(o.to)
    BY <1>1, GoneSound
  <1>3. Gone(call, Wanted(call, o.to), o.to) = Gone(call, Wanted(call, c), c)
    <2>1. Gone(call, Wanted(call, Gone(call, S, c)), Gone(call, S, c))
            = Gone(call, S \cup Wanted(call, c), c)
      BY <1>1, SamePorts, Zenon
    <2>2. S \cup Wanted(call, c) = Wanted(call, c)
      BY <1>1
    <2> QED
      BY <1>1, <2>1, <2>2, Zenon
  <1>4. AllThere(call, o.to) <=> AllThere(call, c)
    <2>1. CASE call.names = <<>>
      BY <2>1 DEF AllThere
    <2>2. CASE call.tool # "remove ports"
      <3>1. call.tool = "release ports"
        BY <2>2 DEF NamesCall
      <3>2. /\ \A p \in Gone(call, S, c).ports : \E q \in c.ports : q.at = p.at /\ q.name = p.name
            /\ \A q \in c.ports : \E p \in Gone(call, S, c).ports : q.at = p.at /\ q.name = p.name
        <4>1. \A p \in Gone(call, S, c).ports : \E q \in c.ports :
                q.at = p.at /\ q.name = p.name /\ (q \in S => call.tool = "release ports")
          BY <1>1, PortsLeft, Zenon
        <4>2. \A q \in c.ports : \E p \in Gone(call, S, c).ports : q.at = p.at /\ q.name = p.name
          BY <1>1, <3>1, PortsLeft, Zenon
        <4> QED
          BY <4>1, <4>2, Zenon
      <3>3. \A n : Named(n, o.to.ports) = {} <=> Named(n, c.ports) = {}
        <4>1. o.to.ports = Gone(call, S, c).ports
          BY <1>1, Zenon
        <4>2. PICK P, Q : P = Gone(call, S, c).ports /\ Q = c.ports
          BY Zenon
        <4>3. /\ \A p \in P : \E q \in Q : q.name = p.name
              /\ \A q \in Q : \E p \in P : q.name = p.name
          BY <3>2, <4>2, Zenon
        <4>4. ASSUME NEW n PROVE {p \in P : p.name = n} = {} <=> {q \in Q : q.name = n} = {}
          <5>1. (\E p \in P : p.name = n) <=> \E q \in Q : q.name = n
            BY <4>3
          <5> QED
            BY <5>1
        <4> QED
          BY <4>1, <4>2, <4>4 DEF Named
      <3> QED
        BY <3>1, <3>3 DEF AllThere, Reaches, Misses
    <2> QED
      BY <2>1, <2>2
  <1> QED
    BY <1>2, <1>3, <1>4, NamedSucceeds

\* Of two places where the loop may stop one is further on, and covers the other.
LEMMA PartsNested ==
  ASSUME NEW c, Sound(c), NEW call \in NamesCall, NEW x \in Stops(call), NEW y \in Stops(call)
  PROVE  \E z \in {x, y} : Part(call, x[1], x[2], c) \cup Part(call, y[1], y[2], c)
                             = Part(call, z[1], z[2], c)
  <1>0. MaxPorts \in Nat /\ \A p \in c.ports : p.at \in Int
    BY ConfigAssumption, SoundParts DEF Port
  <1>1. CASE call.names = <<>>
    <2>1. x[2] \in Int /\ y[2] \in Int
      BY <1>0, <1>1 DEF Stops
    <2>2. \A i, n : Part(call, i, n, c) = {p \in c.ports : p.at <= n}
      BY <1>1 DEF Part
    <2>3. CASE x[2] <= y[2]
      <3>1. Part(call, x[1], x[2], c) \subseteq Part(call, y[1], y[2], c)
        BY <1>0, <2>1, <2>2, <2>3
      <3> QED
        BY <3>1
    <2>4. CASE y[2] <= x[2]
      <3>1. Part(call, y[1], y[2], c) \subseteq Part(call, x[1], x[2], c)
        BY <1>0, <2>1, <2>2, <2>4
      <3> QED
        BY <3>1
    <2> QED
      BY <2>1, <2>3, <2>4
  <1>2. CASE call.names # <<>>
    <2>0. PICK len \in Nat : Len(call.names) = len
      <3>1. PICK m \in 0 .. MaxPairs : call.names \in [1 .. m -> PortName]
        BY DEF NamesCall, Names
      <3>2. m \in Nat
        BY ConfigAssumption
      <3> QED
        BY <3>1, <3>2
    <2>1. x[1] \in 1 .. len /\ y[1] \in 1 .. len /\ x[2] \in Int /\ y[2] \in Int
      BY <1>0, <1>2, <2>0 DEF Stops
    <2>2. ASSUME NEW i \in 1 .. len, NEW j \in 1 .. len, NEW m \in Int, NEW n \in Int,
                 i < j \/ (i = j /\ m <= n)
          PROVE  Part(call, i, m, c) \subseteq Part(call, j, n, c)
      <3>1. CASE i < j
        <4>1. i \in 1 .. j - 1 /\ \A k \in 1 .. i - 1 : k \in 1 .. j - 1
          BY <3>1
        <4> QED
          BY <1>2, <4>1 DEF Part, DealtWith, Found, Named
      <3>2. CASE i = j /\ m <= n
        <4>1. \A p \in c.ports : p.at <= m => p.at <= n
          BY <1>0, <3>2
        <4> QED
          BY <1>2, <3>2, <4>1 DEF Part, Found, Named
      <3> QED
        BY <2>2, <3>1, <3>2
    <2>3. \/ x[1] < y[1] \/ (x[1] = y[1] /\ x[2] <= y[2])
          \/ y[1] < x[1] \/ (y[1] = x[1] /\ y[2] <= x[2])
      <3>1. PICK i, j, m, n : i = x[1] /\ j = y[1] /\ m = x[2] /\ n = y[2]
        BY Zenon
      <3>2. i \in 1 .. len /\ j \in 1 .. len /\ m \in Int /\ n \in Int
        BY <2>1, <3>1
      <3>3. i < j \/ (i = j /\ m <= n) \/ j < i \/ (j = i /\ n <= m)
        BY <3>2
      <3> QED
        BY <3>1, <3>3, Zenon
    <2>4. \/ Part(call, x[1], x[2], c) \subseteq Part(call, y[1], y[2], c)
          \/ Part(call, y[1], y[2], c) \subseteq Part(call, x[1], x[2], c)
      BY <2>1, <2>2, <2>3
    <2> QED
      BY <2>4
  <1> QED
    BY <1>1, <1>2

\* ixia_release_ports and ixia_remove_ports after an attempt that failed anywhere: they
\* stop nowhere that the first attempt could not have stopped (ports.py:251-266,
\* 304-319).
LEMMA NamesAddNothing ==
  ASSUME NEW c, Sound(c), NEW call \in NamesCall,
         NEW o \in ForNamedPorts(call, c), NEW p \in ForNamedPorts(call, o.to)
  PROVE  \E q \in ForNamedPorts(call, c) : q.to = p.to
  <1>1. PICK x \in Stops(call) : GetsTo(call, x[1], c) /\ o.to = Gone(call, Part(call, x[1], x[2], c), c)
    BY WhereItStops
  <1>2. PICK S : S = Part(call, x[1], x[2], c)
    OBVIOUS
  <1>3. PICK d : d = o.to
    OBVIOUS
  <1>4. S \subseteq c.ports /\ d = Gone(call, S, c)
    BY <1>1, <1>2, <1>3, PartWanted
  <1>5. Sound(d)
    BY <1>4, GoneSound
  <1>6. PICK y \in Stops(call) : GetsTo(call, y[1], d) /\ p.to = Gone(call, Part(call, y[1], y[2], d), d)
    BY <1>3, <1>5, WhereItStops
  <1>7. p.to = Gone(call, S \cup Part(call, y[1], y[2], c), c)
    <2>1. \A j, m : Gone(call, Part(call, j, m, Gone(call, S, c)), Gone(call, S, c))
                      = Gone(call, S \cup Part(call, j, m, c), c)
      BY <1>4, SamePorts, Zenon
    <2> QED
      BY <1>4, <1>6, <2>1, Zenon
  <1>8. GetsTo(call, y[1], c)
    <2>1. \A q \in Gone(call, S, c).ports : \E r \in c.ports :
            r.at = q.at /\ r.name = q.name /\ (r \in S => call.tool = "release ports")
      BY <1>4, PortsLeft, Zenon
    <2>2. PICK P, Q : P = d.ports /\ Q = c.ports
      OBVIOUS
    <2>3. \A q \in P : \E r \in Q : r.name = q.name
      BY <1>4, <2>1, <2>2
    <2>4. ASSUME NEW n, {r \in Q : r.name = n} = {} PROVE {q \in P : q.name = n} = {}
      <3>1. \A r \in Q : r.name # n
        BY <2>4
      <3> QED
        BY <2>3, <3>1
    <2>5. \A j : Misses(call, j, c) => Misses(call, j, d)
      BY <2>2, <2>4 DEF Misses, Named
    <2> QED
      BY <1>6, <2>5 DEF GetsTo, Reaches
  <1>9. PICK z \in {x, y} : S \cup Part(call, y[1], y[2], c) = Part(call, z[1], z[2], c)
    BY <1>2, PartsNested
  <1>10. z \in Stops(call) /\ GetsTo(call, z[1], c)
    BY <1>1, <1>6, <1>8, <1>9
  <1>11. p.to = Gone(call, Part(call, z[1], z[2], c), c)
    BY <1>7, <1>9
  <1> QED
    BY <1>10, <1>11, WhereItStops

-----------------------------------------------------------------------------
(* Removing and adding again.                                               *)

\* ixia_add_ports, answered with success: the ports that are new have hardware
\* (ports.py:187-204).
LEMMA AddedAssigned ==
  ASSUME NEW c, Sound(c), NEW call \in AddCall, NEW o \in AddPorts(call, c), o.answer = "ok",
         NEW p \in o.to.ports
  PROVE  p \in c.ports \/ p.assigned
  <1> DEFINE names == NewNames(call)
             new == NewPorts(names, call.pairs, c)
             bare == {Outcome(WithPorts(c.ports \cup NewPorts(names, n, c), c), "error")
                        : n \in 0 .. call.pairs}
             some == {Outcome(WithPorts(c.ports \cup SetAssigned(S, TRUE) \cup (new \ S), c), "error")
                        : S \in SUBSET new}
             all == c.ports \cup SetAssigned(new, TRUE)
  <1>1. AddPorts(call, c) = IF Len(names) # call.pairs THEN {Outcome(c, "error")}
                            ELSE bare \cup some \cup {Outcome(WithPorts(all, c), "ok")}
    BY Zenon DEF AddPorts
  <1>2. ASSUME NEW d, o = Outcome(d, "error") PROVE FALSE
    BY <1>2 DEF Outcome
  <1>3. o \notin bare /\ o \notin some /\ o # Outcome(c, "error")
    <2> HIDE DEF new
    <2> QED
      BY <1>2, Zenon
  <1> HIDE DEF bare, some, all, names
  <1>4. o = Outcome(WithPorts(all, c), "ok")
    BY <1>1, <1>3
  <1>5. o.to.ports = all
    BY <1>4 DEF Outcome, WithPorts, Sound
  <1>6. CASE p \in SetAssigned(new, TRUE)
    <2>1. PICK q \in new : p = [q EXCEPT !.assigned = TRUE]
      BY <1>6 DEF SetAssigned
    <2>2. PICK i : q = [at |-> NextAt(c.ports) + i - 1, name |-> names[i], assigned |-> FALSE]
      BY <2>1 DEF NewPorts
    <2> QED
      BY <2>1, <2>2
  <1> QED
    BY <1>5, <1>6 DEF all

\* ixia_remove_ports, all ports or those of some names, leaves none of them.
LEMMA RemovedGone ==
  ASSUME NEW c, Sound(c), NEW call \in NamesCall, call.tool = "remove ports",
         NEW d \in Succeeds(call, c)
  PROVE  /\ Sound(d)
         /\ \A p \in d.ports : call.names # <<>> /\ p.name \notin ToSet(call.names)
  <1>1. d = Gone(call, Wanted(call, c), c)
    <2>1. Succeeds(call, c) = IF AllThere(call, c) THEN {Gone(call, Wanted(call, c), c)} ELSE {}
      BY NamedSucceeds
    <2> QED
      BY <2>1, Zenon
  <1>2. Wanted(call, c) \subseteq c.ports
    BY DEF Wanted, DealtWith
  <1>3. Sound(d)
    BY <1>1, <1>2, GoneSound
  <1>4. ASSUME NEW p \in d.ports PROVE call.names # <<>> /\ p.name \notin ToSet(call.names)
    <2>1. p \in c.ports /\ p \notin Wanted(call, c)
      BY <1>1, <1>2, <1>4, GonePorts
    <2>2. call.names # <<>>
      BY <2>1 DEF Wanted
    <2>3. ~ \E j \in 1 .. (Len(call.names) + 1) - 1 : call.names[j] = p.name
      BY <2>1, <2>2 DEF Wanted, DealtWith
    <2> QED
      BY <2>2, <2>3, NameList
  <1> QED
    BY <1>3, <1>4

\* A failed ixia_add_ports, ixia_remove_ports and the same ixia_add_ports: every
\* name leads to a port with hardware.
LEMMA RemovedAndAdded ==
  ASSUME NEW c, Sound(c), NEW add \in AddCall,
         NEW failed \in AddPorts(add, c), Fits(failed.to),
         NEW removal \in NamesCall, removal.tool = "remove ports",
         removal.names = <<>> \/ ToSet(NewNames(add)) \subseteq ToSet(removal.names),
         NEW left \in Succeeds(removal, failed.to),
         NEW again \in AddPorts(add, left), again.answer = "ok",
         NEW n \in ToSet(NewNames(add)), NEW p \in First(Named(n, again.to.ports))
  PROVE  p.assigned
  <1>1. Sound(failed.to)
    BY AddPortsSound DEF AllSound
  <1>2. /\ Sound(left)
        /\ \A q \in left.ports : removal.names # <<>> /\ q.name \notin ToSet(removal.names)
    BY <1>1, RemovedGone
  <1>3. p \in again.to.ports /\ p.name = n
    BY DEF First, Named
  <1>4. p \notin left.ports
    BY <1>2, <1>3
  <1> QED
    BY <1>2, <1>3, <1>4, AddedAssigned

\* Removing all ports can succeed whatever there is.
LEMMA RemoveAllSucceeds ==
  ASSUME NEW c, Sound(c), NEW call \in NamesCall, call.names = <<>>
  PROVE  Succeeds(call, c) # {}
  BY NamedSucceeds DEF AllThere

\* After ixia_add_ports failed, removing ports and making the same call again is a
\* way out: every name leads to a port with hardware (ports.py:187-204, 304-319).
THEOREM CleanSlateAlways == Spec => []CleanSlate
  <1>1. IInv => CleanSlate
    <2> SUFFICES ASSUME Sound(config), NEW add \in AddCall,
                        NEW failed \in AddPorts(add, config), Fits(failed.to),
                        NEW removal \in NamesCall, removal.tool = "remove ports"
                 PROVE  /\ removal.names = <<>> => Succeeds(removal, failed.to) # {}
                        /\ removal.names = <<>> \/ ToSet(NewNames(add)) \subseteq ToSet(removal.names) =>
                             \A left \in Succeeds(removal, failed.to) :
                               \A again \in {o \in AddPorts(add, left) : o.answer = "ok"},
                                  n \in ToSet(NewNames(add)) :
                                 \A p \in First(Named(n, again.to.ports)) : p.assigned
      BY Zenon DEF IInv, CleanSlate
    <2>1. Sound(failed.to)
      BY AddPortsSound DEF AllSound
    <2>2. removal.names = <<>> => Succeeds(removal, failed.to) # {}
      BY <2>1, RemoveAllSucceeds
    <2>3. ASSUME removal.names = <<>> \/ ToSet(NewNames(add)) \subseteq ToSet(removal.names),
                 NEW left \in Succeeds(removal, failed.to),
                 NEW again \in AddPorts(add, left), again.answer = "ok",
                 NEW n \in ToSet(NewNames(add)), NEW p \in First(Named(n, again.to.ports))
          PROVE  p.assigned
      BY <2>3, RemovedAndAdded
    <2> QED
      BY <2>2, <2>3
  <1>2. Init => IInv
    BY NoConfigSound DEF Init, IInv
  <1> QED
    BY <1>1, <1>2, StepSound, PTL DEF Spec

-----------------------------------------------------------------------------
(* Start and stop of protocols: what a call does to what an earlier one     *)
(* left.                                                                    *)

\* Device groups after H were started or stopped.
LEMMA GroupsLeft ==
  ASSUME NEW c, Sound(c), NEW b, NEW H, H \subseteq c.groups, NEW d, d = SetRunning(H, b, c)
  PROVE  /\ \A g \in d.groups : \E h \in c.groups : h.at = g.at /\ h.under = g.under
         /\ \A h \in c.groups : \E g \in d.groups : h.at = g.at /\ h.under = g.under
         /\ d.topologies = c.topologies
  <1> DEFINE f(g) == [g EXCEPT !.running = b]
             L == (c.groups \ H) \cup {f(g) : g \in H}
  <1>1. d = [c EXCEPT !.groups = L]
    BY DEF SetRunning
  <1>2. \A g \in c.groups : f(g).at = g.at /\ f(g).under = g.under
    BY SoundParts DEF Group
  <1> HIDE DEF f
  <1>3. d.groups = L /\ d.topologies = c.topologies
    BY <1>1 DEF Sound
  <1> QED
    BY <1>2, <1>3

\* In d the device groups H of c were started or stopped; T are the device groups K
\* of c as d has them.
RanBefore(H, K, b, c, T, d) ==
  /\ H \subseteq c.groups /\ K \subseteq c.groups
  /\ d = SetRunning(H, b, c) /\ FoundAgain(K, d.groups, T)

\* Starting some device groups and then those of K is starting both.
LEMMA RunningTwice ==
  \A c, b, H, K, d, T :
    Sound(c) /\ RanBefore(H, K, b, c, T, d) => SetRunning(T, b, d) = SetRunning(H \cup K, b, c)
  <1> SUFFICES ASSUME NEW c, Sound(c), NEW b, NEW H, H \subseteq c.groups, NEW K, K \subseteq c.groups,
                      NEW d, d = SetRunning(H, b, c), NEW T, FoundAgain(K, d.groups, T)
               PROVE  SetRunning(T, b, d) = SetRunning(H \cup K, b, c)
    BY DEF RanBefore
  <1> DEFINE g(x) == [x EXCEPT !.running = b]
             f == [x \in [at : 1 .. MaxGroups, under : 1 .. MaxTopologies, name : GroupName,
                          running : BOOLEAN \cup {b}, routed : BOOLEAN] |-> g(x)]
             All == DOMAIN f
             P == c.groups
             R(X) == {g(x) : x \in X}
             L == (P \ H) \cup R(H)
  <1>1. d = [c EXCEPT !.groups = L] /\ SetRunning(H \cup K, b, c) = [c EXCEPT !.groups = (P \ (H \cup K)) \cup R(H \cup K)]
    BY DEF SetRunning
  <1>2. d.groups = L
    BY <1>1 DEF Sound
  <1>3. SetRunning(T, b, d) = [d EXCEPT !.groups = (L \ T) \cup R(T)]
    BY <1>2 DEF SetRunning
  <1>4. \A X : [d EXCEPT !.groups = X] = [c EXCEPT !.groups = X]
    BY <1>1 DEF Sound
  <1>5. P \subseteq All /\ Distinct(P)
    BY SoundParts DEF Group
  <1>6. \A x \in All : g(x) \in All /\ g(x).at = x.at /\ g(g(x)) = g(x)
    OBVIOUS
  <1>7. \A x \in All : f[x] = g(x)
    OBVIOUS
  <1> HIDE DEF g, f, All
  <1>8. TreatsOnce(f, P)
    BY <1>5, <1>6, <1>7 DEF TreatsOnce
  <1>9. ASSUME NEW X, X \subseteq All
        PROVE  \A x : x \in R(X) <=> \E q \in X : x = f[q]
    BY <1>7, <1>9
  <1>10. \A x \in R(H) : x \in All
    BY <1>5, <1>6
  <1> HIDE DEF R
  <1>11. L \subseteq All /\ T \subseteq L
    BY <1>2, <1>5, <1>10 DEF FoundAgain
  <1>12. Treated(f, H, P, L)
    BY <1>5, <1>9 DEF Treated
  <1> HIDE DEF L, P
  <1>13. T \subseteq All /\ H \cup K \subseteq All /\ H \cup K \subseteq P
    BY <1>5, <1>11 DEF P
  <1>14. Treated(f, T, L, (L \ T) \cup R(T))
    BY <1>9, <1>13 DEF Treated
  <1>15. Treated(f, H \cup K, P, (P \ (H \cup K)) \cup R(H \cup K))
    BY <1>9, <1>13 DEF Treated
  <1>16. FoundAgain(K, L, T)
    BY <1>2
  <1>17. (L \ T) \cup R(T) = (P \ (H \cup K)) \cup R(H \cup K)
    BY <1>5, <1>8, <1>12, <1>13, <1>14, <1>15, <1>16, TreatedTwice
  <1> QED
    BY <1>1, <1>3, <1>4, <1>17

\* The calls of both tools, and whether they start.
StartStopCall == Of("start protocols") \cup Of("stop protocols")
Starts(call) == call.tool = "start protocols"

\* The device groups a call is about, and the order it takes them in.
About(call, c) ==
  IF call.topology = NoName THEN c.groups
  ELSE GroupsOf(Named(call.topology, c.topologies), c)
NotLater(g, h) == g.under < h.under \/ (g.under = h.under /\ g.at <= h.at)

\* The device groups dealt with when the call ends: none, all, or all up to one.
InTurn(call, c) ==
  {{}, About(call, c)} \cup {{g \in About(call, c) : NotLater(g, h)} : h \in About(call, c)}

\* The topology that is named is not there.
NoSuch(call, c) == call.topology # NoName /\ Named(call.topology, c.topologies) = {}

\* Where a call to start or stop may end, and where when it succeeds
\* (topology.py:323-333, 372-382).
LEMMA StartStopEnds ==
  ASSUME NEW c, Sound(c), NEW call \in StartStopCall
  PROVE  /\ Outcomes(call, c) = StartStop(call, c)
         /\ NoSuch(call, c) => {o.to : o \in StartStop(call, c)} = {c} /\ Succeeds(call, c) = {}
         /\ ~NoSuch(call, c) =>
              /\ {o.to : o \in StartStop(call, c)} = {SetRunning(K, Starts(call), c) : K \in InTurn(call, c)}
              /\ Succeeds(call, c) = {SetRunning(About(call, c), Starts(call), c)}
  <1>1. call.tool \in {"start protocols", "stop protocols"}
    BY DEF StartStopCall, Of
  <1>2. Outcomes(call, c) = StartStop(call, c)
    BY <1>1, OutcomesOfTool
  <1>3. Succeeds(call, c) = {o.to : o \in {o \in StartStop(call, c) : o.answer \in {"ok", "nothing"}}}
    BY <1>2 DEF Succeeds
  <1>a. \A d, a : Outcome(d, a).to = d /\ Outcome(d, a).answer = a
    BY DEF Outcome
  <1>4. CASE NoSuch(call, c)
    <2>1. StartStop(call, c) = Unchanged(c, {"not found", "error"})
      BY <1>4, Zenon DEF StartStop, NoSuch
    <2>2. StartStop(call, c) = {Outcome(c, "not found"), Outcome(c, "error")}
      BY <2>1 DEF Unchanged
    <2>3. ASSUME NEW o \in StartStop(call, c) PROVE o.to = c /\ o.answer \notin {"ok", "nothing"}
      <3>1. o = Outcome(c, "not found") \/ o = Outcome(c, "error")
        BY <2>2
      <3>2. ASSUME NEW a, o = Outcome(c, a) PROVE o.to = c /\ o.answer = a
        BY <3>2 DEF Outcome
      <3>3. o.to = c /\ o.answer \in {"not found", "error"}
        BY <3>1, <3>2
      <3> QED
        BY <3>3
    <2>4. {o.to : o \in StartStop(call, c)} = {c}
      BY <2>2, <2>3
    <2>5. Succeeds(call, c) = {}
      BY <1>3, <2>3
    <2> QED
      BY <1>2, <1>4, <2>4, <2>5
  <1>5. CASE ~NoSuch(call, c)
    <2> DEFINE b == Starts(call)
               G == About(call, c)
               upTo(h) == {g \in G : NotLater(g, h)}
               some == {Outcome(SetRunning(upTo(h), b, c), "error") : h \in G}
               all == SetRunning(G, b, c)
    <2>1. StartStop(call, c) = Made(c, all) \cup some
      BY <1>5, Zenon DEF StartStop, NoSuch, Starts, About, NotLater
    <2>2. Made(c, all) = {Outcome(c, "error"), Outcome(all, "error"), Outcome(all, "ok")}
      BY DEF Made
    <2>3. SetRunning({}, b, c) = c
      <3>1. c = [c EXCEPT !.groups = c.groups]
        BY DEF Sound
      <3>2. (c.groups \ {}) \cup {[g EXCEPT !.running = b] : g \in {}} = c.groups
        OBVIOUS
      <3> QED
        BY <3>1, <3>2 DEF SetRunning
    <2>4. InTurn(call, c) = {{}, G} \cup {upTo(h) : h \in G}
      BY DEF InTurn
    <2> HIDE DEF b, G, upTo
    <2>5. ASSUME NEW o \in some
          PROVE  \E h \in G : o.to = SetRunning(upTo(h), b, c) /\ o.answer = "error"
      <3>1. PICK h \in G : o = Outcome(SetRunning(upTo(h), b, c), "error")
        BY <2>5, Zenon
      <3>2. o.to = SetRunning(upTo(h), b, c) /\ o.answer = "error"
        BY <1>a, <3>1, Zenon
      <3> QED
        BY <3>2, Zenon
    <2>6. \A h \in G : \E o \in some : o.to = SetRunning(upTo(h), b, c)
      BY <1>a, Zenon
    <2> HIDE DEF some, all
    <2>7. {o \in StartStop(call, c) : o.answer \in {"ok", "nothing"}} = {Outcome(all, "ok")}
      <3>1. \A o \in some : o.answer \notin {"ok", "nothing"}
        BY <2>5
      <3>2. Outcome(c, "error").answer \notin {"ok", "nothing"} /\ Outcome(all, "error").answer \notin {"ok", "nothing"}
        BY <1>a
      <3>3. Outcome(all, "ok").answer \in {"ok", "nothing"}
        BY <1>a
      <3> QED
        BY <2>1, <2>2, <3>1, <3>2, <3>3
    <2>8. Succeeds(call, c) = {all}
      <3>1. Outcome(all, "ok").to = all
        BY <1>a
      <3> QED
        BY <1>3, <2>7, <3>1
    <2>9. ASSUME NEW x PROVE x \in {o.to : o \in StartStop(call, c)} <=> x = c \/ x = all \/ \E o \in some : x = o.to
      BY <1>a, <2>1, <2>2
    <2>10. ASSUME NEW x
           PROVE  x \in {SetRunning(K, b, c) : K \in InTurn(call, c)} <=>
                    x = c \/ x = all \/ \E h \in G : x = SetRunning(upTo(h), b, c)
      <3>1. \A K : K \in InTurn(call, c) <=> K = {} \/ K = G \/ \E h \in G : K = upTo(h)
        BY <2>4
      <3>2. x \in {SetRunning(K, b, c) : K \in InTurn(call, c)}
              <=> \E K \in InTurn(call, c) : x = SetRunning(K, b, c)
        BY Zenon
      <3>3. all = SetRunning(G, b, c)
        BY DEF all
      <3>4. ASSUME NEW K \in InTurn(call, c), x = SetRunning(K, b, c)
            PROVE  x = c \/ x = all \/ \E h \in G : x = SetRunning(upTo(h), b, c)
        BY <2>3, <3>1, <3>3, <3>4
      <3>5. ASSUME x = c \/ x = all \/ \E h \in G : x = SetRunning(upTo(h), b, c)
            PROVE  \E K \in InTurn(call, c) : x = SetRunning(K, b, c)
        BY <2>3, <3>1, <3>3, <3>5
      <3> QED
        BY <3>2, <3>4, <3>5, Zenon
    <2>11. {o.to : o \in StartStop(call, c)} = {SetRunning(K, b, c) : K \in InTurn(call, c)}
      <3> DEFINE A == {o.to : o \in StartStop(call, c)}
                 B == {SetRunning(K, b, c) : K \in InTurn(call, c)}
      <3>1. ASSUME NEW x
            PROVE  (\E o \in some : x = o.to) <=> \E h \in G : x = SetRunning(upTo(h), b, c)
        BY <2>5, <2>6
      <3>2. ASSUME NEW x PROVE x \in A <=> x \in B
        BY <2>9, <2>10, <3>1, Zenon
      <3> HIDE DEF A, B
      <3>3. A = B
        BY <3>2
      <3> QED
        BY <3>3 DEF A, B
    <2> QED
      BY <1>2, <1>5, <2>8, <2>11 DEF all, b, G
  <1> QED
    BY <1>4, <1>5

\* Topologies are named as before, and device groups are taken in the same order.
LEMMA SameGroups ==
  ASSUME NEW c, Sound(c), NEW call \in StartStopCall,
         NEW H, H \subseteq About(call, c), NEW d, d = SetRunning(H, Starts(call), c)
  PROVE  /\ Sound(d) /\ (NoSuch(call, d) <=> NoSuch(call, c))
         /\ FoundAgain(About(call, c), d.groups, About(call, d))
         /\ \A T \in InTurn(call, d) : \E K \in InTurn(call, c) : FoundAgain(K, d.groups, T)
  <1>1. About(call, c) \subseteq c.groups /\ About(call, d) \subseteq d.groups
    BY DEF About, GroupsOf
  <1>2. Sound(d)
    <2>1. PICK b \in BOOLEAN : b = Starts(call)
      BY DEF Starts
    <2>2. H \subseteq c.groups
      BY <1>1
    <2> QED
      BY <2>1, <2>2, SetRunningSound, Zenon
  <1>3. /\ \A g \in d.groups : \E h \in c.groups : h.at = g.at /\ h.under = g.under
        /\ \A h \in c.groups : \E g \in d.groups : h.at = g.at /\ h.under = g.under
        /\ d.topologies = c.topologies
    <2>1. H \subseteq c.groups
      BY <1>1
    <2>2. PICK b : b = Starts(call)
      BY Zenon
    <2>3. d = SetRunning(H, b, c)
      BY <2>2
    <2> QED
      BY <2>1, <2>3, GroupsLeft
  <1>4. \A g, h \in c.groups : g.at = h.at => g = h
    BY SoundParts DEF Distinct
  <1>5. NoSuch(call, d) <=> NoSuch(call, c)
    BY <1>3 DEF NoSuch
  <1>6. ASSUME NEW g \in d.groups, NEW h \in c.groups, h.at = g.at
        PROVE  h.under = g.under /\ (g \in About(call, d) <=> h \in About(call, c))
    <2>1. h.under = g.under
      BY <1>3, <1>4, <1>6
    <2>2. CASE call.topology = NoName
      BY <2>1, <2>2 DEF About
    <2>3. CASE call.topology # NoName
      BY <1>3, <2>1, <2>3 DEF About, GroupsOf
    <2> QED
      BY <2>1, <2>2, <2>3
  <1>7. FoundAgain(About(call, c), d.groups, About(call, d))
    <2>1. \A g \in d.groups : g \in About(call, d) <=> \E h \in About(call, c) : h.at = g.at
      BY <1>1, <1>3, <1>6
    <2> QED
      BY <1>1, <2>1 DEF FoundAgain
  <1>8. ASSUME NEW T \in InTurn(call, d)
        PROVE  \E K \in InTurn(call, c) : FoundAgain(K, d.groups, T)
    <2>1. CASE T = {}
      <3>1. FoundAgain({}, d.groups, {})
        BY DEF FoundAgain
      <3> QED
        BY <2>1, <3>1 DEF InTurn
    <2>2. CASE T = About(call, d)
      BY <1>7, <2>2 DEF InTurn
    <2>3. CASE \E y \in About(call, d) : T = {g \in About(call, d) : NotLater(g, y)}
      <3>1. PICK y \in About(call, d) : T = {g \in About(call, d) : NotLater(g, y)}
        BY <2>3
      <3>2. PICK x \in c.groups : x.at = y.at
        BY <1>1, <1>3
      <3>3. x \in About(call, c) /\ x.under = y.under
        BY <1>1, <1>6, <3>2
      <3> DEFINE K == {g \in About(call, c) : NotLater(g, x)}
      <3>4. K \in InTurn(call, c)
        BY <3>3 DEF InTurn
      <3>5. ASSUME NEW g \in d.groups, NEW h \in c.groups, h.at = g.at PROVE g \in T <=> h \in K
        <4>1. NotLater(g, y) <=> NotLater(h, x)
          BY <1>6, <3>2, <3>3, <3>5 DEF NotLater
        <4> QED
          BY <1>6, <3>1, <3>5, <4>1
      <3>6. K \subseteq c.groups /\ T \subseteq d.groups
        BY <1>1, <3>1
      <3> HIDE DEF K
      <3>7. \A g \in d.groups : g \in T <=> \E h \in K : h.at = g.at
        BY <1>3, <3>5, <3>6
      <3>8. FoundAgain(K, d.groups, T)
        BY <3>6, <3>7 DEF FoundAgain
      <3> QED
        BY <3>4, <3>8
    <2> QED
      BY <2>1, <2>2, <2>3 DEF InTurn
  <1> QED
    BY <1>2, <1>5, <1>7, <1>8

\* Of two numbers of device groups dealt with one covers the other.
LEMMA InTurnNested ==
  ASSUME NEW c, Sound(c), NEW call \in StartStopCall,
         NEW H \in InTurn(call, c), NEW K \in InTurn(call, c)
  PROVE  H \cup K \in InTurn(call, c)
  <1> DEFINE G == About(call, c)
             upTo(h) == {g \in G : NotLater(g, h)}
  <1>1. \A g \in G : g.at \in Int /\ g.under \in Int
    <2>1. G \subseteq Group
      BY SoundParts DEF About, GroupsOf
    <2>2. \A g \in Group : g.at \in Int /\ g.under \in Int
      BY ConfigAssumption DEF Group
    <2> QED
      BY <2>1, <2>2
  <1>2. InTurn(call, c) = {{}, G} \cup {upTo(h) : h \in G}
    BY DEF InTurn
  <1> HIDE DEF G
  <1>3. ASSUME NEW g \in G, NEW h \in G PROVE upTo(g) \subseteq upTo(h) \/ upTo(h) \subseteq upTo(g)
    <2>1. NotLater(g, h) \/ NotLater(h, g)
      BY <1>1 DEF NotLater
    <2>2. \A x, y, z \in G : NotLater(x, y) /\ NotLater(y, z) => NotLater(x, z)
      BY <1>1 DEF NotLater
    <2> QED
      BY <2>1, <2>2
  <1>4. \A h \in G : upTo(h) \subseteq G
    OBVIOUS
  <1> HIDE DEF upTo
  <1>5. H \subseteq K \/ K \subseteq H
    BY <1>2, <1>3, <1>4
  <1> QED
    BY <1>5, <1>2

\* ixia_start_protocols and ixia_stop_protocols after an attempt that failed
\* anywhere: they end as at once, and in between no differently (topology.py:323-333,
\* 372-382).
LEMMA StartStopAgain ==
  ASSUME NEW c, Sound(c), NEW call \in StartStopCall, NEW o \in Outcomes(call, c)
  PROVE  /\ Succeeds(call, o.to) = Succeeds(call, c)
         /\ {p.to : p \in Outcomes(call, o.to)} \subseteq {p.to : p \in Outcomes(call, c)}
  <1>1. CASE NoSuch(call, c)
    <2>1. o.to = c
      BY <1>1, StartStopEnds
    <2> QED
      BY <2>1
  <1>2. CASE ~NoSuch(call, c)
    <2>1. PICK b : b = Starts(call)
      BY Zenon
    <2>2. /\ {p.to : p \in Outcomes(call, c)} = {SetRunning(K, b, c) : K \in InTurn(call, c)}
          /\ Succeeds(call, c) = {SetRunning(About(call, c), b, c)}
      BY <1>2, <2>1, StartStopEnds
    <2>3. PICK H \in InTurn(call, c) : o.to = SetRunning(H, b, c)
      BY <2>2
    <2>4. PICK d : d = o.to
      OBVIOUS
    <2>5. H \subseteq About(call, c) /\ d = SetRunning(H, b, c) /\ About(call, c) \subseteq c.groups
      BY <2>3, <2>4 DEF InTurn, About, GroupsOf
    <2>6. /\ Sound(d) /\ ~NoSuch(call, d)
          /\ FoundAgain(About(call, c), d.groups, About(call, d))
          /\ \A T \in InTurn(call, d) : \E K \in InTurn(call, c) : FoundAgain(K, d.groups, T)
      BY <1>2, <2>1, <2>5, SameGroups
    <2>7. /\ {p.to : p \in Outcomes(call, d)} = {SetRunning(T, b, d) : T \in InTurn(call, d)}
          /\ Succeeds(call, d) = {SetRunning(About(call, d), b, d)}
      BY <2>1, <2>6, StartStopEnds
    <2>8. ASSUME NEW K, K \subseteq About(call, c), NEW T, FoundAgain(K, d.groups, T)
          PROVE  SetRunning(T, b, d) = SetRunning(H \cup K, b, c)
      <3>1. RanBefore(H, K, b, c, T, d)
        BY <2>5, <2>8 DEF RanBefore
      <3> QED
        BY <3>1, RunningTwice
    <2>9. Succeeds(call, d) = Succeeds(call, c)
      <3>1. SetRunning(About(call, d), b, d) = SetRunning(H \cup About(call, c), b, c)
        BY <2>6, <2>8
      <3>2. H \cup About(call, c) = About(call, c)
        BY <2>5
      <3> QED
        BY <2>2, <2>7, <3>1, <3>2
    <2>10. ASSUME NEW T \in InTurn(call, d)
           PROVE  SetRunning(T, b, d) \in {SetRunning(K, b, c) : K \in InTurn(call, c)}
      <3>1. PICK K \in InTurn(call, c) : FoundAgain(K, d.groups, T)
        BY <2>6
      <3>2. K \subseteq About(call, c)
        BY DEF InTurn
      <3>3. SetRunning(T, b, d) = SetRunning(H \cup K, b, c)
        BY <2>8, <3>1, <3>2
      <3>4. H \cup K \in InTurn(call, c)
        BY InTurnNested
      <3> QED
        BY <3>3, <3>4
    <2>11. {SetRunning(T, b, d) : T \in InTurn(call, d)} \subseteq {SetRunning(K, b, c) : K \in InTurn(call, c)}
      BY <2>10
    <2>12. {p.to : p \in Outcomes(call, d)} \subseteq {p.to : p \in Outcomes(call, c)}
      BY <2>2, <2>7, <2>11, Zenon
    <2> QED
      BY <2>4, <2>9, <2>12
  <1> QED
    BY <1>1, <1>2

-----------------------------------------------------------------------------
(* Delete, update and load.                                                 *)

\* Repeating the call adds nothing: whatever became of the first attempt, it ends
\* where one call could have ended.
AddsNothing(call, c) ==
  \A o \in Outcomes(call, c) : {p.to : p \in Outcomes(call, o.to)} \subseteq {p.to : p \in Outcomes(call, c)}

\* A call adds nothing if it finds nothing more to do wherever an attempt led to.
LEMMA NothingMore ==
  ASSUME NEW call, NEW c,
         \A o \in Outcomes(call, c) : o.to = c \/ \A p \in Outcomes(call, o.to) : p.to = o.to
  PROVE  AddsNothing(call, c)
  BY DEF AddsNothing

\* Where a call that finds nothing ends.
LEMMA UnchangedEnds ==
  ASSUME NEW c, NEW answers, NEW o \in Unchanged(c, answers)
  PROVE  o.to = c
  BY DEF Unchanged, Outcome

\* Where a call of one REST call ends.
LEMMA MadeEnds == \A c, d : \A o \in Made(c, d) : o.to = c \/ o.to = d
  <1> SUFFICES ASSUME NEW c, NEW d, NEW o \in Made(c, d) PROVE o.to = c \/ o.to = d
    OBVIOUS
  <1>1. \A x, a : Outcome(x, a).to = x
    BY DEF Outcome
  <1>2. o = Outcome(c, "error") \/ o = Outcome(d, "error") \/ o = Outcome(d, "ok")
    BY DEF Made
  <1> QED
    BY <1>1, <1>2

\* While names are unique, the topology that is found is the only one of its name.
LEMMA TopologyUnique ==
  \A c, n, t, u :
    UniqueNames(c) /\ t \in FindTopo(n, c) /\ u \in c.topologies /\ u.name = n => u = t
  <1> SUFFICES ASSUME NEW c, UniqueNames(c), NEW n, NEW t \in FindTopo(n, c),
                      NEW u \in c.topologies, u.name = n
               PROVE  u = t
    OBVIOUS
  <1>1. t \in c.topologies /\ t.name = n
    BY DEF FindTopo, First, Named
  <1> QED
    BY <1>1 DEF UniqueNames

\* So is the device group.
LEMMA GroupUnique ==
  \A c, n, m, g, h, t :
    /\ UniqueNames(c) /\ g \in FindDeviceGroup(n, m, c)
    /\ t \in FindTopo(n, c) /\ h \in c.groups /\ h.name = m /\ h.under = t.at
    => h = g
  <1> SUFFICES ASSUME NEW c, UniqueNames(c), NEW n, NEW m, NEW g \in FindDeviceGroup(n, m, c),
                      NEW t \in FindTopo(n, c), NEW h \in c.groups, h.name = m, h.under = t.at
               PROVE  h = g
    OBVIOUS
  <1>1. g \in c.groups /\ g.name = m
    BY DEF FindDeviceGroup, First, Named, GroupsOf
  <1>2. PICK u \in FindTopo(n, c) : g.under = u.at
    BY DEF FindDeviceGroup, First, Named, GroupsOf
  <1>3. t = u
    <2>1. t \in c.topologies /\ t.name = n
      BY DEF FindTopo, First, Named
    <2> QED
      BY <2>1, TopologyUnique
  <1> QED
    BY <1>1, <1>2, <1>3 DEF UniqueNames

\* ixia_delete_topology (topology.py:472-474).
LEMMA DeleteTopologyAgain ==
  ASSUME NEW c, Sound(c), UniqueNames(c), NEW call, call.tool = "delete topology"
  PROVE  AddsNothing(call, c)
  <1>1. \A d : Outcomes(call, d) = DeleteTopology(call, d)
    BY OutcomesOfTool
  <1>2. ASSUME NEW d, FindTopo(call.topology, d) = {}, NEW p \in DeleteTopology(call, d)
        PROVE  p.to = d
    <2>1. p \in Unchanged(d, {"not found", "error"})
      BY <1>2 DEF DeleteTopology
    <2> QED
      BY <2>1, UnchangedEnds
  <1>3. ASSUME NEW o \in DeleteTopology(call, c)
        PROVE  o.to = c \/ FindTopo(call.topology, o.to) = {}
    <2>1. CASE FindTopo(call.topology, c) = {}
      BY <1>2, <2>1
    <2>2. CASE FindTopo(call.topology, c) # {}
      <3>1. PICK t \in FindTopo(call.topology, c) : o \in Made(c, WithoutTopology(t, c))
        BY <2>2 DEF DeleteTopology
      <3>2. PICK d : d = WithoutTopology(t, c)
        OBVIOUS
      <3>3. d.topologies = c.topologies \ {t}
        BY <3>2 DEF WithoutTopology, Sound
      <3>4. \A u \in c.topologies : u.name = call.topology => u = t
        <4>1. PICK n : n = call.topology
          OBVIOUS
        <4>2. t \in FindTopo(n, c)
          BY <4>1, Zenon
        <4> QED
          BY <4>1, <4>2, TopologyUnique
      <3>5. FindTopo(call.topology, d) = {}
        BY <3>3, <3>4 DEF FindTopo, First, Named
      <3>6. o.to = c \/ o.to = d
        <4>1. o \in Made(c, d)
          BY <3>1, <3>2
        <4> QED
          BY <4>1, MadeEnds
      <3> QED
        BY <3>5, <3>6
    <2> QED
      BY <2>1, <2>2
  <1>4. \A o \in Outcomes(call, c) : o.to = c \/ \A p \in Outcomes(call, o.to) : p.to = o.to
    BY <1>1, <1>2, <1>3
  <1> QED
    BY <1>4, NothingMore

\* ixia_delete_device_group (topology.py:612-616).
LEMMA DeleteDeviceGroupAgain ==
  ASSUME NEW c, Sound(c), UniqueNames(c), NEW call, call.tool = "delete group"
  PROVE  AddsNothing(call, c)
  <1> DEFINE found(d) == FindDeviceGroup(call.topology, call.group, d)
  <1>1. \A d : Outcomes(call, d) = DeleteDeviceGroup(call, d)
    BY OutcomesOfTool
  <1>2. ASSUME NEW d, found(d) = {}, NEW p \in DeleteDeviceGroup(call, d)
        PROVE  p.to = d
    <2>1. p \in Unchanged(d, {"not found", "error"})
      BY <1>2 DEF DeleteDeviceGroup
    <2> QED
      BY <2>1, UnchangedEnds
  <1>3. ASSUME NEW o \in DeleteDeviceGroup(call, c)
        PROVE  o.to = c \/ found(o.to) = {}
    <2>1. CASE found(c) = {}
      BY <1>2, <2>1
    <2>2. CASE found(c) # {}
      <3>1. PICK g \in found(c) : o \in Made(c, [c EXCEPT !.groups = @ \ {g}])
        BY <2>2 DEF DeleteDeviceGroup
      <3>2. PICK d : d = [c EXCEPT !.groups = @ \ {g}]
        OBVIOUS
      <3>3. d.groups = c.groups \ {g} /\ d.topologies = c.topologies
        BY <3>2 DEF Sound
      <3>4. FindTopo(call.topology, d) = FindTopo(call.topology, c)
        BY <3>3 DEF FindTopo
      <3>5. \A h \in c.groups :
              h.name = call.group /\ (\E t \in FindTopo(call.topology, c) : h.under = t.at) => h = g
        <4>1. PICK n, m : n = call.topology /\ m = call.group
          OBVIOUS
        <4>2. g \in FindDeviceGroup(n, m, c)
          BY <4>1, Zenon
        <4>3. \A h \in c.groups : h.name = m /\ (\E t \in FindTopo(n, c) : h.under = t.at) => h = g
          BY <4>2, GroupUnique
        <4> QED
          BY <4>1, <4>3, Zenon
      <3>6. found(d) = {}
        BY <3>3, <3>4, <3>5 DEF FindDeviceGroup, First, Named, GroupsOf
      <3>7. o.to = c \/ o.to = d
        <4>1. o \in Made(c, d)
          BY <3>1, <3>2
        <4> QED
          BY <4>1, MadeEnds
      <3> QED
        BY <3>6, <3>7
    <2> QED
      BY <2>1, <2>2
  <1>4. \A o \in Outcomes(call, c) : o.to = c \/ \A p \in Outcomes(call, o.to) : p.to = o.to
    BY <1>1, <1>2, <1>3
  <1> QED
    BY <1>4, NothingMore

\* Where ixia_update_topology ends (topology.py:507-527): with the configuration as
\* it was, or with the first topology of the name renamed.
LEMMA UpdateTopologyEnds ==
  ASSUME NEW call, NEW c, NEW o \in UpdateTopology(call, c)
  PROVE  \/ o.to = c
         \/ /\ call.new # NoName
            /\ \E t \in FindTopo(call.topology, c) :
                 o.to = TopologyNow(t, [t EXCEPT !.name = call.new], c)
  <1> DEFINE renamed(t) == IF call.new = NoName THEN c
                           ELSE TopologyNow(t, [t EXCEPT !.name = call.new], c)
  <1>1. CASE FindTopo(call.topology, c) = {}
    <2>1. o \in Unchanged(c, {"not found", "error"})
      BY <1>1 DEF UpdateTopology
    <2> QED
      BY <2>1, UnchangedEnds
  <1>2. CASE FindTopo(call.topology, c) # {}
    <2>1. o = Outcome(c, "error")
          \/ \E t \in FindTopo(call.topology, c) : \E A : o \in Unchanged(renamed(t), A)
      BY <1>2, Zenon DEF UpdateTopology
    <2>2. CASE o = Outcome(c, "error")
      BY <2>2 DEF Outcome
    <2>3. CASE \E t \in FindTopo(call.topology, c) : \E A : o \in Unchanged(renamed(t), A)
      <3>1. PICK t \in FindTopo(call.topology, c) : o.to = renamed(t)
        BY <2>3, UnchangedEnds
      <3> QED
        BY <3>1
    <2> QED
      BY <2>1, <2>2, <2>3
  <1> QED
    BY <1>1, <1>2

\* ixia_update_topology again: after a rename that took effect the old name is not
\* found (topology.py:514-515).
LEMMA UpdateTopologyAgain ==
  ASSUME NEW c, Sound(c), NEW call, call.tool = "update topology",
         call.new # NoName => UniqueNames(c)
  PROVE  AddsNothing(call, c)
  <1>1. \A d : Outcomes(call, d) = UpdateTopology(call, d)
    BY OutcomesOfTool
  <1>2. ASSUME NEW o \in UpdateTopology(call, c), o.to # c
        PROVE  FindTopo(call.topology, o.to) = {}
    <2>1. PICK n, m, d : n = call.topology /\ m = call.new /\ d = o.to
      OBVIOUS
    <2>2. PICK t \in FindTopo(call.topology, c) :
            call.new # NoName /\ o.to = TopologyNow(t, [t EXCEPT !.name = call.new], c)
      BY <1>2, UpdateTopologyEnds
    <2>3. PICK r : r = [t EXCEPT !.name = m]
      OBVIOUS
    <2>4. t \in FindTopo(n, c) /\ d = TopologyNow(t, r, c) /\ m # NoName
      BY <2>1, <2>2, <2>3, Zenon
    <2>5. t \in c.topologies /\ t.name = n /\ t \in Topology
      BY <2>4, SoundParts DEF FindTopo, First, Named
    <2>6. d.topologies = (c.topologies \ {t}) \cup {r}
      BY <2>4 DEF TopologyNow, Sound
    <2>7. m # n
      <3>1. SUFFICES ASSUME m = n PROVE FALSE
        OBVIOUS
      <3>2. r = t
        BY <2>3, <2>5, <3>1 DEF Topology
      <3>3. d = c
        BY <2>4, <2>5, <3>2 DEF TopologyNow, Sound
      <3> QED
        BY <1>2, <2>1, <3>3
    <2>8. r.name # n
      BY <2>3, <2>5, <2>7 DEF Topology
    <2>9. \A u \in c.topologies : u.name = n => u = t
      BY <2>1, <2>4, TopologyUnique
    <2>10. FindTopo(n, d) = {}
      BY <2>6, <2>8, <2>9 DEF FindTopo, First, Named
    <2> QED
      BY <2>1, <2>10, Zenon
  <1>3. ASSUME NEW d, FindTopo(call.topology, d) = {}, NEW p \in UpdateTopology(call, d)
        PROVE  p.to = d
    BY <1>3, UpdateTopologyEnds
  <1>4. \A o \in Outcomes(call, c) : o.to = c \/ \A p \in Outcomes(call, o.to) : p.to = o.to
    BY <1>1, <1>2, <1>3
  <1> QED
    BY <1>4, NothingMore

\* Where ixia_update_device_group ends (topology.py:653-666).
LEMMA UpdateDeviceGroupEnds ==
  ASSUME NEW call, NEW c, NEW o \in UpdateDeviceGroup(call, c)
  PROVE  \/ o.to = c
         \/ /\ call.new # NoName
            /\ \E g \in FindDeviceGroup(call.topology, call.group, c) :
                 o.to = GroupNow(g, [g EXCEPT !.name = call.new], c)
  <1> DEFINE found == FindDeviceGroup(call.topology, call.group, c)
             renamed(g) == IF call.new = NoName THEN c
                           ELSE GroupNow(g, [g EXCEPT !.name = call.new], c)
  <1>1. CASE found = {}
    <2>1. o \in Unchanged(c, {"not found", "error"})
      BY <1>1 DEF UpdateDeviceGroup
    <2> QED
      BY <2>1, UnchangedEnds
  <1>2. CASE found # {}
    <2>1. o = Outcome(c, "error") \/ \E g \in found : \E A : o \in Unchanged(renamed(g), A)
      BY <1>2, Zenon DEF UpdateDeviceGroup
    <2>2. CASE o = Outcome(c, "error")
      BY <2>2 DEF Outcome
    <2>3. CASE \E g \in found : \E A : o \in Unchanged(renamed(g), A)
      <3>1. PICK g \in found : o.to = renamed(g)
        BY <2>3, UnchangedEnds
      <3> QED
        BY <3>1
    <2> QED
      BY <2>1, <2>2, <2>3
  <1> QED
    BY <1>1, <1>2

\* ixia_update_device_group again (topology.py:660-661).
LEMMA UpdateDeviceGroupAgain ==
  ASSUME NEW c, Sound(c), NEW call, call.tool = "update group",
         call.new # NoName => UniqueNames(c)
  PROVE  AddsNothing(call, c)
  <1> DEFINE found(d) == FindDeviceGroup(call.topology, call.group, d)
  <1>1. \A d : Outcomes(call, d) = UpdateDeviceGroup(call, d)
    BY OutcomesOfTool
  <1>2. ASSUME NEW o \in UpdateDeviceGroup(call, c), o.to # c
        PROVE  found(o.to) = {}
    <2>1. PICK n, k, m, d : n = call.topology /\ k = call.group /\ m = call.new /\ d = o.to
      OBVIOUS
    <2>2. PICK g \in found(c) :
            call.new # NoName /\ o.to = GroupNow(g, [g EXCEPT !.name = call.new], c)
      BY <1>2, UpdateDeviceGroupEnds
    <2>3. PICK r : r = [g EXCEPT !.name = m]
      OBVIOUS
    <2>4. g \in FindDeviceGroup(n, k, c) /\ d = GroupNow(g, r, c) /\ m # NoName
      BY <2>1, <2>2, <2>3, Zenon
    <2>5. g \in c.groups /\ g.name = k /\ g \in Group
      BY <2>4, SoundParts DEF FindDeviceGroup, First, Named, GroupsOf
    <2>6. d.groups = (c.groups \ {g}) \cup {r} /\ d.topologies = c.topologies
      BY <2>4 DEF GroupNow, Sound
    <2>7. m # k
      <3>1. SUFFICES ASSUME m = k PROVE FALSE
        OBVIOUS
      <3>2. r = g
        BY <2>3, <2>5, <3>1 DEF Group
      <3>3. d = c
        BY <2>4, <2>5, <3>2 DEF GroupNow, Sound
      <3> QED
        BY <1>2, <2>1, <3>3
    <2>8. r.name # k
      BY <2>3, <2>5, <2>7 DEF Group
    <2>9. \A h \in c.groups : h.name = k /\ (\E t \in FindTopo(n, c) : h.under = t.at) => h = g
      BY <2>1, <2>4, GroupUnique
    <2>10. FindTopo(n, d) = FindTopo(n, c)
      BY <2>6 DEF FindTopo
    <2>11. FindDeviceGroup(n, k, d) = {}
      BY <2>6, <2>8, <2>9, <2>10 DEF FindDeviceGroup, First, Named, GroupsOf
    <2> QED
      BY <2>1, <2>11, Zenon
  <1>3. ASSUME NEW d, found(d) = {}, NEW p \in UpdateDeviceGroup(call, d)
        PROVE  p.to = d
    BY <1>3, UpdateDeviceGroupEnds
  <1>4. \A o \in Outcomes(call, c) : o.to = c \/ \A p \in Outcomes(call, o.to) : p.to = o.to
    BY <1>1, <1>2, <1>3
  <1> QED
    BY <1>4, NothingMore

\* ixia_load_config: the file replaces whatever is there (config.py:79).
LEMMA LoadAgain ==
  ASSUME NEW c, NEW call \in LoadCall
  PROVE  /\ AddsNothing(call, c)
         /\ \A o \in Outcomes(call, c) : Succeeds(call, o.to) = Succeeds(call, c)
  <1>1. PICK f : f = call.file
    OBVIOUS
  <1>2. ASSUME NEW d
        PROVE  /\ Outcomes(call, d) = {Outcome(d, "error"), Outcome(f, "error"),
                                       Outcome(f, "ok"), Outcome(NoConfig, "error")}
               /\ Succeeds(call, d) = {f}
    <2>1. Outcomes(call, d) = {Outcome(d, "error"), Outcome(f, "error"),
                               Outcome(f, "ok"), Outcome(NoConfig, "error")}
      BY <1>1, OutcomesOfLoad DEF LoadConfig, Made
    <2>2. \A x, a : Outcome(x, a).to = x /\ Outcome(x, a).answer = a
      BY DEF Outcome
    <2>3. ASSUME NEW x PROVE x \in Succeeds(call, d) <=> x = f
      BY <2>1, <2>2 DEF Succeeds
    <2>4. Succeeds(call, d) = {f}
      BY <2>3
    <2> QED
      BY <2>1, <2>4
  <1>3. \A x, a : Outcome(x, a).to = x
    BY DEF Outcome
  <1>4. ASSUME NEW o \in Outcomes(call, c), NEW p \in Outcomes(call, o.to)
        PROVE  \E q \in Outcomes(call, c) : q.to = p.to
    <2>1. PICK d : d = o.to
      OBVIOUS
    <2>2. d = c \/ d = f \/ d = NoConfig
      BY <1>2, <1>3, <2>1
    <2>3. p.to = d \/ p.to = f \/ p.to = NoConfig
      <3>1. p \in Outcomes(call, d)
        BY <2>1
      <3> QED
        BY <1>2, <1>3, <3>1
    <2> QED
      BY <1>2, <1>3, <2>2, <2>3
  <1>5. AddsNothing(call, c)
    BY <1>4 DEF AddsNothing
  <1> QED
    BY <1>2, <1>5

-----------------------------------------------------------------------------
(* All tools with idempotentHint.                                           *)

\* Which calls they are.
LEMMA CallsHinted ==
  ASSUME NEW call \in Hinted
  PROVE  \/ call \in NamesCall
         \/ call \in LoadCall
         \/ call \in StartStopCall
         \/ call.tool \in {"delete topology", "update topology", "delete group", "update group"}
  <1>1. call \in AddCall \cup NamesCall \cup TopologyCall \cup GroupCall \cup LoadCall
    BY DEF Hinted, Call
  <1>2. call.tool \in {"release ports", "remove ports", "delete topology",
                       "update topology", "start protocols", "stop protocols", "delete group",
                       "update group", "load config"}
    BY DEF Hinted
  <1>3. CASE call \in AddCall
    BY <1>2, <1>3 DEF AddCall
  <1>4. CASE call \in TopologyCall
    <2>1. call.tool \in {"create topology", "delete topology", "update topology",
                         "start protocols", "stop protocols"}
      BY <1>4 DEF TopologyCall
    <2> QED
      BY <1>2, <1>4, <2>1 DEF StartStopCall, Of
  <1>5. CASE call \in GroupCall
    <2>1. call.tool \in {"create group", "delete group", "update group", "create network group"}
      BY <1>5 DEF GroupCall
    <2> QED
      BY <1>2, <2>1
  <1> QED
    BY <1>1, <1>3, <1>4, <1>5

\* In any well-formed configuration a repeated call adds nothing.
LEMMA HintedAddsNothing ==
  ASSUME NEW c, Sound(c), NEW call \in Hinted, PicksFirst(call) => UniqueNames(c)
  PROVE  AddsNothing(call, c)
  <1>1. CASE call \in NamesCall
    <2>1. \A d : Outcomes(call, d) = ForNamedPorts(call, d)
      BY <1>1, OutcomesOfNames
    <2>2. ASSUME NEW o \in Outcomes(call, c), NEW p \in Outcomes(call, o.to)
          PROVE  \E q \in Outcomes(call, c) : q.to = p.to
      <3>1. o \in ForNamedPorts(call, c) /\ p \in ForNamedPorts(call, o.to)
        BY <2>1
      <3> QED
        BY <1>1, <2>1, <3>1, NamesAddNothing
    <2> QED
      BY <2>2 DEF AddsNothing
  <1>2. CASE call \in LoadCall
    BY <1>2, LoadAgain
  <1>3. CASE call \in StartStopCall
    BY <1>3, StartStopAgain DEF AddsNothing
  <1>4. CASE call.tool = "delete topology"
    BY <1>4, DeleteTopologyAgain DEF PicksFirst
  <1>5. CASE call.tool = "delete group"
    BY <1>5, DeleteDeviceGroupAgain DEF PicksFirst
  <1>6. CASE call.tool = "update topology"
    BY <1>6, UpdateTopologyAgain DEF PicksFirst
  <1>7. CASE call.tool = "update group"
    BY <1>7, UpdateDeviceGroupAgain DEF PicksFirst
  <1> QED
    BY <1>1, <1>2, <1>3, <1>4, <1>5, <1>6, <1>7, CallsHinted

\* In any well-formed configuration a repeated call can end in success as it could
\* at first, and nowhere else.
LEMMA RestartableConverges ==
  ASSUME NEW c, Sound(c), NEW call \in Restartable, NEW o \in Outcomes(call, c)
  PROVE  Succeeds(call, o.to) = Succeeds(call, c)
  <1>1. call \in Hinted /\ ~PicksFirst(call) /\ (call.tool = "remove ports" => call.names = <<>>)
    BY DEF Restartable
  <1>2. CASE call \in NamesCall
    BY <1>1, <1>2, OutcomesOfNames, NamesConverge
  <1>3. CASE call \in LoadCall
    BY <1>3, LoadAgain
  <1>4. CASE call \in StartStopCall
    BY <1>4, StartStopAgain
  <1>5. CASE call.tool = "update topology"
    <2>1. o \in UpdateTopology(call, c) /\ call.new = NoName
      BY <1>1, <1>5, OutcomesOfTool DEF PicksFirst
    <2>2. o.to = c
      BY <2>1, UpdateTopologyEnds
    <2> QED
      BY <2>2
  <1>6. CASE call.tool = "update group"
    <2>1. o \in UpdateDeviceGroup(call, c) /\ call.new = NoName
      BY <1>1, <1>6, OutcomesOfTool DEF PicksFirst
    <2>2. o.to = c
      BY <2>1, UpdateDeviceGroupEnds
    <2> QED
      BY <2>2
  <1> QED
    BY <1>1, <1>2, <1>3, <1>4, <1>5, <1>6, CallsHinted DEF PicksFirst

\* Repeating a call of a tool with idempotentHint, whatever became of the first
\* attempt, does no more than one call could have done; of delete and rename while
\* names are unique (ports.py:233, 286; topology.py:306, 355, 459, 494, 599, 639;
\* config.py:60).
THEOREM RetryAddsNothingAlways == Spec => []RetryAddsNothing
  <1>1. IInv => RetryAddsNothing
    BY HintedAddsNothing DEF IInv, RetryAddsNothing, AddsNothing
  <1>2. Init => IInv
    BY NoConfigSound DEF Init, IInv
  <1> QED
    BY <1>1, <1>2, StepSound, PTL DEF Spec

\* Repeating such a call until it is answered with success leads where it would have
\* led at once, wherever an attempt failed (ports.py:258, 265, 318; topology.py:329, 378).
THEOREM RetryConvergesAlways == Spec => []RetryConverges
  <1>1. IInv => RetryConverges
    BY RestartableConverges DEF IInv, RetryConverges
  <1>2. Init => IInv
    BY NoConfigSound DEF Init, IInv
  <1> QED
    BY <1>1, <1>2, StepSound, PTL DEF Spec

=============================================================================
