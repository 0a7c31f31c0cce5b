------------------------ MODULE ProtocolStacksProofs -------------------------
(***************************************************************************)
(* Theorems about ProtocolStacks, for any set of protocols and any number   *)
(* of stacks.                                                               *)
(*                                                                         *)
(* The invariant is IInv: the tree is well-formed, and nothing stands on a  *)
(* stack that is not the first of its kind under its parent.  The second    *)
(* part is what makes the search for "the first" complete, and it is kept   *)
(* because a new stack is never first if there is one already, and because  *)
(* a stack goes together with all that stands on it.                        *)
(***************************************************************************)
EXTENDS ProtocolStacks, WellFoundedInduction, TLAPS

IInv == StacksTypeOK /\ OnlyFirstGrows

\* The numbers of the Ethernet stacks.
Ethernets == {s.at : s \in {s \in stacks : s.kind = "ethernet"}}

-----------------------------------------------------------------------------

\* A non-empty set of numbers has a least one.
LEMMA LeastNumber ==
  ASSUME NEW T, T \subseteq Nat, T # {}
  PROVE  \E x \in T : \A y \in T : x <= y
<1>1. IsWellFoundedOn(OpToRel(<, Nat), Nat)
  BY NatLessThanWellFounded
<1>2. \E x \in T : \A y \in T : ~ (<<y, x>> \in OpToRel(<, Nat))
  BY <1>1, WFMin, Zenon
<1>3. PICK x \in T : \A y \in T : ~ (<<y, x>> \in OpToRel(<, Nat))
  BY <1>2
<1>4. \A y \in T : <<y, x>> \in OpToRel(<, Nat) <=> y < x
  BY DEF OpToRel
<1>5. \A y \in T : ~ (y < x)
  BY <1>3, <1>4, Zenon
<1> QED
  BY <1>5

\* Among some stacks there is a first one.
LEMMA FirstExists ==
  ASSUME NEW S, S \subseteq Stack, S # {}
  PROVE  First(S) # {}
<1>1. {s.at : s \in S} \subseteq Nat /\ {s.at : s \in S} # {}
  BY DEF Stack, Number
<1>2. PICK x \in {s.at : s \in S} : \A y \in {s.at : s \in S} : x <= y
  BY <1>1, LeastNumber
<1>3. PICK s \in S : s.at = x
  BY <1>2
<1> QED
  BY <1>2, <1>3 DEF First

-----------------------------------------------------------------------------

\* What protocols are stacked on.
LEMMA ParentKinds == \A p \in Protocol : ParentOf[p] \in {"dg", "ethernet", "ipv4", "ipv6"}
  BY ProtocolAssumption DEF ParentOf

\* An empty device group satisfies the invariant.
LEMMA InitInv == Init => IInv
  BY DEF Init, IInv, StacksTypeOK, OnlyFirstGrows, Layers!NoReply

\* The parents of the stacks that stay are themselves among those that stay,
\* and are still the first.
LEMMA DropInv ==
  ASSUME IInv, NEW S \in SUBSET stacks, Drop(S),
         reply' \in [tool : {"remove"}, protocol : Protocol,
                     answer : {"ok", "error"}]
  PROVE  IInv'
<1> DEFINE gone == WithAbove(S)
<1>1. /\ stacks' = stacks \ gone
      /\ configured' = configured \ {s.at : s \in gone}
      /\ vlans' = vlans \ {s.at : s \in gone}
  BY DEF Drop
<1>2. /\ stacks \subseteq Stack
      /\ configured \subseteq {s.at : s \in stacks}
      /\ vlans \subseteq Ethernets
  BY DEF IInv, StacksTypeOK, Ethernets
<1>3. \A s, t \in stacks : s.at = t.at => s = t
  BY DEF IInv, StacksTypeOK
<1>4. \A s \in stacks : s.at \in Nat /\ s.at # 0
  BY <1>2 DEF Stack, Number
<1>5. /\ S \subseteq gone
      /\ \A s, t \in stacks : s.under = t.at /\ t \in S => s \in gone
      /\ \A s, t, u \in stacks : s.under = t.at /\ t.under = u.at /\ u \in S => s \in gone
  BY DEF WithAbove, Above
<1>6. \A t \in gone : \/ t \in S
                      \/ \E u \in S : t.under = u.at
                      \/ \E u \in stacks, v \in S : t.under = u.at /\ u.under = v.at
  BY DEF WithAbove, Above
<1>7. StacksTypeOK'
  <2>1. stacks' \in SUBSET Stack
    BY <1>1, <1>2
  <2>2. \A s, t \in stacks' : s.at = t.at => s = t
    BY <1>1, <1>3
  <2>3. configured' \subseteq {s.at : s \in stacks'}
    <3> SUFFICES ASSUME NEW n \in configured' PROVE n \in {s.at : s \in stacks'}
      OBVIOUS
    <3>1. PICK s \in stacks : s.at = n
      BY <1>1, <1>2
    <3>2. s \notin gone
      BY <1>1, <3>1
    <3> QED
      BY <1>1, <3>1, <3>2
  <2>4. vlans' \subseteq Ethernets'
    <3> SUFFICES ASSUME NEW n \in vlans' PROVE n \in Ethernets'
      OBVIOUS
    <3>1. PICK s \in stacks : s.at = n /\ s.kind = "ethernet"
      BY <1>1, <1>2 DEF Ethernets
    <3>2. s \notin gone
      BY <1>1, <3>1
    <3> QED
      BY <1>1, <3>1, <3>2 DEF Ethernets
  <2>5. (reply \in [tool : {"none", "add", "remove", "configure"},
                    protocol : Protocol \cup {"none"},
                    answer : {"none", "ok", "error", "no parent", "not found", "nothing"}])'
    OBVIOUS
  <2> QED
    BY <2>1, <2>2, <2>3, <2>4, <2>5 DEF StacksTypeOK, Ethernets
<1>8. ASSUME NEW s \in stacks', NEW e \in stacks, s.under = e.at, e.under = 0
      PROVE  e \in stacks'
  BY <1>1, <1>4, <1>5, <1>6, <1>8
<1>9. ASSUME NEW s \in stacks', NEW t \in stacks, NEW e \in stacks,
             s.under = t.at, t.under = e.at, e.under = 0
      PROVE  t \in stacks'
  BY <1>1, <1>3, <1>4, <1>5, <1>6, <1>9
<1>10. ASSUME NEW e \in stacks', e.at \in FirstEthernet
       PROVE  FirstEthernet = {e.at} /\ FirstEthernet' = {e.at}
  BY <1>1, <1>3, <1>4, <1>10 DEF FirstEthernet, First, Under
<1>11. ASSUME NEW s \in stacks', s.under \in FirstEthernet
       PROVE  s.under \in FirstEthernet' /\ FirstEthernet' = FirstEthernet
  <2>1. PICK e \in stacks : e.at = s.under /\ e.under = 0
    BY <1>11 DEF FirstEthernet, First, Under
  <2>2. e \in stacks'
    BY <2>1, <1>8
  <2> QED
    BY <2>1, <2>2, <1>10, <1>11
<1>12. ASSUME NEW k, NEW s \in stacks', s.under \in FirstIp(k)
       PROVE  s.under \in FirstIp(k)'
  <2>1. PICK t \in stacks : /\ t.at = s.under /\ t.kind = k /\ t.under \in FirstEthernet
                            /\ \A u \in Under(k, FirstEthernet) : t.at <= u.at
    BY <1>12 DEF FirstIp, First, Under
  <2>2. PICK e \in stacks : e.at = t.under /\ e.under = 0
    BY <2>1 DEF FirstEthernet, First, Under
  <2>3. t \in stacks'
    BY <2>1, <2>2, <1>9
  <2>4. FirstEthernet' = FirstEthernet
    BY <2>1, <2>3, <1>11
  <2>5. t \in Under(k, FirstEthernet)' /\ Under(k, FirstEthernet)' \subseteq Under(k, FirstEthernet)
    BY <2>1, <2>3, <2>4, <1>1 DEF Under
  <2> QED
    BY <2>1, <2>5 DEF FirstIp, First
<1>13. ASSUME NEW s \in stacks'
       PROVE  (IF ParentOf[s.kind] = "dg" THEN s.under = 0
               ELSE s.under \in ResolveParent(s.kind))'
  <2>1. s \in Stack /\ ParentOf[s.kind] \in {"dg", "ethernet", "ipv4", "ipv6"}
    BY <1>1, <1>2, ParentKinds DEF Stack
  <2>2. IF ParentOf[s.kind] = "dg" THEN s.under = 0
        ELSE s.under \in ResolveParent(s.kind)
    BY <1>1 DEF IInv, OnlyFirstGrows
  <2>3. CASE ParentOf[s.kind] = "dg"
    BY <2>2, <2>3
  <2>4. CASE ParentOf[s.kind] = "ethernet"
    BY <2>2, <2>4, <1>11 DEF ResolveParent
  <2>5. CASE ParentOf[s.kind] = "ipv4"
    BY <2>2, <2>5, <1>12 DEF ResolveParent
  <2>6. CASE ParentOf[s.kind] = "ipv6"
    BY <2>2, <2>6, <1>12 DEF ResolveParent
  <2> QED
    BY <2>1, <2>3, <2>4, <2>5, <2>6
<1> QED
  BY <1>7, <1>13 DEF IInv, OnlyFirstGrows

\* A new stack has the highest number, so that what was first still is.
LEMMA AddInv ==
  ASSUME IInv, NEW p \in Protocol, NEW parent \in ResolveParent(p), NEW n \in Number,
         IsNext(n), stacks' = stacks \cup {[at |-> n, kind |-> p, under |-> parent]},
         UNCHANGED <<configured, vlans>>,
         reply' \in [tool : {"add"}, protocol : Protocol, answer : {"ok", "error"}]
  PROVE  IInv'
<1> DEFINE new == [at |-> n, kind |-> p, under |-> parent]
<1>1. stacks' = stacks \cup {new} /\ new.at = n /\ new.kind = p /\ new.under = parent
  OBVIOUS
<1>2. /\ stacks \subseteq Stack
      /\ configured \subseteq {s.at : s \in stacks}
      /\ vlans \subseteq Ethernets
  BY DEF IInv, StacksTypeOK, Ethernets
<1>3. \A s, t \in stacks : s.at = t.at => s = t
  BY DEF IInv, StacksTypeOK
<1>4. n \in Nat /\ \A s \in stacks : s.at \in Nat /\ s.at < n
  BY <1>2 DEF Stack, Number, IsNext
<1>5. ParentOf[p] \in {"dg", "ethernet", "ipv4", "ipv6"}
  BY ParentKinds
<1>6. parent \in Number \cup {0}
  <2>1. \A S \in SUBSET stacks : First(S) \subseteq Number
    BY <1>2 DEF First, Stack
  <2>2. FirstEthernet \subseteq Number /\ \A k : FirstIp(k) \subseteq Number
    BY <2>1 DEF FirstEthernet, FirstIp, Under
  <2> QED
    BY <2>2, <1>5 DEF ResolveParent
<1>7. StacksTypeOK'
  <2>1. stacks' \in SUBSET Stack
    BY <1>2, <1>6 DEF Stack
  <2>2. \A s, t \in stacks' : s.at = t.at => s = t
    BY <1>1, <1>3, <1>4
  <2>3. configured' \subseteq {s.at : s \in stacks'}
    BY <1>1, <1>2
  <2>4. vlans' \subseteq Ethernets'
    BY <1>1, <1>2 DEF Ethernets
  <2>5. (reply \in [tool : {"none", "add", "remove", "configure"},
                    protocol : Protocol \cup {"none"},
                    answer : {"none", "ok", "error", "no parent", "not found", "nothing"}])'
    OBVIOUS
  <2> QED
    BY <2>1, <2>2, <2>3, <2>4, <2>5 DEF StacksTypeOK, Ethernets
<1>8. ASSUME NEW x \in FirstEthernet
      PROVE  x \in FirstEthernet' /\ FirstEthernet' = FirstEthernet
  BY <1>1, <1>4, <1>8 DEF FirstEthernet, First, Under
<1>9. ASSUME NEW k, NEW x \in FirstIp(k)
      PROVE  x \in FirstIp(k)'
  <2>1. PICK t \in stacks : /\ t.at = x /\ t.kind = k /\ t.under \in FirstEthernet
                            /\ \A u \in Under(k, FirstEthernet) : t.at <= u.at
    BY <1>9 DEF FirstIp, First, Under
  <2>2. FirstEthernet' = FirstEthernet
    BY <2>1, <1>8
  <2>3. t \in Under(k, FirstEthernet)' /\ Under(k, FirstEthernet)' \subseteq Under(k, FirstEthernet) \cup {new}
    BY <2>1, <2>2, <1>1 DEF Under
  <2>4. \A u \in Under(k, FirstEthernet)' : t.at <= u.at
    BY <2>1, <2>3, <1>1, <1>4
  <2> QED
    BY <2>1, <2>3, <2>4 DEF FirstIp, First
<1>10. ASSUME NEW q \in Protocol, NEW x \in ResolveParent(q)
       PROVE  x \in ResolveParent(q)'
  BY <1>8, <1>9, <1>10, ParentKinds DEF ResolveParent
<1>11. ASSUME NEW s \in stacks'
       PROVE  (IF ParentOf[s.kind] = "dg" THEN s.under = 0
               ELSE s.under \in ResolveParent(s.kind))'
  <2>1. CASE s \in stacks
    <3>1. s.kind \in Protocol
      BY <2>1, <1>2 DEF Stack
    <3> QED
      BY <2>1, <3>1, <1>10 DEF IInv, OnlyFirstGrows
  <2>2. CASE s = new
    <3>1. CASE ParentOf[p] = "dg"
      BY <2>2, <3>1 DEF ResolveParent
    <3>2. CASE ParentOf[p] # "dg"
      BY <2>2, <3>2, <1>10
    <3> QED
      BY <3>1, <3>2
  <2> QED
    BY <1>1, <2>1, <2>2
<1> QED
  BY <1>7, <1>11 DEF IInv, OnlyFirstGrows

\* No stack comes, goes or moves.
LEMMA SameStacksInv ==
  ASSUME IInv, UNCHANGED stacks, configured' \subseteq {s.at : s \in stacks},
         vlans' \subseteq Ethernets,
         reply' \in [tool : {"none", "add", "remove", "configure"},
                     protocol : Protocol \cup {"none"},
                     answer : {"none", "ok", "error", "no parent", "not found", "nothing"}]
  PROVE  IInv'
<1>1. StacksTypeOK'
  BY DEF IInv, StacksTypeOK, Ethernets
<1>2. OnlyFirstGrows'
  <2>1. FirstEthernet' = FirstEthernet
    BY DEF FirstEthernet, First, Under
  <2>2. \A k : FirstIp(k)' = FirstIp(k)
    BY <2>1 DEF FirstIp, First, Under
  <2>3. \A q \in Protocol : ResolveParent(q)' = ResolveParent(q)
    BY <2>1, <2>2, ParentKinds DEF ResolveParent
  <2>4. \A s \in stacks : s.kind \in Protocol
    BY DEF IInv, StacksTypeOK, Stack
  <2> QED
    BY <2>3, <2>4 DEF IInv, OnlyFirstGrows
<1> QED
  BY <1>1, <1>2 DEF IInv

\* Every tool keeps it.
LEMMA StepInv == IInv /\ [Next]_vars => IInv'
<1> SUFFICES ASSUME IInv, [Next]_vars PROVE IInv'
  OBVIOUS
<1> USE DEF Layers!Answered
<1>1. configured \subseteq {s.at : s \in stacks} /\ vlans \subseteq Ethernets
  BY DEF IInv, StacksTypeOK, Ethernets
<1>2. ASSUME NEW tool \in {"add", "remove", "configure"}, NEW p \in Protocol, Fails(tool, p)
      PROVE  IInv'
  BY <1>1, <1>2, SameStacksInv DEF Fails
<1>3. ASSUME NEW p \in Protocol, AddProtocol(p)
      PROVE  IInv'
  <2>1. CASE Fails("add", p)
    BY <2>1, <1>2
  <2>2. CASE Layers!Answered("add", p, "no parent") /\ UNCHANGED <<stacks, configured, vlans>>
    BY <2>2, <1>1, SameStacksInv
  <2>3. ASSUME NEW parent \in ResolveParent(p), NEW n \in Number, IsNext(n),
               stacks' = stacks \cup {[at |-> n, kind |-> p, under |-> parent]},
               Layers!Answered("add", p, "ok") \/ Layers!Answered("add", p, "error"),
               UNCHANGED <<configured, vlans>>
        PROVE  IInv'
    <3>1. reply' \in [tool : {"add"}, protocol : Protocol, answer : {"ok", "error"}]
      BY <2>3
    <3> QED
      BY <2>3, <3>1, AddInv
  <2> QED
    BY <1>3, <2>1, <2>2, <2>3 DEF AddProtocol
<1>4. ASSUME NEW p \in Protocol, RemoveProtocol(p)
      PROVE  IInv'
  <2>1. FoundForRemoval(p) \in SUBSET stacks
    BY DEF FoundForRemoval, Under
  <2>2. CASE Fails("remove", p)
    BY <2>2, <1>2
  <2>3. CASE Layers!Answered("remove", p, "not found") /\ UNCHANGED <<stacks, configured, vlans>>
    BY <2>3, <1>1, SameStacksInv
  <2>4. ASSUME NEW S \in SUBSET stacks, Drop(S),
               Layers!Answered("remove", p, "ok") \/ Layers!Answered("remove", p, "error")
        PROVE  IInv'
    <3>1. reply' \in [tool : {"remove"}, protocol : Protocol, answer : {"ok", "error"}]
      BY <2>4
    <3> QED
      BY <2>4, <3>1, DropInv
  <2> QED
    BY <1>4, <2>1, <2>2, <2>3, <2>4 DEF RemoveProtocol
<1>5. ASSUME NEW p \in Protocol, Configure(p)
      PROVE  IInv'
  <2>1. FoundToConfigure(p) \subseteq {s.at : s \in stacks}
    BY DEF FoundToConfigure, First, Under
  <2>2. UNCHANGED <<stacks, vlans>> /\ configured' \subseteq {s.at : s \in stacks}
    BY <1>1, <1>5, <2>1 DEF Configure, Fails, NothingFound
  <2>3. reply' \in [tool : {"configure"}, protocol : Protocol,
                    answer : {"ok", "error", "not found", "nothing"}]
    <3>1. PICK a \in {"ok", "error", "not found", "nothing"} :
            reply' = [tool |-> "configure", protocol |-> p, answer |-> a]
      BY <1>5 DEF Configure, Fails, NothingFound
    <3> QED
      BY <3>1
  <2> QED
    BY <1>1, <2>2, <2>3, SameStacksInv
<1>6. ASSUME "ethernet" \in Protocol,
             NEW fields \in SUBSET EthernetField, NEW enabled \in VlanEnabled,
             ConfigureEthernet(fields, enabled)
      PROVE  IInv'
  <2> DEFINE eth == FoundToConfigure("ethernet")
  <2>1. eth \subseteq Ethernets /\ Ethernets \subseteq {s.at : s \in stacks}
    BY DEF FoundToConfigure, First, Under, Ethernets
  <2>2. UNCHANGED stacks
    BY <1>6 DEF ConfigureEthernet, Fails, NothingFound
  <2>3. /\ configured' \subseteq {s.at : s \in stacks}
        /\ vlans' \subseteq Ethernets
    <3>1. CASE Fails("configure", "ethernet") \/ NothingFound("ethernet")
      BY <1>1, <3>1 DEF Fails, NothingFound
    <3>2. CASE EthernetWritten(eth, fields, enabled) \/ EthernetInterrupted(eth, fields, enabled)
      <4>1. VlansSwitched(eth, enabled) \subseteq vlans \cup eth
        BY DEF VlansSwitched, VlanEnabled
      <4>2. VlansTagged(eth, fields, enabled) \subseteq vlans \cup eth
        BY <4>1 DEF VlansTagged
      <4>3. \A f : Settings(eth, f) \subseteq configured \cup eth
        BY DEF Settings
      <4>4. vlans' \subseteq vlans \cup eth /\ configured' \subseteq configured \cup eth
        BY <3>2, <4>1, <4>2, <4>3 DEF EthernetWritten, EthernetInterrupted
      <4> QED
        BY <1>1, <2>1, <4>4
    <3> QED
      BY <1>6, <3>1, <3>2 DEF ConfigureEthernet
  <2>4. reply' \in [tool : {"configure"}, protocol : Protocol,
                    answer : {"ok", "error", "not found", "nothing"}]
    <3>1. PICK a \in {"ok", "error", "not found", "nothing"} :
            reply' = [tool |-> "configure", protocol |-> "ethernet", answer |-> a]
      BY <1>6 DEF ConfigureEthernet, EthernetWritten, EthernetInterrupted, Fails, NothingFound
    <3> QED
      BY <1>6, <3>1
  <2> QED
    BY <2>2, <2>3, <2>4, SameStacksInv
<1>7. CASE UNCHANGED vars
  <2>1. reply' \in [tool : {"none", "add", "remove", "configure"},
                    protocol : Protocol \cup {"none"},
                    answer : {"none", "ok", "error", "no parent", "not found", "nothing"}]
    BY <1>7 DEF IInv, StacksTypeOK, vars
  <2> QED
    BY <1>1, <1>7, <2>1, SameStacksInv DEF vars
<1> QED
  BY <1>3, <1>4, <1>5, <1>6, <1>7 DEF Next, Configurable

\* IInv in every reachable state.
LEMMA Inductive == Spec => []IInv
<1> QED
  BY InitInv, StepInv, PTL DEF Spec

\* The tree is well-formed, and settings are kept of existing stacks only.
THEOREM StacksTyped == Spec => []StacksTypeOK
<1>1. IInv => StacksTypeOK
  BY DEF IInv
<1> QED
  BY Inductive, <1>1, PTL

\* Every stack stands where the tools look for it, for any protocols and any
\* number of stacks.
THEOREM StacksReachable == Spec => []OnlyFirstGrows
<1>1. IInv => OnlyFirstGrows
  BY DEF IInv
<1> QED
  BY Inductive, <1>1, PTL

-----------------------------------------------------------------------------
(* ProtocolStacks implements ProtocolLayers.                                *)

Kinds == {s.kind : s \in stacks}
OfKind(k) == {s \in stacks : s.kind = k}

\* Both modules have the same protocol map.
LEMMA SameParents == Layers!ParentOf = ParentOf
  BY DEF Layers!ParentOf, ParentOf

\* Ethernet alone stands on the device group (_PROTOCOL_MAP, protocols.py).
LEMMA OnlyEthernet ==
  /\ \A p \in Protocol : ParentOf[p] = "dg" <=> p = "ethernet"
  /\ ParentOf["ethernet"] = "dg"
  /\ ParentOf["ipv4"] = "ethernet"
  /\ ParentOf["ipv6"] = "ethernet"
  /\ "dg" \notin Protocol
  BY ProtocolAssumption DEF ParentOf

\* What the tools look for first is a stack of the kind they look for.
LEMMA FirstKinds ==
  /\ \A x \in FirstEthernet : \E t \in stacks : t.at = x /\ t.kind = "ethernet"
  /\ \A k : \A x \in FirstIp(k) : \E t \in stacks : t.at = x /\ t.kind = k
  BY DEF FirstEthernet, FirstIp, First, Under

\* A stack other than an Ethernet stands on a stack of the kind it should.
LEMMA Rooted ==
  ASSUME IInv, NEW s \in stacks
  PROVE  IF s.kind = "ethernet" THEN s.under = 0
         ELSE \E t \in stacks : t.at = s.under /\ t.kind = ParentOf[s.kind]
<1>1. s.kind \in Protocol
  BY DEF IInv, StacksTypeOK, Stack
<1>2. IF ParentOf[s.kind] = "dg" THEN s.under = 0 ELSE s.under \in ResolveParent(s.kind)
  BY DEF IInv, OnlyFirstGrows
<1>3. CASE s.kind = "ethernet"
  BY <1>2, <1>3, OnlyEthernet
<1>4. CASE s.kind # "ethernet"
  <2>1. s.under \in ResolveParent(s.kind) /\ ParentOf[s.kind] \in {"ethernet", "ipv4", "ipv6"}
    BY <1>1, <1>2, <1>4, OnlyEthernet, ParentKinds
  <2> QED
    BY <1>4, <2>1, FirstKinds DEF ResolveParent
<1> QED
  BY <1>3, <1>4

\* Where a protocol is looked for is where all its stacks are.
LEMMA AllFound ==
  ASSUME IInv, NEW k \in Protocol
  PROVE  Under(k, ResolveParent(k)) = OfKind(k)
<1>1. \A s \in stacks : s.kind = k => s.under \in ResolveParent(k)
  BY DEF IInv, OnlyFirstGrows, ResolveParent
<1> QED
  BY <1>1 DEF Under, OfKind

\* There is something to stand on when the parent protocol is there.
LEMMA ParentThere ==
  ASSUME IInv, NEW p \in Protocol
  PROVE  ResolveParent(p) # {} <=> ParentOf[p] \in Kinds \cup {"dg"}
<1>1. stacks \subseteq Stack
  BY DEF IInv, StacksTypeOK
<1>2. \A k \in Protocol : OfKind(k) # {} => First(Under(k, ResolveParent(k))) # {}
  BY <1>1, AllFound, FirstExists DEF OfKind
<1>3. ParentOf[p] \in Protocol \cup {"dg"} /\ ParentOf[p] \in {"dg", "ethernet", "ipv4", "ipv6"}
  BY ProtocolAssumption, ParentKinds
<1>4. CASE ParentOf[p] = "dg"
  BY <1>4 DEF ResolveParent
<1>5. CASE ParentOf[p] = "ethernet"
  <2>1. "ethernet" \in Protocol /\ ResolveParent("ethernet") = {0}
    BY <1>3, <1>5, OnlyEthernet DEF ResolveParent
  <2>2. OfKind("ethernet") # {} => FirstEthernet # {}
    BY <1>2, <2>1 DEF FirstEthernet
  <2>3. FirstEthernet # {} => OfKind("ethernet") # {}
    BY FirstKinds DEF OfKind
  <2>4. ResolveParent(p) = FirstEthernet
    BY <1>5 DEF ResolveParent
  <2> QED
    BY <1>5, <2>2, <2>3, <2>4 DEF OfKind, Kinds
<1>6. ASSUME NEW k \in {"ipv4", "ipv6"}, ParentOf[p] = k
      PROVE  ResolveParent(p) # {} <=> ParentOf[p] \in Kinds \cup {"dg"}
  <2>1. k \in Protocol /\ ResolveParent(k) = FirstEthernet
    BY <1>3, <1>6, OnlyEthernet DEF ResolveParent
  <2>2. OfKind(k) # {} => FirstIp(k) # {}
    BY <1>2, <2>1 DEF FirstIp
  <2>3. FirstIp(k) # {} => OfKind(k) # {}
    BY FirstKinds DEF OfKind
  <2>4. ResolveParent(p) = FirstIp(k)
    BY <1>6 DEF ResolveParent
  <2> QED
    BY <1>6, <2>2, <2>3, <2>4 DEF OfKind, Kinds
<1> QED
  BY <1>3, <1>4, <1>5, <1>6

\* The removal finds every stack of the protocol.
LEMMA AllRemoved ==
  ASSUME IInv, NEW p \in Protocol
  PROVE  FoundForRemoval(p) = OfKind(p)
<1>1. \A s, t \in stacks : s.at = t.at => s = t
  BY DEF IInv, StacksTypeOK
<1>2. Under(p, ResolveParent(p)) = OfKind(p)
  BY AllFound
<1>3. \A P : Under(p, P) \subseteq OfKind(p)
  BY DEF Under, OfKind
<1>4. ASSUME NEW k, NEW P, \A x \in P : \E t \in stacks : t.at = x /\ t.kind = k,
             k # ParentOf[p], p # "ethernet"
      PROVE  Under(p, P) = {}
  BY <1>1, <1>4, Rooted DEF Under
<1>5. CASE ParentOf[p] = "dg"
  BY <1>2, <1>5, OnlyEthernet DEF FoundForRemoval, ResolveParent
<1>6. CASE ParentOf[p] = "ethernet"
  <2>1. p # "ethernet" /\ ResolveParent(p) = FirstEthernet
    BY <1>6, OnlyEthernet DEF ResolveParent
  <2> QED
    BY <1>2, <1>3, <2>1 DEF FoundForRemoval
<1>7. CASE ParentOf[p] = "ipv4"
  <2>1. p # "ethernet" /\ ResolveParent(p) = FirstIp("ipv4")
    BY <1>7, OnlyEthernet DEF ResolveParent
  <2>2. Under(p, FirstEthernet) = {}
    BY <1>4, <1>7, <2>1, FirstKinds
  <2> QED
    BY <1>2, <1>3, <2>1, <2>2 DEF FoundForRemoval
<1>8. CASE ParentOf[p] = "ipv6"
  <2>1. p # "ethernet" /\ ResolveParent(p) = FirstIp("ipv6")
    BY <1>8, OnlyEthernet DEF ResolveParent
  <2>2. Under(p, FirstEthernet) = {}
    BY <1>4, <1>8, <2>1, FirstKinds
  <2>3. Under(p, FirstIp("ipv4")) = {}
    <3>1. \A x \in FirstIp("ipv4") : \E t \in stacks : t.at = x /\ t.kind = "ipv4"
      BY FirstKinds
    <3> QED
      BY <1>4, <1>8, <2>1, <3>1
  <2> QED
    BY <1>2, <2>1, <2>2, <2>3 DEF FoundForRemoval
<1> QED
  BY <1>5, <1>6, <1>7, <1>8, ParentKinds

\* What a removal takes away, as a set of protocols.
LEMMA DropKinds ==
  ASSUME IInv, NEW p \in Protocol, NEW S \in SUBSET OfKind(p), Drop(S)
  PROVE  /\ Kinds \ Layers!Above(p) \subseteq Kinds'
         /\ Kinds' \subseteq Kinds
         /\ S = OfKind(p) => Kinds' = Kinds \ Layers!Above(p)
<1>1. stacks' = stacks \ WithAbove(S)
  BY DEF Drop
<1>2. \A s, t \in stacks : s.at = t.at => s = t
  BY DEF IInv, StacksTypeOK
<1>3. \A s \in stacks : s.kind \in Protocol /\ s.at # 0
  <2>1. stacks \subseteq Stack
    BY DEF IInv, StacksTypeOK
  <2> QED
    BY <2>1 DEF Stack, Number
<1>4. \A q : q \in Layers!Above(p) <=>
             q \in Protocol /\ \/ q = p
                               \/ ParentOf[q] = p
                               \/ ParentOf[q] # "dg" /\ ParentOf[ParentOf[q]] = p
  BY SameParents DEF Layers!Above
<1>5. ASSUME NEW s \in stacks, NEW t \in stacks, s.under = t.at
      PROVE  s.kind # "ethernet" /\ t.kind = ParentOf[s.kind]
  BY <1>2, <1>3, <1>5, Rooted
<1>6. ASSUME NEW s \in stacks, s \in WithAbove(S)
      PROVE  s.kind \in Layers!Above(p)
  <2>1. CASE s \in S
    BY <1>3, <1>4, <2>1 DEF OfKind
  <2>2. ASSUME NEW t \in S, s.under = t.at
        PROVE  s.kind \in Layers!Above(p)
    BY <1>3, <1>4, <1>5, <2>2 DEF OfKind
  <2>3. ASSUME NEW t \in stacks, NEW u \in S, s.under = t.at, t.under = u.at
        PROVE  s.kind \in Layers!Above(p)
    <3>1. t.kind = ParentOf[s.kind] /\ u.kind = ParentOf[t.kind] /\ u.kind = p /\ s.kind # "ethernet"
      BY <1>5, <2>3 DEF OfKind
    <3> QED
      BY <1>3, <1>4, <3>1, OnlyEthernet
  <2> QED
    BY <1>6, <2>1, <2>2, <2>3 DEF WithAbove, Above
<1>7. ASSUME NEW s \in stacks, s.kind \in Layers!Above(p), S = OfKind(p)
      PROVE  s \in WithAbove(S)
  <2>1. CASE s.kind = p
    BY <1>7, <2>1 DEF WithAbove, OfKind
  <2>2. CASE s.kind # "ethernet" /\ ParentOf[s.kind] = p
    <3>1. PICK t \in stacks : t.at = s.under /\ t.kind = p
      BY <2>2, Rooted
    <3> QED
      BY <1>7, <3>1 DEF WithAbove, Above, OfKind
  <2>3. CASE s.kind # "ethernet" /\ ParentOf[ParentOf[s.kind]] = p
    <3>1. PICK t \in stacks : t.at = s.under /\ t.kind = ParentOf[s.kind]
      BY <2>3, Rooted
    <3>2. t.kind # "ethernet"
      BY <1>3, <2>3, <3>1, OnlyEthernet
    <3>3. PICK u \in stacks : u.at = t.under /\ u.kind = p
      BY <2>3, <3>1, <3>2, Rooted
    <3> QED
      BY <1>7, <3>1, <3>3 DEF WithAbove, Above, OfKind
  <2> QED
    BY <1>3, <1>4, <1>7, <2>1, <2>2, <2>3, OnlyEthernet
<1> QED
  BY <1>1, <1>3, <1>6, <1>7 DEF Kinds

\* Every step of the tools on the tree is a step on the set of protocols.
LEMMA StepLayers ==
  IInv /\ [Next]_vars => [Layers!LayersNext]_<<Kinds, reply>>
<1> SUFFICES ASSUME IInv, [Next]_vars PROVE [Layers!LayersNext]_<<Kinds, reply>>
  OBVIOUS
<1>1. UNCHANGED stacks => UNCHANGED Kinds
  BY DEF Kinds
<1>2. \A p \in Protocol : ResolveParent(p) # {} <=> Layers!HasParent(p)
  BY ParentThere, SameParents DEF Layers!HasParent, Kinds
<1>3. \A p \in Protocol : OfKind(p) # {} <=> p \in Kinds
  BY DEF OfKind, Kinds
<1>4. \A p \in Protocol : FoundToConfigure(p) # {} <=> p \in Kinds
  <2> SUFFICES ASSUME NEW p \in Protocol PROVE FoundToConfigure(p) # {} <=> p \in Kinds
    OBVIOUS
  <2>1. OfKind(p) \subseteq Stack
    BY DEF IInv, StacksTypeOK, OfKind
  <2>2. FoundToConfigure(p) # {} <=> OfKind(p) # {}
    BY <2>1, AllFound, FirstExists DEF FoundToConfigure, First
  <2> QED
    BY <1>3, <2>2
<1>5. ASSUME NEW p \in Protocol, AddProtocol(p)
      PROVE  Layers!AddLayer(p)
  <2>1. CASE Fails("add", p)
    BY <1>1, <2>1 DEF Fails, Layers!AddLayer, Kinds
  <2>2. CASE /\ ResolveParent(p) = {}
             /\ Layers!Answered("add", p, "no parent")
             /\ UNCHANGED <<stacks, configured, vlans>>
    BY <1>1, <1>2, <2>2 DEF Layers!AddLayer, Kinds
  <2>3. ASSUME NEW parent \in ResolveParent(p), NEW n \in Number,
               stacks' = stacks \cup {[at |-> n, kind |-> p, under |-> parent]},
               Layers!Answered("add", p, "ok") \/ Layers!Answered("add", p, "error")
        PROVE  Layers!AddLayer(p)
    <3> DEFINE new == [at |-> n, kind |-> p, under |-> parent]
    <3>1. Kinds' = Kinds \cup {p}
      <4>1. stacks' = stacks \cup {new} /\ new.kind = p
        BY <2>3
      <4> HIDE DEF new
      <4> QED
        BY <4>1 DEF Kinds
    <3>2. Layers!HasParent(p)
      BY <1>2
    <3> QED
      BY <2>3, <3>1, <3>2 DEF Layers!AddLayer, Kinds
  <2> QED
    BY <1>5, <2>1, <2>2, <2>3 DEF AddProtocol
<1>6. ASSUME NEW p \in Protocol, RemoveProtocol(p)
      PROVE  Layers!RemoveLayer(p)
  <2>1. FoundForRemoval(p) = OfKind(p)
    BY AllRemoved
  <2>2. CASE Fails("remove", p)
    BY <1>1, <2>2 DEF Fails, Layers!RemoveLayer, Kinds
  <2>3. CASE /\ FoundForRemoval(p) = {}
             /\ Layers!Answered("remove", p, "not found")
             /\ UNCHANGED <<stacks, configured, vlans>>
    BY <1>1, <1>3, <2>1, <2>3 DEF Layers!RemoveLayer, Kinds
  <2>4. CASE /\ FoundForRemoval(p) # {}
             /\ Drop(FoundForRemoval(p))
             /\ Layers!Answered("remove", p, "ok")
    <3>1. Kinds' = Kinds \ Layers!Above(p) /\ p \in Kinds
      BY <1>3, <2>1, <2>4, DropKinds
    <3> QED
      BY <2>4, <3>1 DEF Layers!RemoveLayer, Kinds
  <2>5. ASSUME NEW n \in Number,
               Drop({s \in FoundForRemoval(p) : s.at <= n}),
               Layers!Answered("remove", p, "error")
        PROVE  Layers!RemoveLayer(p)
    <3>1. Kinds \ Layers!Above(p) \subseteq Kinds' /\ Kinds' \subseteq Kinds
      BY <2>1, <2>5, DropKinds
    <3> QED
      BY <2>5, <3>1 DEF Layers!RemoveLayer, Kinds
  <2> QED
    BY <1>6, <2>2, <2>3, <2>4, <2>5 DEF RemoveProtocol
<1>7. ASSUME NEW p \in Protocol, Configure(p)
      PROVE  Layers!ConfigureLayer(p)
  <2>1. UNCHANGED stacks
    BY <1>7 DEF Configure, Fails, NothingFound
  <2>2. UNCHANGED Kinds
    BY <1>1, <2>1
  <2> QED
    BY <1>4, <1>7, <2>2 DEF Configure, Fails, NothingFound, Layers!ConfigureLayer, Kinds
<1>8. ASSUME "ethernet" \in Protocol,
             NEW fields \in SUBSET EthernetField, NEW enabled \in VlanEnabled,
             ConfigureEthernet(fields, enabled)
      PROVE  Layers!ConfigureLayer("ethernet")
  <2>1. UNCHANGED Kinds
    BY <1>1, <1>8 DEF ConfigureEthernet, Fails, NothingFound
  <2>2. CASE Fails("configure", "ethernet") \/ NothingFound("ethernet")
    BY <1>4, <1>8, <2>1, <2>2 DEF Fails, NothingFound, Layers!ConfigureLayer, Kinds
  <2>3. ASSUME FoundToConfigure("ethernet") # {},
               NEW a \in {"ok", "nothing", "error"}, Layers!Answered("configure", "ethernet", a)
        PROVE  Layers!ConfigureLayer("ethernet")
    BY <1>4, <1>8, <2>1, <2>3 DEF Layers!ConfigureLayer, Kinds
  <2> QED
    BY <1>8, <2>2, <2>3 DEF ConfigureEthernet, EthernetWritten, EthernetInterrupted
<1>9. CASE UNCHANGED vars
  BY <1>1, <1>9 DEF vars
<1> QED
  BY <1>5, <1>6, <1>7, <1>8, <1>9 DEF Next, Configurable, Layers!LayersNext

\* The tools treat the tree as the set of its protocols: whatever duplicates
\* repeated adds leave in it, add, remove and configure answer and act as they
\* would on that set, for any protocols and any number of stacks.
THEOREM StacksImplementLayers == Spec => ImplementsLayers
<1>1. Init => Layers!LayersInit
  BY DEF Init, Layers!LayersInit
<1>2. IInv /\ [Next]_vars => [Layers!LayersNext]_<<{s.kind : s \in stacks}, reply>>
  BY StepLayers DEF Kinds
<1> QED
  BY Inductive, <1>1, <1>2, PTL DEF Spec, ImplementsLayers, Layers!LayersSpec

=============================================================================
