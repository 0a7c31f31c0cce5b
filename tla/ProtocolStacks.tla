--------------------------- MODULE ProtocolStacks ----------------------------
(***************************************************************************)
(* The protocol stacks of one device group, as the tools of                 *)
(* src/ixia_mcp/tools/protocols.py build, change and remove them in the     *)
(* IxNetwork session.  A tool call holds the connection's lock, so that a   *)
(* call is one step; any of its REST calls may raise, before or after it    *)
(* took effect, and what was done until then stays.                         *)
(***************************************************************************)
EXTENDS ProtocolMap

CONSTANT MaxStacks  \* bound: stacks are numbered 1 .. MaxStacks

VARIABLES
  stacks,      \* the stacks of the device group
  configured,  \* stacks (their numbers) with settings from a configure tool
  vlans,       \* Ethernet stacks (their numbers) whose EnableVlans is true
  reply        \* the tool call answered last, with its answer

vars == <<stacks, configured, vlans, reply>>

\* find() returns stacks in the order they were added, the order of `at`; under:
\* the number of the parent stack, 0 for the device group.
Number == 1 .. MaxStacks
Stack == [at : Number, kind : Protocol, under : Number \cup {0}]

Layers == INSTANCE ProtocolLayers WITH layers <- {s.kind : s \in stacks}

ASSUME StacksAssumption == MaxStacks \in Nat

\* The protocols of ixia_configure_ipv4, _ipv6 and _bgp.
Configurable == Protocol \cap {"ipv4", "ipv6", "bgpv4", "bgpv6"}

\* What a call of ixia_configure_ethernet may give besides vlan_enabled: MAC or
\* MTU, and the two settings of a VLAN object.
Tag == {"id", "priority"}
EthernetField == {"plain"} \cup Tag
VlanEnabled == {"on", "off", "omitted"}

StacksTypeOK ==
  /\ stacks \in SUBSET Stack
  /\ \A s, t \in stacks : s.at = t.at => s = t
  /\ configured \subseteq {s.at : s \in stacks}
  /\ vlans \subseteq {s.at : s \in {s \in stacks : s.kind = "ethernet"}}
  /\ reply \in [tool : {"none", "add", "remove", "configure"},
                protocol : Protocol \cup {"none"},
                answer : {"none", "ok", "error", "no parent", "not found", "nothing"}]

Init ==
  /\ stacks = {}
  /\ configured = {}
  /\ vlans = {}
  /\ reply = Layers!NoReply

-----------------------------------------------------------------------------
(* Walking the tree.                                                        *)

\* parent.Kind.find(), for the stacks `parents` (their numbers)
Under(k, parents) == {s \in stacks : s.kind = k /\ s.under \in parents}

\* Mutant: the last of the parents, as if the newest stack were found first.
FirstIsLast(S) == {s.at : s \in {s \in S : \A t \in S : s.at >= t.at}}

\* [0]
First(S) == {s.at : s \in {s \in S : \A t \in S : s.at <= t.at}}

\* The first stack of kind k, down the chain device group, Ethernet, Ipv4 or
\* Ipv6; the empty set if there is none.
FirstEthernet == First(Under("ethernet", {0}))
FirstIp(k) == First(Under(k, FirstEthernet))

\* _resolve_parent
ResolveParent(p) ==
  CASE ParentOf[p] = "dg"       -> {0}
    [] ParentOf[p] = "ethernet" -> FirstEthernet
    [] ParentOf[p] = "ipv4"     -> FirstIp("ipv4")
    [] ParentOf[p] = "ipv6"     -> FirstIp("ipv6")

\* Mutant: the search ends at Ipv4 when there is one.
FoundForRemovalNoIpv6(p) ==
  LET on == Under(p, IF p = "ethernet" THEN {0} ELSE FirstEthernet)
      on4 == Under(p, FirstIp("ipv4"))
      on6 == Under(p, FirstIp("ipv6"))
  IN  IF on # {} THEN on ELSE IF FirstIp("ipv4") # {} THEN on4 ELSE on6

\* What ixia_remove_protocol looks up: on the device group or on the first
\* Ethernet, else on its first Ipv4, else on its first Ipv6.
FoundForRemoval(p) ==
  LET on == Under(p, IF p = "ethernet" THEN {0} ELSE FirstEthernet)
      on4 == Under(p, FirstIp("ipv4"))
      on6 == Under(p, FirstIp("ipv6"))
  IN  IF on # {} \/ p = "ethernet" THEN on ELSE IF on4 # {} THEN on4 ELSE on6

\* Mutant: the last find() is forgotten.
FoundToConfigureParent(p) == ResolveParent(p)

\* What the configure tools change.
FoundToConfigure(p) == First(Under(p, ResolveParent(p)))

\* remove() takes away the stacks S with all that stand on them.
Above(S) == {t \in stacks : t.under \in {s.at : s \in S}}
WithAbove(S) == S \cup Above(S) \cup Above(Above(S))

-----------------------------------------------------------------------------

\* A lookup, get() or a REST call without effect raised, or the topology or the
\* device group does not exist.
Fails(tool, p) ==
  /\ Layers!Answered(tool, p, "error")
  /\ UNCHANGED <<stacks, configured, vlans>>

\* The least number above those of all stacks.
IsNext(n) ==
  /\ \A s \in stacks : s.at < n
  /\ n = 1 \/ \E s \in stacks : s.at = n - 1

\* ixia_add_protocol: a new stack, always, on the first of its parents.
AddProtocol(p) ==
  \/ Fails("add", p)
  \/ /\ ResolveParent(p) = {}
     /\ Layers!Answered("add", p, "no parent")
     /\ UNCHANGED <<stacks, configured, vlans>>
  \/ /\ \E parent \in ResolveParent(p), n \in Number :
          /\ IsNext(n)
          /\ stacks' = stacks \cup {[at |-> n, kind |-> p, under |-> parent]}
     /\ Layers!Answered("add", p, "ok") \/ Layers!Answered("add", p, "error")
     /\ UNCHANGED <<configured, vlans>>

\* The stacks S and those above them go.
Drop(S) ==
  LET gone == {s.at : s \in WithAbove(S)} IN
  /\ stacks' = stacks \ WithAbove(S)
  /\ configured' = configured \ gone
  /\ vlans' = vlans \ gone

\* ixia_remove_protocol: every stack found, one after the other.
RemoveProtocol(p) ==
  \/ Fails("remove", p)
  \/ /\ FoundForRemoval(p) = {}
     /\ Layers!Answered("remove", p, "not found")
     /\ UNCHANGED <<stacks, configured, vlans>>
  \/ /\ FoundForRemoval(p) # {}
     /\ Drop(FoundForRemoval(p))
     /\ Layers!Answered("remove", p, "ok")
  \/ \E n \in Number :
       /\ Drop({s \in FoundForRemoval(p) : s.at <= n})
       /\ Layers!Answered("remove", p, "error")

-----------------------------------------------------------------------------
(* ixia_configure_ipv4, _ipv6, _bgp and _ethernet.                          *)

\* There is no stack to configure.
NothingFound(p) ==
  /\ FoundToConfigure(p) = {}
  /\ Layers!Answered("configure", p, "not found")
  /\ UNCHANGED <<stacks, configured, vlans>>

\* ixia_configure_ipv4, _ipv6, _bgp: the fields given are set one after the
\* other; with none given nothing is.
Configure(p) ==
  \/ Fails("configure", p)
  \/ NothingFound(p)
  \/ /\ FoundToConfigure(p) # {}
     /\ Layers!Answered("configure", p, "nothing")
     /\ UNCHANGED <<stacks, configured, vlans>>
  \/ /\ FoundToConfigure(p) # {}
     /\ configured' = configured \cup FoundToConfigure(p)
     /\ Layers!Answered("configure", p, "ok") \/ Layers!Answered("configure", p, "error")
     /\ UNCHANGED <<stacks, vlans>>

\* EnableVlans of the stack `eth` once vlan_enabled is written, and once the
\* tags are, each of which writes True.
VlansSwitched(eth, enabled) ==
  CASE enabled = "on"      -> vlans \cup eth
    [] enabled = "off"     -> vlans \ eth
    [] enabled = "omitted" -> vlans
VlansTagged(eth, fields, enabled) ==
  IF fields \cap Tag # {} THEN vlans \cup eth ELSE VlansSwitched(eth, enabled)

\* The other settings of `eth`, when those of `fields` have been written.
Settings(eth, fields) == IF fields = {} THEN configured ELSE configured \cup eth

\* "No changes specified.": no line was appended to `changes`.  Without a VLAN
\* object a priority appends a warning and an id nothing.
NoChanges(fields, enabled, able) ==
  enabled = "omitted" /\ fields \subseteq (IF able = {} THEN {"id"} ELSE {})

\* All fields are written, the tags if `eth` has a VLAN object.
EthernetWritten(eth, fields, enabled) ==
  \E able \in {{}, Tag} :
    /\ vlans' = VlansTagged(eth, fields, enabled)
    /\ configured' = Settings(eth, fields \cap ({"plain"} \cup able))
    /\ Layers!Answered("configure", "ethernet",
                       IF NoChanges(fields, enabled, able) THEN "nothing" ELSE "ok")

\* A call raises: while MAC and MTU are written; after vlan_enabled is; after
\* EnableVlans is written for a tag, with or without the tag itself.
EthernetInterrupted(eth, fields, enabled) ==
  /\ \/ /\ vlans' \in {vlans, VlansSwitched(eth, enabled)}
        /\ configured' = Settings(eth, fields \cap {"plain"})
     \/ /\ vlans' = VlansTagged(eth, fields, enabled)
        /\ configured' \in {Settings(eth, fields \cap {"plain"}), Settings(eth, fields)}
  /\ Layers!Answered("configure", "ethernet", "error")

\* ixia_configure_ethernet: MAC and MTU, vlan_enabled, then for each tag
\* EnableVlans and the tag itself.
ConfigureEthernet(fields, enabled) ==
  \/ Fails("configure", "ethernet")
  \/ NothingFound("ethernet")
  \/ LET eth == FoundToConfigure("ethernet")
     IN  /\ eth # {}
         /\ UNCHANGED stacks
         /\ EthernetWritten(eth, fields, enabled) \/ EthernetInterrupted(eth, fields, enabled)

-----------------------------------------------------------------------------

Next ==
  \/ \E p \in Protocol : AddProtocol(p) \/ RemoveProtocol(p)
  \/ \E p \in Configurable : Configure(p)
  \/ /\ "ethernet" \in Protocol
     /\ \E fields \in SUBSET EthernetField, enabled \in VlanEnabled :
          ConfigureEthernet(fields, enabled)

Spec == Init /\ [][Next]_vars

-----------------------------------------------------------------------------
(* Properties.                                                              *)

\* Every stack but the lowest stands on the first stack of its parent's kind, the
\* only one the tools ever look at: no sequence of adds, removals and failures
\* puts a stack where _resolve_parent and the removal do not find it
\* (protocols.py:57-76, 187-214).
OnlyFirstGrows ==
  \A s \in stacks :
    IF ParentOf[s.kind] = "dg" THEN s.under = 0
    ELSE s.under \in ResolveParent(s.kind)

\* The tools treat the tree as the set of its protocols, whatever duplicates
\* repeated adds leave in it: add needs the parent protocol, remove takes the
\* protocol and all above it and nothing else, and "not found" is said only of a
\* protocol the device group does not have (protocols.py:92-221).
ImplementsLayers == Layers!LayersSpec

=============================================================================
