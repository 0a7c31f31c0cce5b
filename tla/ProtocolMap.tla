----------------------------- MODULE ProtocolMap -----------------------------
(***************************************************************************)
(* The protocols a device group may have and what each is stacked on        *)
(* (_PROTOCOL_MAP in src/ixia_mcp/tools/protocols.py).                      *)
(***************************************************************************)
EXTENDS Integers, FiniteSets

CONSTANT Protocol  \* the protocols in use

\* _PROTOCOL_MAP: what each protocol is stacked on.
ParentOf ==
  [ethernet |-> "dg", ipv4 |-> "ethernet", ipv6 |-> "ethernet", isis |-> "ethernet",
   bgpv4 |-> "ipv4", ospfv2 |-> "ipv4", ldp |-> "ipv4", igmp |-> "ipv4", pim |-> "ipv4",
   bgpv6 |-> "ipv6", ospfv3 |-> "ipv6"]

ASSUME ProtocolAssumption ==
  /\ Protocol \subseteq DOMAIN ParentOf
  /\ \A p \in Protocol : ParentOf[p] \in Protocol \cup {"dg"}

=============================================================================
