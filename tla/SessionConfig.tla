---------------------------- MODULE SessionConfig ----------------------------
(***************************************************************************)
(* The part of an IxNetwork session that the port and topology tools work   *)
(* on: virtual ports, topologies and their device groups.  It lives in      *)
(* IxNetwork and is modelled from the REST calls the tools make.  Names     *)
(* need not be unique; find(Name=n) returns all objects of that name in the *)
(* order they were added, the order of `at`.                                *)
(*                                                                         *)
(* A tool call is described by its outcomes: the configurations it may leave*)
(* behind, each with its answer.  The connection's lock makes a call one    *)
(* step (McpServer, OpsSerialised), but any of its REST calls may raise,    *)
(* before or after it took effect, and what was done until then stays.      *)
(***************************************************************************)
EXTENDS Integers, Sequences, SequencesExt

CONSTANTS
  PortName,       \* names of virtual ports; the number i stands for "Port i"
  TopologyName,   \* names of topologies
  GroupName,      \* names of device groups
  NoName,         \* an optional name is not given
  MaxPairs,       \* bound: entries in a list of ports or of port names
  MaxPorts,       \* bound: ports are numbered 1 .. MaxPorts
  MaxTopologies,  \* bound: topologies are numbered 1 .. MaxTopologies
  MaxGroups       \* bound: device groups are numbered 1 .. MaxGroups

ASSUME ConfigAssumption ==
  /\ {MaxPairs, MaxPorts, MaxTopologies, MaxGroups} \subseteq Nat
  /\ 1 .. MaxPairs \subseteq PortName
  /\ NoName \notin PortName \cup TopologyName \cup GroupName

VARIABLE config  \* the configuration of the session

\* assigned: to a hardware port; under: the number of the topology; running: the
\* protocols were started; routed: some network group has a prefix pool.
Port == [at : 1 .. MaxPorts, name : PortName, assigned : BOOLEAN]
Topology == [at : 1 .. MaxTopologies, name : TopologyName]
Group == [at : 1 .. MaxGroups, under : 1 .. MaxTopologies, name : GroupName,
          running : BOOLEAN, routed : BOOLEAN]

NoConfig == [ports |-> {}, topologies |-> {}, groups |-> {}]

Init == config = NoConfig

\* Numbers identify objects, and every device group is in a topology.
ConfigTypeOK ==
  /\ config = [ports |-> config.ports, topologies |-> config.topologies,
               groups |-> config.groups]
  /\ config.ports \in SUBSET Port
  /\ config.topologies \in SUBSET Topology
  /\ config.groups \in SUBSET Group
  /\ \A S \in {config.ports, config.topologies, config.groups} :
       \A x, y \in S : x.at = y.at => x = y
  /\ \A g \in config.groups : \E t \in config.topologies : t.at = g.under

-----------------------------------------------------------------------------
(* Finding and adding.                                                      *)

Answer == {"ok", "nothing", "not found", "error"}

Outcome(to, answer) == [to |-> to, answer |-> answer]

\* find(Name=n)
Named(n, S) == {x \in S : x.name = n}

\* [0]; the empty set if nothing was found.
First(S) == {x \in S : \A y \in S : x.at <= y.at}

\* The number the next object gets: above those of all others.
NextAt(S) == 1 + Max({x.at : x \in S} \cup {0})

\* Lists of names.
Names == UNION {[1 .. n -> PortName] : n \in 0 .. MaxPairs}

=============================================================================
