---------------------------- MODULE TopologyTools ----------------------------
(***************************************************************************)
(* The tools of src/ixia_mcp/tools/topology.py that change the session, with*)
(* the lookups of src/ixia_mcp/tools/_helpers.py.  The three reading tools  *)
(* are left out.                                                            *)
(***************************************************************************)
EXTENDS SessionConfig

\* name: of a new object; new: new_name; ports: a single port name stands for
\* a list of them, NoName for none given; fields: how many of multiplier and
\* enabled are given; pool: ipv4_network_address is given.  To start and stop, an
\* empty topology_name counts as none.
TopologyCall ==
     [tool : {"create topology"}, name : TopologyName, ports : PortName \cup {NoName}]
\cup [tool : {"delete topology"}, topology : TopologyName]
\cup [tool : {"update topology"}, topology : TopologyName,
      new : TopologyName \cup {NoName}, ports : PortName \cup {NoName}]
\cup [tool : {"start protocols", "stop protocols"}, topology : TopologyName \cup {NoName}]

GroupCall ==
     [tool : {"create group"}, topology : TopologyName, name : GroupName]
\cup [tool : {"delete group"}, topology : TopologyName, group : GroupName]
\cup [tool : {"update group"}, topology : TopologyName, group : GroupName,
      new : GroupName \cup {NoName}, fields : 0 .. 2]
\cup [tool : {"create network group"}, topology : TopologyName, group : GroupName,
      pool : BOOLEAN]

-----------------------------------------------------------------------------
(* Lookups and REST calls.                                                  *)

\* Mutant: find() without the name.
FindTopoAny(n, c) == First(c.topologies)

\* _find_topo: a set of at most one.
FindTopo(n, c) == First(Named(n, c.topologies))

\* topo.DeviceGroup.find(), for the topologies T
GroupsOf(T, c) == {g \in c.groups : \E t \in T : g.under = t.at}

\* _find_device_group
FindDeviceGroup(n, d, c) == First(Named(d, GroupsOf(FindTopo(n, c), c)))

PortMissing(call, c) == call.ports # NoName /\ Named(call.ports, c.ports) = {}

\* Mutant: the device groups are left.
WithoutTopologyOnly(t, c) ==
  [c EXCEPT !.topologies = @ \ {t}]

\* topo.remove(), with its device groups
WithoutTopology(t, c) ==
  [c EXCEPT !.topologies = @ \ {t}, !.groups = @ \ GroupsOf({t}, c)]

\* The topology t, the device group g, is now r.
TopologyNow(t, r, c) == [c EXCEPT !.topologies = (@ \ {t}) \cup {r}]
GroupNow(g, r, c) == [c EXCEPT !.groups = (@ \ {g}) \cup {r}]

\* dg.Start() or dg.Stop() of the groups G
SetRunning(G, b, c) ==
  [c EXCEPT !.groups = (@ \ G) \cup {[g EXCEPT !.running = b] : g \in G}]

\* Nothing was found, or something else raised: the configuration stays.
Unchanged(c, answers) == {Outcome(c, a) : a \in answers}

\* A REST call that leads from c to d, the last of its tool.
Made(c, d) == {Outcome(c, "error"), Outcome(d, "error"), Outcome(d, "ok")}

-----------------------------------------------------------------------------
(* Topologies.                                                              *)

\* ixia_create_topology: the ports are looked up first.
CreateTopology(call, c) ==
  IF PortMissing(call, c)
    THEN Unchanged(c, {"not found", "error"})
    ELSE Made(c, [c EXCEPT !.topologies = @ \cup
                    {[at |-> NextAt(c.topologies), name |-> call.name]}])

\* ixia_delete_topology: the first of that name.
DeleteTopology(call, c) ==
  IF FindTopo(call.topology, c) = {}
    THEN Unchanged(c, {"not found", "error"})
    ELSE UNION {Made(c, WithoutTopology(t, c)) : t \in FindTopo(call.topology, c)}

\* ixia_update_topology: the new name is written before the ports are looked up.
UpdateTopology(call, c) ==
  LET renamed(t) == IF call.new = NoName THEN c
                    ELSE TopologyNow(t, [t EXCEPT !.name = call.new], c)
      answers == IF PortMissing(call, c) THEN {"not found", "error"}
                 ELSE IF call.new = NoName /\ call.ports = NoName THEN {"nothing", "error"}
                 ELSE {"ok", "error"}
  IN  IF FindTopo(call.topology, c) = {}
        THEN Unchanged(c, {"not found", "error"})
        ELSE {Outcome(c, "error")} \cup
             UNION {Unchanged(renamed(t), answers) : t \in FindTopo(call.topology, c)}

\* ixia_start_protocols and ixia_stop_protocols: group by group in all topologies of
\* the name; without a name by one REST call about everything.
StartStop(call, c) ==
  LET b == call.tool = "start protocols"
      G == IF call.topology = NoName THEN c.groups
           ELSE GroupsOf(Named(call.topology, c.topologies), c)
      before(g, h) == g.under < h.under \/ (g.under = h.under /\ g.at <= h.at)
  IN  IF call.topology # NoName /\ Named(call.topology, c.topologies) = {}
        THEN Unchanged(c, {"not found", "error"})
        ELSE Made(c, SetRunning(G, b, c)) \cup
             {Outcome(SetRunning({g \in G : before(g, h)}, b, c), "error") : h \in G}

-----------------------------------------------------------------------------
(* Device groups and network groups.                                        *)

\* ixia_create_device_group
CreateDeviceGroup(call, c) ==
  IF FindTopo(call.topology, c) = {}
    THEN Unchanged(c, {"not found", "error"})
    ELSE UNION {Made(c, [c EXCEPT !.groups = @ \cup
                  {[at |-> NextAt(c.groups), under |-> t.at, name |-> call.name,
                    running |-> FALSE, routed |-> FALSE]}]) : t \in FindTopo(call.topology, c)}

\* ixia_delete_device_group
DeleteDeviceGroup(call, c) ==
  LET found == FindDeviceGroup(call.topology, call.group, c)
  IN  IF found = {} THEN Unchanged(c, {"not found", "error"})
      ELSE UNION {Made(c, [c EXCEPT !.groups = @ \ {g}]) : g \in found}

\* ixia_update_device_group: the name first, then multiplier and enabled, whose
\* values are not told apart.
UpdateDeviceGroup(call, c) ==
  LET found == FindDeviceGroup(call.topology, call.group, c)
      renamed(g) == IF call.new = NoName THEN c
                    ELSE GroupNow(g, [g EXCEPT !.name = call.new], c)
      answer == IF call.new = NoName /\ call.fields = 0 THEN "nothing" ELSE "ok"
  IN  IF found = {} THEN Unchanged(c, {"not found", "error"})
      ELSE {Outcome(c, "error")} \cup
           UNION {Unchanged(renamed(g), {"error", answer}) : g \in found}

\* ixia_create_network_group: the network group, then its prefix pool if asked for.
\* Without a pool a network group leaves no trace here.
CreateNetworkGroup(call, c) ==
  LET found == FindDeviceGroup(call.topology, call.group, c)
  IN  IF found = {} THEN Unchanged(c, {"not found", "error"})
      ELSE UNION {Made(c, GroupNow(g, [g EXCEPT !.routed = @ \/ call.pool], c)) : g \in found}

=============================================================================
