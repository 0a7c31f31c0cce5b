---------------------------- MODULE SessionTools -----------------------------
(***************************************************************************)
(* The port, topology and configuration tools together, in any order, as    *)
(* clients call and repeat them on one connection.                          *)
(***************************************************************************)
EXTENDS PortTools, TopologyTools

CONSTANT MaxLoaded  \* bound: objects of each kind in a loaded configuration

ASSUME SessionAssumption == MaxLoaded \in Nat

-----------------------------------------------------------------------------
(* src/ixia_mcp/tools/config.py                                             *)

\* What a file may hold is not the program's doing.
Loadable ==
  LET upTo(n, max) == 1 .. (IF n < max THEN n ELSE max)
      port == [at : upTo(MaxLoaded, MaxPorts), name : PortName, assigned : BOOLEAN]
      topology == [at : upTo(MaxLoaded, MaxTopologies), name : TopologyName]
      group == [at : upTo(MaxLoaded, MaxGroups), under : upTo(MaxLoaded, MaxTopologies),
                name : GroupName, running : {FALSE}, routed : BOOLEAN]
      distinct(S) == \A x, y \in S : x.at = y.at => x = y
  IN  {c \in [ports : SUBSET port, topologies : SUBSET topology, groups : SUBSET group] :
         /\ distinct(c.ports) /\ distinct(c.topologies) /\ distinct(c.groups)
         /\ \A g \in c.groups : \E t \in c.topologies : t.at = g.under}

LoadCall == [tool : {"load config"}, file : Loadable]

\* ixia_load_config: the file's contents replace everything; LoadConfig may raise
\* with the old configuration gone.  ixia_save_config leaves the session alone.
LoadConfig(call, c) ==
  Made(c, call.file) \cup {Outcome(NoConfig, "error")}

-----------------------------------------------------------------------------

Call == AddCall \cup NamesCall \cup TopologyCall \cup GroupCall \cup LoadCall

Of(tool) == {call \in TopologyCall \cup GroupCall : call.tool = tool}

\* What a call may do to the configuration c.
Outcomes(call, c) ==
  CASE call.tool = "add ports"            -> AddPorts(call, c)
    [] call \in NamesCall                 -> ForNamedPorts(call, c)
    [] call.tool = "create topology"      -> CreateTopology(call, c)
    [] call.tool = "delete topology"      -> DeleteTopology(call, c)
    [] call.tool = "update topology"      -> UpdateTopology(call, c)
    [] call.tool \in {"start protocols", "stop protocols"} -> StartStop(call, c)
    [] call.tool = "create group"         -> CreateDeviceGroup(call, c)
    [] call.tool = "delete group"         -> DeleteDeviceGroup(call, c)
    [] call.tool = "update group"         -> UpdateDeviceGroup(call, c)
    [] call.tool = "create network group" -> CreateNetworkGroup(call, c)
    [] call.tool = "load config"          -> LoadConfig(call, c)

\* Bound: calls are made as long as numbers last.
Fits(c) ==
  /\ NextAt(c.ports) <= MaxPorts + 1
  /\ NextAt(c.topologies) <= MaxTopologies + 1
  /\ NextAt(c.groups) <= MaxGroups + 1

\* A call ends with one of its outcomes.
Ends(outcomes) == \E o \in outcomes : Fits(o.to) /\ config' = o.to

Next ==
  \/ \E call \in AddCall : Ends(AddPorts(call, config))
  \/ \E call \in NamesCall : Ends(ForNamedPorts(call, config))
  \/ \E call \in Of("create topology") : Ends(CreateTopology(call, config))
  \/ \E call \in Of("delete topology") : Ends(DeleteTopology(call, config))
  \/ \E call \in Of("update topology") : Ends(UpdateTopology(call, config))
  \/ \E call \in Of("start protocols") \cup Of("stop protocols") :
       Ends(StartStop(call, config))
  \/ \E call \in Of("create group") : Ends(CreateDeviceGroup(call, config))
  \/ \E call \in Of("delete group") : Ends(DeleteDeviceGroup(call, config))
  \/ \E call \in Of("update group") : Ends(UpdateDeviceGroup(call, config))
  \/ \E call \in Of("create network group") : Ends(CreateNetworkGroup(call, config))
  \/ \E call \in LoadCall : Ends(LoadConfig(call, config))

Spec == Init /\ [][Next]_config

-----------------------------------------------------------------------------
(* Properties, of every call in every configuration that calls lead to.      *)

\* The calls of the tools with idempotentHint.
Hinted ==
  {call \in Call : call.tool \in {"release ports", "remove ports", "delete topology",
     "update topology", "start protocols", "stop protocols", "delete group",
     "update group", "load config"}}

UniqueNames(c) ==
  /\ \A p, q \in c.ports : p.name = q.name => p = q
  /\ \A t, u \in c.topologies : t.name = u.name => t = u
  /\ \A g, h \in c.groups : g.under = h.under /\ g.name = h.name => g = h

\* These change the first object of a name.
PicksFirst(call) ==
  \/ call.tool \in {"delete topology", "delete group"}
  \/ call.tool \in {"update topology", "update group"} /\ call.new # NoName

\* idempotentHint (ports.py:233, 286; topology.py:306, 355, 459, 494, 599, 639;
\* config.py:60), failures included: whatever became of the first attempt, a
\* repeated call does no more than one call could have done.  Of delete and rename
\* this is so only while names are unique.
RetryAddsNothing ==
  \A call \in Hinted :
    (PicksFirst(call) => UniqueNames(config)) =>
      LET once == Outcomes(call, config)
      IN  \A o \in once : {p.to : p \in Outcomes(call, o.to)} \subseteq {p.to : p \in once}

\* Repeating them until they are answered with success is the way to go on after
\* an error.
Restartable ==
  {call \in Hinted : ~PicksFirst(call) /\ (call.tool = "remove ports" => call.names = <<>>)}

Succeeds(call, c) == {o.to : o \in {o \in Outcomes(call, c) : o.answer \in {"ok", "nothing"}}}

\* After an error anywhere in the middle (ports.py:258, 265, 318; topology.py:329, 378) the
\* same call can still succeed if it could at first, and then leaves the
\* configuration that it would have left at once.
RetryConverges ==
  \A call \in Restartable : \A o \in Outcomes(call, config) :
    Succeeds(call, o.to) = Succeeds(call, config)

\* Success of a tool that goes by name means all objects of the name, also those
\* that failed or repeated calls left there (ports.py:253-259, 306-312;
\* topology.py:327-329, 376-378).
OkMeansAll ==
  /\ \A call \in NamesCall : \A o \in ForNamedPorts(call, config) : o.answer = "ok" =>
       \A p \in o.to.ports :
         call.tool = "remove ports" \/ p.assigned
           => call.names # <<>> /\ p.name \notin ToSet(call.names)
  /\ \A call \in Of("start protocols") \cup Of("stop protocols") :
       \A o \in StartStop(call, config) : o.answer = "ok" =>
         \A t \in o.to.topologies, g \in o.to.groups :
           g.under = t.at /\ call.topology \in {NoName, t.name}
             => g.running = (call.tool = "start protocols")

\* ixia_add_ports that fails leaves ports without hardware, of which the other
\* tools take the first (ports.py:187-204; topology.py:428-432).  The way out is to
\* remove ports, those of the names or all, and to make the same call again: then
\* every name leads to a port with hardware.  Removing all is never stuck; by
\* names it is if the call failed before it added the last of them.
CleanSlate ==
  \A add \in AddCall :
    \A failed \in {o \in AddPorts(add, config) : o.answer = "error" /\ Fits(o.to)},
       removal \in {call \in NamesCall : call.tool = "remove ports"} :
      /\ removal.names = <<>> => Succeeds(removal, failed.to) # {}
      /\ removal.names = <<>> \/ ToSet(NewNames(add)) \subseteq ToSet(removal.names) =>
           \A left \in Succeeds(removal, failed.to) :
             \A again \in {o \in AddPorts(add, left) : o.answer = "ok"}, n \in ToSet(NewNames(add)) :
               \A p \in First(Named(n, again.to.ports)) : p.assigned

=============================================================================
