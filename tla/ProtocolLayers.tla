--------------------------- MODULE ProtocolLayers ----------------------------
(***************************************************************************)
(* What the tools of src/ixia_mcp/tools/protocols.py promise: a device      *)
(* group has a set of protocols, each on top of its parent, and add, remove *)
(* and configure are operations on that set.  ProtocolStacks is what they   *)
(* do to the tree of stacks in the IxNetwork session.                       *)
(***************************************************************************)
EXTENDS ProtocolMap

VARIABLES
  layers,  \* the protocols the device group has
  reply    \* the tool call answered last, with its answer

\* Whether the device group has what p is stacked on.
HasParent(p) == ParentOf[p] \in layers \cup {"dg"}

\* p and all that stands on it, in three layers at most.
Above(p) ==
  {q \in Protocol : \/ q = p
                    \/ ParentOf[q] = p
                    \/ ParentOf[q] # "dg" /\ ParentOf[ParentOf[q]] = p}

NoReply == [tool |-> "none", protocol |-> "none", answer |-> "none"]

LayersInit == layers = {} /\ reply = NoReply

Answered(tool, p, answer) ==
  reply' = [tool |-> tool, protocol |-> p, answer |-> answer]

\* A protocol can be added again; the device group then has it still.
AddLayer(p) ==
  \/ Answered("add", p, "ok") /\ HasParent(p) /\ layers' = layers \cup {p}
  \/ Answered("add", p, "no parent") /\ ~HasParent(p) /\ UNCHANGED layers
  \/ /\ Answered("add", p, "error")
     /\ layers' \in {layers} \cup (IF HasParent(p) THEN {layers \cup {p}} ELSE {})

\* "Removing a lower-layer protocol will also remove all protocols stacked on
\* top of it."
RemoveLayer(p) ==
  \/ Answered("remove", p, "ok") /\ p \in layers /\ layers' = layers \ Above(p)
  \/ Answered("remove", p, "not found") /\ p \notin layers /\ UNCHANGED layers
  \/ /\ Answered("remove", p, "error")
     /\ layers \ Above(p) \subseteq layers' /\ layers' \subseteq layers

ConfigureLayer(p) ==
  /\ UNCHANGED layers
  /\ \/ (Answered("configure", p, "ok") \/ Answered("configure", p, "nothing")) /\ p \in layers
     \/ Answered("configure", p, "not found") /\ p \notin layers
     \/ Answered("configure", p, "error")

LayersNext == \E p \in Protocol : AddLayer(p) \/ RemoveLayer(p) \/ ConfigureLayer(p)

LayersSpec == LayersInit /\ [][LayersNext]_<<layers, reply>>

=============================================================================
