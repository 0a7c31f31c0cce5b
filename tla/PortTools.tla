------------------------------ MODULE PortTools ------------------------------
(***************************************************************************)
(* The tools of src/ixia_mcp/tools/ports.py that change the session.  The   *)
(* two listing tools only read.                                             *)
(***************************************************************************)
EXTENDS SessionConfig

\* pairs: the number of card_port_pairs; names: port_names, <<>> if none.
AddCall == [tool : {"add ports"}, pairs : 0 .. MaxPairs, names : Names]
NamesCall == [tool : {"release ports", "remove ports"}, names : Names]

\* The configuration c with the ports S.
WithPorts(S, c) == [c EXCEPT !.ports = S]

-----------------------------------------------------------------------------
(* ixia_add_ports                                                           *)

\* The names given, or "Port 1", "Port 2", ...
NewNames(call) ==
  IF call.names # <<>> THEN call.names ELSE [i \in 1 .. call.pairs |-> i]

\* Vport.add for the first n of `names`: ports without hardware.
NewPorts(names, n, c) ==
  {[at |-> NextAt(c.ports) + i - 1, name |-> names[i], assigned |-> FALSE] : i \in 1 .. n}

\* ReleasePort() of each of S, and AssignPorts.
SetAssigned(S, b) == {[p EXCEPT !.assigned = b] : p \in S}

\* Mutant: one entry of the port map is forgotten.
AddPortsButOne(call, c) ==
  LET names == NewNames(call)
      new == NewPorts(names, call.pairs, c)
  IN  IF Len(names) # call.pairs
        THEN {Outcome(c, "error")}
        ELSE {Outcome(WithPorts(c.ports \cup new, c), "error"),
              Outcome(WithPorts(c.ports \cup SetAssigned(new \ First(new), TRUE) \cup First(new), c), "ok")}

\* All ports are added before any is assigned.  AssignPorts may get hardware for
\* some of them and raise.  A pair that is not two numbers raises before it.
AddPorts(call, c) ==
  LET names == NewNames(call)
      new == NewPorts(names, call.pairs, c)
  IN  IF Len(names) # call.pairs
        THEN {Outcome(c, "error")}
        ELSE {Outcome(WithPorts(c.ports \cup NewPorts(names, n, c), c), "error")
                : n \in 0 .. call.pairs}
        \cup {Outcome(WithPorts(c.ports \cup SetAssigned(S, TRUE) \cup (new \ S), c), "error")
                : S \in SUBSET new}
        \cup {Outcome(WithPorts(c.ports \cup SetAssigned(new, TRUE), c), "ok")}

-----------------------------------------------------------------------------
(* ixia_release_ports and ixia_remove_ports                                 *)

\* The ports S are released, or removed.
Gone(call, S, c) ==
  WithPorts((c.ports \ S) \cup
            (IF call.tool = "release ports" THEN SetAssigned(S, FALSE) ELSE {}), c)

\* Mutant: a port that is released already counts as missing.
MissesReleased(call, i, c) ==
  \A p \in Named(call.names[i], c.ports) : ~p.assigned

\* The i-th name of the list finds no port: there is none of that name, or it was
\* in the list before and its ports are removed by now.
Misses(call, i, c) ==
  \/ Named(call.names[i], c.ports) = {}
  \/ call.tool = "remove ports" /\ \E j \in 1 .. i - 1 : call.names[j] = call.names[i]

\* The loop gets to the i-th name.
Reaches(call, i, c) == \A j \in 1 .. i - 1 : ~Misses(call, j, c)

\* Mutant: of each name only the first.
DealtWithFirst(call, i, c) ==
  UNION {First(Named(call.names[j], c.ports)) : j \in 1 .. i - 1}

\* The ports dealt with before the i-th name is looked up.
DealtWith(call, i, c) == {p \in c.ports : \E j \in 1 .. i - 1 : call.names[j] = p.name}

\* What the loop deals with for the i-th name.
Found(call, i, c) == Named(call.names[i], c.ports)

\* Name by name, each looked up when its turn comes; an empty list is none, and
\* none means all ports.
ForNamedPorts(call, c) ==
  LET end == Len(call.names) + 1
      upTo(S, n) == {p \in S : p.at <= n}
  IN  IF call.names = <<>>
        THEN {Outcome(Gone(call, upTo(c.ports, n), c), "error") : n \in 0 .. MaxPorts}
        \cup {Outcome(Gone(call, c.ports, c), IF c.ports = {} THEN "nothing" ELSE "ok")}
        ELSE {Outcome(Gone(call, DealtWith(call, i, c), c), "not found")
                : i \in {i \in 1 .. end - 1 : Reaches(call, i, c) /\ Misses(call, i, c)}}
        \cup {Outcome(Gone(call, DealtWith(call, x[1], c)
                                   \cup upTo(Found(call, x[1], c), x[2]), c), "error")
                : x \in {i \in 1 .. end - 1 : Reaches(call, i, c)} \X (0 .. MaxPorts)}
        \cup {Outcome(Gone(call, DealtWith(call, i, c), c), "ok")
                : i \in {i \in {end} : Reaches(call, i, c)}}

=============================================================================
