--------------------------- MODULE TrafficSession ----------------------------
(***************************************************************************)
(* The traffic items of an IxNetwork session, and what the tools of         *)
(* src/ixia_mcp/tools/traffic.py promise about them: every tool call is one *)
(* atomic change of the session, answered with success exactly if it had    *)
(* its whole effect.  A call that is answered with an error may have had    *)
(* part of it.  TrafficItems shows how the code makes calls atomic.         *)
(*                                                                         *)
(* The session lives in IxNetwork; it is modelled from the REST calls the   *)
(* tools make.                                                              *)
(***************************************************************************)
EXTENDS Integers, Sequences, FiniteSets, SequencesExt

CONSTANTS
  Name,      \* names of traffic items
  Href,      \* identities of traffic items; no tool keeps one between calls
  NoName,    \* a call does not give a name
  Blank,     \* a call gives the empty string as name
  MaxWrites  \* bound: properties one ixia_configure_traffic_item sets

ASSUME TrafficAssumption ==
  /\ NoName \notin Name
  /\ Blank \notin Name \cup {NoName}
  /\ MaxWrites \in Nat \ {0}

VARIABLES
  session,   \* the traffic part of the session
  reply      \* the call answered last, with its answer

\* order: what TrafficItem.find() returns, in this order; wired: items with an
\* EndpointSet (and so with a ConfigElement); suspended: items with Suspend =
\* True; ungenerated: items edited since their streams were generated; running:
\* stateless traffic was started.
Session == [order : Seq(Href), name : [Href -> Name \cup {NoName}],
            wired : SUBSET Href, suspended : SUBSET Href,
            ungenerated : SUBSET Href, running : BOOLEAN]

EmptySession ==
  [order |-> <<>>, name |-> [x \in Href |-> NoName], wired |-> {},
   suspended |-> {}, ungenerated |-> {}, running |-> FALSE]

Items(s) == ToSet(s.order)

-----------------------------------------------------------------------------
(* The REST calls that change the session.                                  *)

Fresh(s) == Href \ Items(s)

\* TrafficItem.add(Name=n): a new last item.  Names need not be unique.
Added(s, x, n) ==
  [s EXCEPT !.order = Append(@, x), !.name[x] = n, !.ungenerated = @ \cup {x}]

\* ti.EndpointSet.add
Wired(s, x) == [s EXCEPT !.wired = @ \cup {x}, !.ungenerated = @ \cup {x}]

\* ti.remove()
Removed(s, x) ==
  [s EXCEPT !.order = RemoveFirst(@, x), !.name[x] = NoName,
            !.wired = @ \ {x}, !.suspended = @ \ {x}, !.ungenerated = @ \ {x}]

\* A property of the item's ConfigElement or of its Tracking is set.
Edited(s, x) == [s EXCEPT !.ungenerated = @ \cup {x}]

\* ti.Suspend = b
Suspended(s, x, b) ==
  [s EXCEPT !.suspended = IF b THEN @ \cup {x} ELSE @ \ {x}]

\* ti.Generate(), for the items X
Generated(s, X) == [s EXCEPT !.ungenerated = @ \ X]

\* StartStatelessTrafficBlocking(), StopStatelessTrafficBlocking().  The Apply()
\* before a start changes nothing that is modelled.
Started(s) == [s EXCEPT !.running = TRUE]
Stopped(s) == [s EXCEPT !.running = FALSE]

-----------------------------------------------------------------------------
(* The tool calls.  An item is identified by name or, failing that, by its   *)
(* 1-based index (0: none given).                                           *)

\* A name counts only if it is not empty: `if params.traffic_item_name`.
ByName(c) == c.name \in Name

\* start and stop are then about all items.
AllItems(c) == ~ByName(c) /\ c.index = 0

\* The validators of the input models want a name - the empty one will do - or
\* an index, except for start and stop.  With a name the index is ignored; with
\* an empty one and an index the call is the one with the index alone.
Call ==
     [tool : {"create"}, name : Name, index : {0}, writes : {0}]
\cup [tool : {"generate"}, name : {NoName}, index : {0}, writes : {0}]
\cup {c \in [tool : {"delete", "track", "start", "stop", "configure"},
             name : Name \cup {NoName, Blank}, index : 0 .. Cardinality(Href),
             writes : 0 .. MaxWrites] :
        /\ c.tool \in {"start", "stop"} \/ c.name # NoName \/ c.index # 0
        /\ c.tool = "configure" \/ c.writes = 0
        /\ c.name \in Name \cup {Blank} => c.index = 0}

NoCall == [tool |-> "none", name |-> NoName, index |-> 0, writes |-> 0]

Answer == {"ok", "error", "partial", "nothing", "was suspended", "was not suspended"}

Reply == [call : Call, answer : Answer] \cup [call : {NoCall}, answer : {"none"}]

\* _find_traffic_item: the first item of that name, or the item at the index;
\* the empty set if there is none.
Found(c, s) ==
  LET matches == {i \in DOMAIN s.order :
                    IF ByName(c) THEN s.name[s.order[i]] = c.name ELSE i = c.index}
  IN {s.order[i] : i \in {j \in matches : \A k \in matches : j <= k}}

\* The states a call takes the session through, one REST call at a time.
Effects(c, s) ==
  CASE c.tool = "create" ->
         {<<s, Added(s, x, c.name), Wired(Added(s, x, c.name), x)>> : x \in Fresh(s)}
    [] c.tool = "delete" ->
         {<<s, Removed(s, x)>> : x \in Found(c, s)}
    [] c.tool = "configure" ->
         {IF c.writes = 0 THEN <<s>> ELSE <<s, Edited(s, x)>> :
            x \in Found(c, s) \cap s.wired}
    [] c.tool = "track" ->
         {<<s, Edited(s, x)>> : x \in Found(c, s)}
    [] c.tool = "generate" ->
         {<<s, Generated(s, X)>> : X \in SUBSET Items(s)}
    [] c.tool = "start" ->
         IF AllItems(c) THEN {<<s, Started(s)>>}
         ELSE {<<s, Suspended(s, x, FALSE)>> : x \in Found(c, s)}
    [] c.tool = "stop" ->
         IF AllItems(c) THEN {<<s, Stopped(s)>>}
         ELSE {<<s, Suspended(s, x, TRUE)>> : x \in Found(c, s)}

\* The answers of a call that began in session state s and ended in t without
\* an exception.
Answers(c, s, t) ==
  CASE c.tool = "configure" -> {IF c.writes = 0 THEN "nothing" ELSE "ok"}
    [] c.tool = "generate"  ->
         IF s.order = <<>> THEN {"nothing"}
         ELSE {"partial"} \cup (IF t = Generated(s, Items(s)) THEN {"ok"} ELSE {})
    [] c.tool \in {"start", "stop"} /\ ~AllItems(c) ->
         {IF Found(c, s) \subseteq s.suspended THEN "was suspended"
                                               ELSE "was not suspended"}
    [] OTHER -> {"ok"}

\* What a call may do to the session, with the answer that goes with it: an
\* exception ends it after any of its REST calls.
Outcomes(c, s) ==
  {<<s, "error">>} \cup
  UNION {{<<e[i], "error">> : i \in DOMAIN e}
           \cup {<<Last(e), a>> : a \in Answers(c, s, Last(e))} : e \in Effects(c, s)}

AtomicInit == session = EmptySession /\ reply = [call |-> NoCall, answer |-> "none"]

AtomicNext ==
  /\ reply'.call \in Call
  /\ <<session', reply'.answer>> \in Outcomes(reply'.call, session)

AtomicSpec == AtomicInit /\ [][AtomicNext]_<<session, reply>>

=============================================================================
