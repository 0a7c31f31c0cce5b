---------------------------- MODULE TrafficItems -----------------------------
(***************************************************************************)
(* The tools of src/ixia_mcp/tools/traffic.py, one action per REST call, as *)
(* several agents run them on one connection.  A tool looks its item up,    *)
(* then changes it call by call; any call may raise, before or after it     *)
(* took effect in IxNetwork, and the tool then answers with the error.      *)
(*                                                                         *)
(* The connection's lock keeps the agents apart (McpServer, OpsSerialised). *)
(***************************************************************************)
EXTENDS TrafficSession

CONSTANT Agent  \* who calls the tools

VARIABLES
  job,     \* the tool call each agent has in progress
  before   \* the session when the call in progress began (history), if any

vars == <<session, reply, job, before>>

\* stage: where the tool is; item: what _find_traffic_item returned (a set of
\* at most one); was: `was_suspended`, read with it; todo: items still to
\* generate; errors: some Generate() raised; left: fields still to write.
Job == [stage : {"idle", "add", "wire", "remove", "write", "suspend",
                 "generate", "apply", "run", "halt"},
        call : Call \cup {NoCall}, item : SUBSET Href, was : BOOLEAN,
        todo : SUBSET Href, errors : BOOLEAN, left : 0 .. MaxWrites]

NoJob == [stage |-> "idle", call |-> NoCall, item |-> {}, was |-> FALSE,
          todo |-> {}, errors |-> FALSE, left |-> 0]

TrafficTypeOK ==
  /\ session \in Session
  /\ job \in [Agent -> Job]
  /\ before \in Session
  /\ reply \in Reply

Init ==
  /\ AtomicInit
  /\ job = [a \in Agent |-> NoJob]
  /\ before = EmptySession

-----------------------------------------------------------------------------
(* Beginning and ending a call.                                             *)

\* `with conn.lock`
Free ==
  \A b \in Agent : job[b].stage = "idle"

\* The call c of agent a goes on as job j.
Begin(a, c, j) ==
  /\ job' = [job EXCEPT ![a] = [j EXCEPT !.call = c]]
  /\ before' = session
  /\ UNCHANGED <<session, reply>>

\* The call c of agent a is answered at once, without any change.
Refuse(c, answer) ==
  /\ reply' = [call |-> c, answer |-> answer]
  /\ UNCHANGED <<session, job, before>>

\* The call in progress ends; the lock is released.
Finish(a, answer) ==
  /\ job' = [job EXCEPT ![a] = NoJob]
  /\ reply' = [call |-> job[a].call, answer |-> answer]
  /\ before' = EmptySession

\* The call in progress makes the REST call that turns the session into `new`
\* and goes on as `after` says; an exception ends it.
Rest(new, a, after) ==
  \/ session' = new /\ after
  \/ session' \in {session, new} /\ Finish(a, "error")

Goto(a, j) ==
  /\ job' = [job EXCEPT ![a] = j]
  /\ UNCHANGED <<reply, before>>

At(a, st) == job[a].stage = st

-----------------------------------------------------------------------------
(* ixia_create_traffic_item                                                 *)

\* Both endpoints are looked up first; without them nothing is created.  Bound:
\* items are created as long as there are fresh identities.
BeginCreate(a, c) ==
  /\ c.tool = "create"
  /\ Free
  /\ \/ Fresh(session) # {} /\ Begin(a, c, [NoJob EXCEPT !.stage = "add"])
     \/ Refuse(c, "error")

AddItem(a) ==
  /\ At(a, "add")
  /\ \E x \in Fresh(session) :
       Rest(Added(session, x, job[a].call.name), a,
            Goto(a, [job[a] EXCEPT !.stage = "wire", !.item = {x}]))

AddEndpoints(a) ==
  /\ At(a, "wire")
  /\ \E x \in job[a].item : Rest(Wired(session, x), a, Finish(a, "ok"))

-----------------------------------------------------------------------------
(* Tools that look an item up first.                                        *)

\* Mutant: the item is looked up before the lock is taken.
BeginDeleteUnlocked(a, c) ==
  /\ c.tool = "delete"
  /\ At(a, "idle")
  /\ \/ \E x \in Found(c, session) : Begin(a, c, [NoJob EXCEPT !.stage = "remove", !.item = {x}])
     \/ Refuse(c, "error")

BeginDelete(a, c) ==
  /\ c.tool = "delete"
  /\ Free
  /\ \/ \E x \in Found(c, session) : Begin(a, c, [NoJob EXCEPT !.stage = "remove", !.item = {x}])
     \/ Refuse(c, "error")

RemoveItem(a) ==
  /\ At(a, "remove")
  /\ \E x \in job[a].item : Rest(Removed(session, x), a, Finish(a, "ok"))

\* An item without endpoints has no ConfigElement.
BeginConfigure(a, c) ==
  /\ c.tool = "configure"
  /\ Free
  /\ \/ \E x \in Found(c, session) \cap session.wired :
          IF c.writes = 0
            THEN Refuse(c, "nothing")
            ELSE Begin(a, c, [NoJob EXCEPT !.stage = "write", !.item = {x},
                                           !.left = c.writes])
     \/ Refuse(c, "error")

BeginTrack(a, c) ==
  /\ c.tool = "track"
  /\ Free
  /\ \/ \E x \in Found(c, session) :
          Begin(a, c, [NoJob EXCEPT !.stage = "write", !.item = {x}, !.left = 1])
     \/ Refuse(c, "error")

\* Mutant: off by one: a property too many.
WriteOneMore(a) ==
  /\ At(a, "write")
  /\ \E x \in job[a].item : Rest(Edited(session, x), a,
         IF job[a].left >= 0 THEN Goto(a, [job[a] EXCEPT !.left = @ - 1])
                             ELSE Finish(a, "ok"))

\* One property of the ConfigElement, or TrackBy, is set.
Write(a) ==
  /\ At(a, "write")
  /\ \E x \in job[a].item : Rest(Edited(session, x), a,
         IF job[a].left > 1 THEN Goto(a, [job[a] EXCEPT !.left = @ - 1])
                            ELSE Finish(a, "ok"))

\* ixia_start_traffic and ixia_stop_traffic about one item.
BeginOne(a, c) ==
  /\ c.tool \in {"start", "stop"}
  /\ ~AllItems(c)
  /\ Free
  /\ \/ \E x \in Found(c, session) :
          Begin(a, c, [NoJob EXCEPT !.stage = "suspend", !.item = {x},
                                    !.was = x \in session.suspended])
     \/ Refuse(c, "error")

\* Mutant: Suspend is toggled instead of set.
SetSuspendToggles(a) ==
  /\ At(a, "suspend")
  /\ \E x \in job[a].item : Rest(Suspended(session, x, ~job[a].was), a,
         Finish(a, IF job[a].was THEN "was suspended" ELSE "was not suspended"))

SetSuspend(a) ==
  /\ At(a, "suspend")
  /\ \E x \in job[a].item : Rest(Suspended(session, x, job[a].call.tool = "stop"), a,
         Finish(a, IF job[a].was THEN "was suspended" ELSE "was not suspended"))

-----------------------------------------------------------------------------
(* Tools about all items.                                                   *)

BeginAll(a, c) ==
  /\ c.tool \in {"start", "stop"}
  /\ AllItems(c)
  /\ Free
  /\ \/ Begin(a, c, [NoJob EXCEPT !.stage = IF c.tool = "start" THEN "apply" ELSE "halt"])
     \/ Refuse(c, "error")

Apply(a) ==
  /\ At(a, "apply")
  /\ Rest(session, a, Goto(a, [job[a] EXCEPT !.stage = "run"]))

Run(a) ==
  /\ At(a, "run")
  /\ Rest(Started(session), a, Finish(a, "ok"))

Halt(a) ==
  /\ At(a, "halt")
  /\ Rest(Stopped(session), a, Finish(a, "ok"))

BeginGenerate(a, c) ==
  /\ c.tool = "generate"
  /\ Free
  /\ \/ IF session.order = <<>>
          THEN Refuse(c, "nothing")
          ELSE Begin(a, c, [NoJob EXCEPT !.stage = "generate", !.todo = Items(session)])
     \/ Refuse(c, "error")

\* ti.Generate(), an exception is noted and the loop goes on.
GenerateNext(a) ==
  /\ At(a, "generate")
  /\ \E x \in job[a].todo :
       \E ok \in BOOLEAN :
         /\ session' \in {Generated(session, {x})} \cup (IF ok THEN {} ELSE {session})
         /\ IF job[a].todo = {x}
              THEN Finish(a, IF ok /\ ~job[a].errors THEN "ok" ELSE "partial")
              ELSE Goto(a, [job[a] EXCEPT !.todo = @ \ {x}, !.errors = @ \/ ~ok])

-----------------------------------------------------------------------------

Next ==
  \E a \in Agent :
    \/ \E c \in Call : \/ BeginCreate(a, c)
                       \/ BeginDelete(a, c)
                       \/ BeginConfigure(a, c)
                       \/ BeginTrack(a, c)
                       \/ BeginOne(a, c)
                       \/ BeginAll(a, c)
                       \/ BeginGenerate(a, c)
    \/ AddItem(a) \/ AddEndpoints(a)
    \/ RemoveItem(a)
    \/ Write(a)
    \/ SetSuspend(a)
    \/ Apply(a) \/ Run(a) \/ Halt(a)
    \/ GenerateNext(a)

Spec == Init /\ [][Next]_vars

-----------------------------------------------------------------------------
(* Properties.                                                              *)

\* The session as calls see each other's effects: a call in progress has had
\* none yet.
Seen == IF \A a \in Agent : job[a].stage = "idle" THEN session ELSE before

Atomic == INSTANCE TrafficSession WITH session <- Seen

\* Every tool call is atomic: it is one change of the session, a success is
\* answered only if the call had its whole effect on the session as it found it,
\* and the answer tells what it found; the exclusion by the connection's lock
\* and the order of the REST calls make it so (traffic.py:270, 323, 429).
ImplementsAtomic == Atomic!AtomicSpec

\* The answers that say a call did what it was asked.
Done == {"ok", "was suspended", "was not suspended"}

\* The same call was just answered with success and is answered so again.
Repeated(tools) ==
  /\ reply'.call = reply.call
  /\ reply.call.tool \in tools
  /\ {reply.answer, reply'.answer} \subseteq Done
  /\ Seen' # Seen

\* idempotentHint of generate, start, stop, configure and add_tracking
\* (traffic.py:252, 306, 357, 515, 594): a client that repeats a successful call
\* because its answer was late changes nothing more.
RetryHarmless ==
  [][~Repeated({"generate", "start", "stop", "configure", "track"})]_vars

=============================================================================
