--------------------------- MODULE RequestDefaults ---------------------------
(***************************************************************************)
(* Where an ixia_connect gets its parameters from, when requests of several *)
(* users interleave: the middleware of src/ixia_mcp/server.py puts the      *)
(* X-IXIA-* headers of a request into a context variable                    *)
(* (src/ixia_mcp/request_context.py), and ConnectionManager.connect         *)
(* (src/ixia_mcp/client.py), three copies of the context later and on       *)
(* another thread, reads it.                                                *)
(*                                                                         *)
(* Values are not told apart but by where they come from.                   *)
(***************************************************************************)

CONSTANTS
  Req,         \* slots for requests in progress that call ixia_connect
  Field,       \* host, port, session id, user and password
  IntField,    \* those parsed as integers
  CliGiven,    \* fields given on the command line
  EnvGiven     \* fields given in the environment

ASSUME FieldAssumption == IntField \cup CliGiven \cup EnvGiven \subseteq Field

VARIABLES
  transport,   \* how the server was started
  stage,       \* how far the call of ixia_connect has got
  open,        \* HTTP requests inside the middleware
  sent,        \* the X-IXIA-* headers of a request
  params,      \* the parameters given to ixia_connect
  context,     \* the context variable as each task, or thread, has it
  used         \* what connect resolved its parameters to

vars == <<transport, stage, open, sent, params, context, used>>

\* Where a value comes from, and from whose request.
None == <<"none", "none">>
Explicit(r) == <<"explicit", r>>
Header(r) == <<"header", r>>
Server(source) == <<"server", source>>
Value == {None} \cup {Server(source) : source \in {"cli", "env", "hardcoded"}} \cup
         {Explicit(r) : r \in Req} \cup {Header(r) : r \in Req}

\* RequestHeaders
Headers == [Field -> Value]
NoHeaders == [f \in Field |-> None]

\* The task that runs the event loop (under stdio, the server too), and for a
\* request the task that runs the middleware, the task of its stateless server,
\* the task that handles the message and the executor thread.
Main == <<"loop", "main">>
Own == {"http", "server", "handler", "thread"}
Task == {Main} \cup (Req \X Own)

Raw == {"absent", "value", "garbage"}
NoneSent == [f \in Field |-> "absent"]

DefaultsTypeOK ==
  /\ transport \in {"stdio", "streamable-http"}
  /\ stage \in [Req -> {"none", "open", "serving", "handling", "queued", "connected"}]
  /\ open \in SUBSET Req
  /\ sent \in [Req -> [Field -> Raw]]
  /\ params \in [Req -> SUBSET Field]
  /\ context \in [Task -> Headers]
  /\ used \in [Req -> Headers]

Init ==
  /\ transport \in {"stdio", "streamable-http"}
  /\ stage = [r \in Req |-> "none"]
  /\ open = {}
  /\ sent = [r \in Req |-> NoneSent]
  /\ params = [r \in Req |-> {}]
  /\ context = [t \in Task |-> NoHeaders]
  /\ used = [r \in Req |-> NoHeaders]

-----------------------------------------------------------------------------
(* The middleware.                                                          *)

\* Mutant: a port that is no number is kept as it is.
ExtractRaw(r, raw) ==
  [f \in Field |-> IF raw[f] = "value" THEN Header(r)
                   ELSE IF raw[f] = "absent" THEN None ELSE <<"garbage", r>>]

\* _str and _int: what is no integer counts as not sent.
Extract(r, raw) ==
  [f \in Field |-> IF raw[f] = "value" THEN Header(r) ELSE None]

\* A request comes; its headers are set in the context of its own task.  _str
\* raises on bytes that are no text, and the request is refused.
Arrive(r) ==
  /\ transport = "streamable-http"
  /\ stage[r] = "none" /\ r \notin open
  /\ \E raw \in [Field -> Raw], given \in SUBSET Field :
       /\ \A f \in Field \ IntField : raw[f] # "garbage"
       /\ sent' = [sent EXCEPT ![r] = raw]
       /\ params' = [params EXCEPT ![r] = given]
       /\ context' = [context EXCEPT ![<<r, "http">>] = Extract(r, raw)]
  /\ stage' = [stage EXCEPT ![r] = "open"]
  /\ open' = open \cup {r}
  /\ UNCHANGED <<transport, used>>

\* The slot is free; the tasks of the call are gone and their contexts with them.
Forget(r) ==
  /\ stage' = [stage EXCEPT ![r] = "none"]
  /\ sent' = [sent EXCEPT ![r] = NoneSent]
  /\ params' = [params EXCEPT ![r] = {}]
  /\ used' = [used EXCEPT ![r] = NoHeaders]
  /\ context' = [t \in Task |-> IF t \in {r} \X Own THEN NoHeaders ELSE context[t]]

\* The request ends, answered or given up by its client, and the variable is reset
\* to what it was when the task began.  Tasks that still work on it are cancelled,
\* a thread is not.
End(r) ==
  /\ r \in open
  /\ open' = open \ {r}
  /\ IF stage[r] = "queued"
       THEN /\ context' = [context EXCEPT ![<<r, "http">>] = context[Main]]
            /\ UNCHANGED <<stage, sent, params, used>>
       ELSE Forget(r)
  /\ UNCHANGED transport

-----------------------------------------------------------------------------
(* On the way to connect: each task starts with a copy of the context of the *)
(* one that starts it.                                                      *)

Copy(from, to) == context' = [context EXCEPT ![to] = context[from]]

\* Mutant: a server task, once started for a client's session, serves the later
\* requests as well.
StartServerStateful(r) ==
  /\ stage[r] = "open"
  /\ stage' = [stage EXCEPT ![r] = "serving"]
  /\ \E q \in Req : /\ stage[q] \in {"serving", "handling", "queued"} \/ q = r
                    /\ Copy(IF q = r THEN <<r, "http">> ELSE <<q, "server">>, <<r, "server">>)
  /\ UNCHANGED <<transport, open, sent, params, used>>

\* stateless_http: each request has a server task of its own.
StartServer(r) ==
  /\ stage[r] = "open"
  /\ stage' = [stage EXCEPT ![r] = "serving"]
  /\ Copy(<<r, "http">>, <<r, "server">>)
  /\ UNCHANGED <<transport, open, sent, params, used>>

\* The server task starts a task for the message.
StartHandler(r) ==
  /\ stage[r] = "serving"
  /\ stage' = [stage EXCEPT ![r] = "handling"]
  /\ Copy(<<r, "server">>, <<r, "handler">>)
  /\ UNCHANGED <<transport, open, sent, params, used>>

\* Under stdio the one server task does, for a message without headers.
ReceiveMessage(r) ==
  /\ transport = "stdio"
  /\ stage[r] = "none"
  /\ stage' = [stage EXCEPT ![r] = "handling"]
  /\ \E given \in SUBSET Field : params' = [params EXCEPT ![r] = given]
  /\ Copy(Main, <<r, "handler">>)
  /\ UNCHANGED <<transport, open, sent, used>>

\* asyncio.to_thread in ixia_connect
ToThread(r) ==
  /\ stage[r] = "handling"
  /\ stage' = [stage EXCEPT ![r] = "queued"]
  /\ Copy(<<r, "handler">>, <<r, "thread">>)
  /\ UNCHANGED <<transport, open, sent, params, used>>

-----------------------------------------------------------------------------
(* ConnectionManager                                                        *)

\* __init__: command line, then environment, then a constant.
ServerDefault(f) ==
  IF f \in CliGiven THEN Server("cli")
  ELSE IF f \in EnvGiven THEN Server("env") ELSE Server("hardcoded")

\* _first_not_none of the argument, the header and the server's default
Resolve(r, rh) ==
  [f \in Field |-> IF f \in params[r] THEN Explicit(r)
                   ELSE IF rh[f] # None THEN rh[f] ELSE ServerDefault(f)]

\* connect, on the thread, also when its request has ended
Connect(r) ==
  /\ stage[r] = "queued"
  /\ stage' = [stage EXCEPT ![r] = "connected"]
  /\ used' = [used EXCEPT ![r] = Resolve(r, context[<<r, "thread">>])]
  /\ UNCHANGED <<transport, open, sent, params, context>>

\* The call is over, and its request was before.
Free(r) ==
  /\ stage[r] = "connected" /\ r \notin open
  /\ Forget(r)
  /\ UNCHANGED <<transport, open>>

-----------------------------------------------------------------------------

Next ==
  \E r \in Req :
    \/ Arrive(r) \/ End(r)
    \/ StartServer(r) \/ StartHandler(r) \/ ReceiveMessage(r) \/ ToThread(r)
    \/ Connect(r) \/ Free(r)

Spec == Init /\ [][Next]_vars

-----------------------------------------------------------------------------
(* Properties.                                                              *)

\* "Resolution order for each parameter" (client.py:75-79), with the headers of the
\* request the call came with and of no other.
Expected(r, f) ==
  IF f \in params[r] THEN Explicit(r)
  ELSE IF transport = "streamable-http" /\ sent[r][f] = "value" THEN Header(r)
  ELSE ServerDefault(f)

\* Whatever other requests come, end or are given up meanwhile, each connect gets
\* every parameter from the first source that has it: its own arguments, its own
\* request's headers, the command line, the environment, the built-in default
\* (server.py:46-50, 124; session.py:55; client.py:59-63, 87-92).
OwnDefaults ==
  \A r \in Req : stage[r] = "connected" => \A f \in Field : used[r][f] = Expected(r, f)

=============================================================================
