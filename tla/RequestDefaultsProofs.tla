------------------------ MODULE RequestDefaultsProofs ------------------------
(***************************************************************************)
(* Proofs about RequestDefaults, for any number of requests and fields: the *)
(* context in use at each stage of a call holds the headers of its own      *)
(* request.                                                                 *)
(***************************************************************************)
EXTENDS RequestDefaults, TLAPS

\* What the context variable must say in the tasks of r.
Wanted(r) ==
  IF transport = "streamable-http" THEN Extract(r, sent[r]) ELSE NoHeaders

\* The context from which the next one is copied, or which connect reads, is right.
ContextInv ==
  /\ context[Main] = NoHeaders
  /\ \A r \in Req :
       /\ stage[r] = "open" => context[<<r, "http">>] = Wanted(r)
       /\ stage[r] = "serving" => context[<<r, "server">>] = Wanted(r)
       /\ stage[r] = "handling" => context[<<r, "handler">>] = Wanted(r)
       /\ stage[r] = "queued" => context[<<r, "thread">>] = Wanted(r)
       /\ stage[r] = "connected" => used[r] = Resolve(r, Wanted(r))

IInv == DefaultsTypeOK /\ ContextInv

-----------------------------------------------------------------------------
(* Types of the operators.                                                  *)

\* The values of the fields are what the type says.
LEMMA NoHeadersType == NoHeaders \in Headers
  BY DEF NoHeaders, Headers, Value

\* The headers of a request are defaults of the fields.
LEMMA ExtractType ==
  ASSUME NEW r \in Req, NEW raw \in [Field -> Raw]
  PROVE  Extract(r, raw) \in Headers
  BY DEF Extract, Headers, Value

\* So is what connect resolves its parameters to.
LEMMA ResolveType ==
  ASSUME NEW r \in Req, NEW rh \in Headers
  PROVE  Resolve(r, rh) \in Headers
  <1> SUFFICES ASSUME NEW f \in Field PROVE Resolve(r, rh)[f] \in Value
    BY DEF Resolve, Headers
  <1>1. ServerDefault(f) \in Value
    BY DEF ServerDefault, Value
  <1>2. Explicit(r) \in Value
    BY DEF Value
  <1> QED
    BY <1>1, <1>2 DEF Resolve, Headers

\* The tasks of requests are different ones, and none is the main task.
LEMMA TasksDiffer ==
  ASSUME NEW q \in Req, NEW r \in Req, NEW x \in Own, NEW y \in Own
  PROVE  /\ <<q, x>> \in Task
         /\ <<q, x>> # Main
         /\ <<q, x>> = <<r, y>> => q = r /\ x = y
  BY DEF Task, Main, Own

\* The event loop has a context.
LEMMA MainIsTask == Main \in Task
  BY DEF Task

-----------------------------------------------------------------------------
(* Each action preserves the invariant.                                     *)

\* The invariant holds when the server starts.
LEMMA InitInv == Init => IInv
  BY NoHeadersType DEF Init, IInv, DefaultsTypeOK, ContextInv, NoneSent, Raw, Task

\* A copy of a context changes that of its target only.
LEMMA CopyContext ==
  ASSUME context \in [Task -> Headers], NEW from \in Task, NEW to \in Task,
         Copy(from, to)
  PROVE  /\ context' \in [Task -> Headers]
         /\ context'[to] = context[from]
         /\ \A t \in Task : t # to => context'[t] = context[t]
  BY DEF Copy

\* Forgetting a call touches its own contexts only.
LEMMA ForgetContext ==
  ASSUME context \in [Task -> Headers], NEW r \in Req, Forget(r)
  PROVE  /\ context' \in [Task -> Headers]
         /\ context'[Main] = context[Main]
         /\ \A q \in Req, x \in Own : q # r => context'[<<q, x>>] = context[<<q, x>>]
  <1>1. context' \in [Task -> Headers]
    BY NoHeadersType DEF Forget
  <1>2. Main \notin {r} \X Own
    BY DEF Main, Own
  <1>3. context'[Main] = context[Main]
    BY <1>2, MainIsTask DEF Forget
  <1>4. ASSUME NEW q \in Req, NEW x \in Own, q # r
        PROVE  context'[<<q, x>>] = context[<<q, x>>]
    <2>1. <<q, x>> \notin {r} \X Own
      BY <1>4
    <2>2. <<q, x>> \in Task
      BY DEF Task
    <2> QED
      BY <2>1, <2>2 DEF Forget
  <1> QED
    BY <1>1, <1>3, <1>4

\* A call moves on: its next context is a copy of one that is right.
LEMMA StageInv ==
  ASSUME IInv, NEW r \in Req, NEW from \in Task, NEW x \in Own, NEW s,
         \/ s = "serving" /\ x = "server"
         \/ s = "handling" /\ x = "handler"
         \/ s = "queued" /\ x = "thread",
         Copy(from, <<r, x>>), context[from] = Wanted(r),
         stage' = [stage EXCEPT ![r] = s],
         UNCHANGED <<transport, open, sent, used>>,
         params' \in [Req -> SUBSET Field],
         \A q \in Req : q # r => params'[q] = params[q]
  PROVE  IInv'
  <1> USE DEF IInv
  <1>1. <<r, x>> \in Task /\ <<r, x>> # Main
    BY TasksDiffer
  <1>2. /\ context' \in [Task -> Headers]
        /\ context'[<<r, x>>] = Wanted(r)
        /\ \A t \in Task : t # <<r, x>> => context'[t] = context[t]
    BY <1>1, CopyContext DEF DefaultsTypeOK
  <1>3. DefaultsTypeOK'
    BY <1>2 DEF DefaultsTypeOK
  <1>4. context'[Main] = NoHeaders
    BY <1>1, <1>2, MainIsTask DEF ContextInv
  <1>5. \A q \in Req : Wanted(q)' = Wanted(q)
    BY DEF Wanted, Extract
  <1>6. ASSUME NEW q \in Req, q # r
        PROVE  /\ stage'[q] = stage[q]
               /\ \A y \in Own : context'[<<q, y>>] = context[<<q, y>>]
               /\ Resolve(q, Wanted(q))' = Resolve(q, Wanted(q))
    <2>1. \A y \in Own : <<q, y>> \in Task /\ <<q, y>> # <<r, x>>
      BY <1>6, TasksDiffer
    <2>2. params'[q] = params[q]
      BY <1>6
    <2>3. Resolve(q, Wanted(q))' = Resolve(q, Wanted(q))
      BY <1>5, <2>2 DEF Resolve
    <2> QED
      BY <1>2, <1>6, <2>1, <2>3 DEF DefaultsTypeOK
  <1>7. stage'[r] = s
    BY DEF DefaultsTypeOK
  <1>8. ASSUME NEW q \in Req
        PROVE  /\ stage'[q] = "open" => context'[<<q, "http">>] = Wanted(q)'
               /\ stage'[q] = "serving" => context'[<<q, "server">>] = Wanted(q)'
               /\ stage'[q] = "handling" => context'[<<q, "handler">>] = Wanted(q)'
               /\ stage'[q] = "queued" => context'[<<q, "thread">>] = Wanted(q)'
               /\ stage'[q] = "connected" => used'[q] = Resolve(q, Wanted(q))'
    <2>1. CASE q = r
      BY <2>1, <1>2, <1>5, <1>7
    <2>2. CASE q # r
      BY <2>2, <1>5, <1>6 DEF ContextInv, Own
    <2> QED
      BY <2>1, <2>2
  <1> QED
    BY <1>3, <1>4, <1>8 DEF ContextInv

\* A free slot, or one that gets free, tells nothing of the other calls.
LEMMA ForgetInv ==
  ASSUME IInv, NEW r \in Req, Forget(r), open' \in SUBSET Req, UNCHANGED transport
  PROVE  IInv'
  <1> USE DEF IInv
  <1>1. /\ context' \in [Task -> Headers]
        /\ context'[Main] = NoHeaders
        /\ \A q \in Req, x \in Own : q # r => context'[<<q, x>>] = context[<<q, x>>]
    BY ForgetContext DEF DefaultsTypeOK, ContextInv
  <1>2. DefaultsTypeOK'
    BY <1>1, NoHeadersType DEF DefaultsTypeOK, Forget, NoneSent, Raw
  <1>3. stage'[r] = "none"
    BY DEF Forget, DefaultsTypeOK
  <1>4. ASSUME NEW q \in Req, q # r
        PROVE  /\ stage'[q] = stage[q] /\ used'[q] = used[q]
               /\ Wanted(q)' = Wanted(q)
               /\ Resolve(q, Wanted(q))' = Resolve(q, Wanted(q))
    <2>1. sent'[q] = sent[q] /\ params'[q] = params[q]
      BY <1>4 DEF Forget, DefaultsTypeOK
    <2>2. Wanted(q)' = Wanted(q)
      BY <2>1 DEF Wanted, Extract
    <2> QED
      BY <1>4, <2>1, <2>2 DEF Forget, DefaultsTypeOK, Resolve
  <1> QED
    BY <1>1, <1>2, <1>3, <1>4 DEF ContextInv, Own

\* A request comes (server.py:46-47).
LEMMA ArriveInv ==
  ASSUME IInv, NEW r \in Req, Arrive(r)
  PROVE  IInv'
  <1> USE DEF IInv
  <1>1. PICK raw \in [Field -> Raw], given \in SUBSET Field :
          /\ sent' = [sent EXCEPT ![r] = raw]
          /\ params' = [params EXCEPT ![r] = given]
          /\ context' = [context EXCEPT ![<<r, "http">>] = Extract(r, raw)]
    BY DEF Arrive
  <1>2. <<r, "http">> \in Task /\ <<r, "http">> # Main
    BY TasksDiffer DEF Own
  <1>3. context' \in [Task -> Headers]
    BY <1>1, ExtractType DEF DefaultsTypeOK
  <1>4. DefaultsTypeOK'
    BY <1>1, <1>3 DEF DefaultsTypeOK, Arrive
  <1>5. context'[Main] = NoHeaders
    BY <1>1, <1>2, MainIsTask DEF ContextInv, DefaultsTypeOK
  <1>6. stage'[r] = "open" /\ context'[<<r, "http">>] = Wanted(r)'
    BY <1>1, <1>2 DEF Arrive, DefaultsTypeOK, Wanted
  <1>7. ASSUME NEW q \in Req, q # r
        PROVE  /\ stage'[q] = stage[q] /\ used'[q] = used[q]
               /\ Wanted(q)' = Wanted(q)
               /\ Resolve(q, Wanted(q))' = Resolve(q, Wanted(q))
               /\ \A x \in Own : context'[<<q, x>>] = context[<<q, x>>]
    <2>1. sent'[q] = sent[q] /\ params'[q] = params[q]
      BY <1>1, <1>7 DEF DefaultsTypeOK
    <2>2. Wanted(q)' = Wanted(q)
      BY <2>1 DEF Wanted, Extract, Arrive
    <2>3. \A x \in Own : <<q, x>> \in Task /\ <<q, x>> # <<r, "http">>
      BY <1>7, TasksDiffer DEF Own
    <2>4. \A x \in Own : context'[<<q, x>>] = context[<<q, x>>]
      BY <1>1, <2>3 DEF DefaultsTypeOK
    <2> QED
      BY <1>7, <2>1, <2>2, <2>4 DEF Arrive, DefaultsTypeOK, Resolve
  <1> QED
    BY <1>4, <1>5, <1>6, <1>7 DEF ContextInv, Own

\* A request ends, its connect perhaps still waiting (server.py:50).
LEMMA EndInv ==
  ASSUME IInv, NEW r \in Req, End(r)
  PROVE  IInv'
  <1> USE DEF IInv
  <1>1. CASE stage[r] # "queued"
    BY <1>1, ForgetInv DEF End, DefaultsTypeOK
  <1>2. CASE stage[r] = "queued"
    <2>1. /\ context' = [context EXCEPT ![<<r, "http">>] = context[Main]]
          /\ UNCHANGED <<transport, stage, sent, params, used>>
      BY <1>2 DEF End
    <2>2. <<r, "http">> \in Task /\ <<r, "http">> # Main
      BY TasksDiffer DEF Own
    <2>3. DefaultsTypeOK'
      BY <2>1, MainIsTask DEF End, DefaultsTypeOK
    <2>4. context'[Main] = NoHeaders
      BY <2>1, <2>2, MainIsTask DEF ContextInv, DefaultsTypeOK
    <2>5. \A q \in Req, x \in Own :
            <<q, x>> # <<r, "http">> => context'[<<q, x>>] = context[<<q, x>>]
      BY <2>1, TasksDiffer DEF DefaultsTypeOK
    <2>6. \A q \in Req : /\ Wanted(q)' = Wanted(q)
                         /\ Resolve(q, Wanted(q))' = Resolve(q, Wanted(q))
      BY <2>1 DEF Wanted, Extract, Resolve
    <2>7. ASSUME NEW q \in Req, stage[q] = "open"
          PROVE  context'[<<q, "http">>] = context[<<q, "http">>]
      BY <1>2, <2>5, <2>7 DEF Own
    <2> QED
      BY <2>1, <2>3, <2>4, <2>5, <2>6, <2>7 DEF ContextInv, Own
  <1> QED
    BY <1>1, <1>2

\* The connect resolves with the context of its thread (client.py:87-92).
LEMMA ConnectInv ==
  ASSUME IInv, NEW r \in Req, Connect(r)
  PROVE  IInv'
  <1> USE DEF IInv
  <1>1. context[<<r, "thread">>] = Wanted(r) /\ context[<<r, "thread">>] \in Headers
    BY TasksDiffer DEF Connect, ContextInv, DefaultsTypeOK, Own
  <1>2. DefaultsTypeOK'
    BY <1>1, ResolveType DEF Connect, DefaultsTypeOK
  <1>3. \A q \in Req : /\ Wanted(q)' = Wanted(q)
                       /\ Resolve(q, Wanted(q))' = Resolve(q, Wanted(q))
    BY DEF Connect, Wanted, Extract, Resolve
  <1>4. stage'[r] = "connected" /\ used'[r] = Resolve(r, Wanted(r))
    BY <1>1 DEF Connect, DefaultsTypeOK
  <1>5. \A q \in Req : q # r => stage'[q] = stage[q] /\ used'[q] = used[q]
    BY DEF Connect, DefaultsTypeOK
  <1>6. context' = context
    BY DEF Connect
  <1> QED
    BY <1>2, <1>3, <1>4, <1>5, <1>6 DEF ContextInv

\* The invariant is inductive.
LEMMA NextInv == IInv /\ [Next]_vars => IInv'
  <1> SUFFICES ASSUME IInv, [Next]_vars PROVE IInv'
    OBVIOUS
  <1>1. ASSUME NEW r \in Req, Arrive(r) PROVE IInv'
    BY <1>1, ArriveInv
  <1>2. ASSUME NEW r \in Req, End(r) PROVE IInv'
    BY <1>2, EndInv
  <1>3. ASSUME NEW r \in Req, StartServer(r) PROVE IInv'
    <2>1. <<r, "http">> \in Task /\ context[<<r, "http">>] = Wanted(r)
      BY <1>3, TasksDiffer DEF StartServer, IInv, ContextInv, Own
    <2>2. params' \in [Req -> SUBSET Field] /\ \A q \in Req : params'[q] = params[q]
      BY <1>3 DEF StartServer, IInv, DefaultsTypeOK
    <2>3. /\ stage' = [stage EXCEPT ![r] = "serving"]
          /\ Copy(<<r, "http">>, <<r, "server">>)
          /\ UNCHANGED <<transport, open, sent, used>>
      BY <1>3 DEF StartServer
    <2>4. "server" \in Own
      BY DEF Own
    <2> QED
      BY <2>1, <2>2, <2>3, <2>4, StageInv
  <1>4. ASSUME NEW r \in Req, StartHandler(r) PROVE IInv'
    <2>1. <<r, "server">> \in Task /\ context[<<r, "server">>] = Wanted(r)
      BY <1>4, TasksDiffer DEF StartHandler, IInv, ContextInv, Own
    <2>2. params' \in [Req -> SUBSET Field] /\ \A q \in Req : params'[q] = params[q]
      BY <1>4 DEF StartHandler, IInv, DefaultsTypeOK
    <2>3. /\ stage' = [stage EXCEPT ![r] = "handling"]
          /\ Copy(<<r, "server">>, <<r, "handler">>)
          /\ UNCHANGED <<transport, open, sent, used>>
      BY <1>4 DEF StartHandler
    <2>4. "handler" \in Own
      BY DEF Own
    <2> QED
      BY <2>1, <2>2, <2>3, <2>4, StageInv
  <1>5. ASSUME NEW r \in Req, ReceiveMessage(r) PROVE IInv'
    <2>1. context[Main] = Wanted(r)
      BY <1>5 DEF ReceiveMessage, IInv, ContextInv, Wanted
    <2>2. /\ params' \in [Req -> SUBSET Field]
          /\ \A q \in Req : q # r => params'[q] = params[q]
      BY <1>5 DEF ReceiveMessage, IInv, DefaultsTypeOK
    <2>3. /\ stage' = [stage EXCEPT ![r] = "handling"]
          /\ Copy(Main, <<r, "handler">>)
          /\ UNCHANGED <<transport, open, sent, used>>
      BY <1>5 DEF ReceiveMessage
    <2>4. "handler" \in Own
      BY DEF Own
    <2> QED
      BY <2>1, <2>2, <2>3, <2>4, StageInv, MainIsTask
  <1>6. ASSUME NEW r \in Req, ToThread(r) PROVE IInv'
    <2>1. <<r, "handler">> \in Task /\ context[<<r, "handler">>] = Wanted(r)
      BY <1>6, TasksDiffer DEF ToThread, IInv, ContextInv, Own
    <2>2. params' \in [Req -> SUBSET Field] /\ \A q \in Req : params'[q] = params[q]
      BY <1>6 DEF ToThread, IInv, DefaultsTypeOK
    <2>3. /\ stage' = [stage EXCEPT ![r] = "queued"]
          /\ Copy(<<r, "handler">>, <<r, "thread">>)
          /\ UNCHANGED <<transport, open, sent, used>>
      BY <1>6 DEF ToThread
    <2>4. "thread" \in Own
      BY DEF Own
    <2> QED
      BY <2>1, <2>2, <2>3, <2>4, StageInv
  <1>7. ASSUME NEW r \in Req, Connect(r) PROVE IInv'
    BY <1>7, ConnectInv
  <1>8. ASSUME NEW r \in Req, Free(r) PROVE IInv'
    BY <1>8, ForgetInv DEF Free, IInv, DefaultsTypeOK
  <1>9. CASE UNCHANGED vars
    <2>1. DefaultsTypeOK'
      BY <1>9 DEF vars, IInv, DefaultsTypeOK
    <2>2. \A r \in Req : /\ Wanted(r)' = Wanted(r)
                         /\ Resolve(r, Wanted(r))' = Resolve(r, Wanted(r))
      BY <1>9 DEF vars, Wanted, Extract, Resolve
    <2>3. context' = context /\ stage' = stage /\ used' = used
      BY <1>9 DEF vars
    <2>4. ContextInv'
      BY <2>2, <2>3 DEF IInv, ContextInv
    <2> QED
      BY <2>1, <2>4 DEF IInv
  <1> QED
    BY <1>1, <1>2, <1>3, <1>4, <1>5, <1>6, <1>7, <1>8, <1>9 DEF Next

-----------------------------------------------------------------------------

\* The context of the thread being the one wanted, so is the result.
LEMMA InvGivesOwnDefaults == IInv => OwnDefaults
  <1> SUFFICES ASSUME IInv, NEW r \in Req, stage[r] = "connected", NEW f \in Field
               PROVE  used[r][f] = Expected(r, f)
    BY DEF OwnDefaults
  <1>1. used[r][f] = Resolve(r, Wanted(r))[f]
    BY DEF IInv, ContextInv
  <1>2. Header(r) # None
    BY DEF Header, None
  <1> QED
    BY <1>1, <1>2 DEF Resolve, Expected, Wanted, Extract, NoHeaders

\* Types of the request slots, the contexts and what connect got.
THEOREM DefaultsTyped == Spec => []DefaultsTypeOK
  <1>1. IInv => DefaultsTypeOK
    BY DEF IInv
  <1> QED
    BY InitInv, NextInv, <1>1, PTL DEF Spec

\* Every connect resolves its parameters with the headers of its own request
\* (server.py:46-50, client.py:75-92), however requests interleave.
THEOREM DefaultsOwn == Spec => []OwnDefaults
  BY InitInv, NextInv, InvGivesOwnDefaults, PTL DEF Spec

=============================================================================
