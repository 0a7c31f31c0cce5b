-------------------------- MODULE TrafficItemsProofs ---------------------------
(***************************************************************************)
(* Proofs about TrafficItems, for any number of agents, items and names and *)
(* any number of properties a call writes: types, that every tool call is   *)
(* atomic and answers what it did, and that repeating a successful call     *)
(* changes nothing.                                                         *)
(***************************************************************************)
EXTENDS TrafficItems, WellFoundedInduction, TLAPS

Busy(a) == job[a].stage # "idle"

\* A call in progress, as job j, found the session as s and has made it t.
Progress(j, s, t) ==
  LET c == j.call
      about(x) == x \in Found(c, s) /\ j.item = {x}
  IN
  /\ j.stage = "add" => c.tool = "create" /\ t = s
  /\ j.stage = "wire" =>
       c.tool = "create" /\ \E x \in Fresh(s) : j.item = {x} /\ t = Added(s, x, c.name)
  /\ j.stage = "remove" => c.tool = "delete" /\ t = s /\ \E x \in Href : about(x)
  /\ j.stage = "write" =>
       /\ c.tool \in {"configure", "track"}
       /\ \E x \in Href :
            /\ about(x) /\ t \in {s, Edited(s, x)}
            /\ c.tool = "configure" => x \in s.wired /\ c.writes # 0
  /\ j.stage = "suspend" =>
       /\ c.tool \in {"start", "stop"} /\ ~AllItems(c) /\ t = s
       /\ \E x \in Href : about(x) /\ j.was = (x \in s.suspended)
  /\ j.stage \in {"apply", "run"} => c.tool = "start" /\ AllItems(c) /\ t = s
  /\ j.stage = "halt" => c.tool = "stop" /\ AllItems(c) /\ t = s
  /\ j.stage = "generate" =>
       /\ c.tool = "generate" /\ s.order # <<>> /\ j.todo \subseteq Items(s)
       /\ \E X \in SUBSET (Items(s) \ j.todo) :
            t = Generated(s, X) /\ (~j.errors => X = Items(s) \ j.todo)

\* The invariant: one call at a time, and how far it is.
IInv ==
  /\ TrafficTypeOK
  /\ \A a, b \in Agent : Busy(a) /\ Busy(b) => a = b
  /\ \A a \in Agent : Busy(a) => job[a].call \in Call /\ Progress(job[a], before, session)

\* A call that succeeded has left the session s as it wants it.
Settled(c, s) ==
  /\ c.tool \in {"configure", "track"} => Found(c, s) \subseteq s.ungenerated
  /\ c.tool = "generate" => Items(s) \cap s.ungenerated = {}
  /\ c.tool = "start" => IF AllItems(c) THEN s.running ELSE Found(c, s) \cap s.suspended = {}
  /\ c.tool = "stop" => IF AllItems(c) THEN ~s.running ELSE Found(c, s) \subseteq s.suspended

\* Nothing has undone what the call that was answered last did.
StillSettled ==
  reply.answer \in Done /\ reply.call.tool \in {"generate", "start", "stop", "configure", "track"}
    => Settled(reply.call, Seen)

-----------------------------------------------------------------------------
(* The operators of TrafficSession.                                         *)

\* The item a call is about is one at most.
LEMMA FoundOne ==
  ASSUME NEW c, NEW s \in Session, NEW x \in Found(c, s), NEW y \in Found(c, s)
  PROVE  x = y
  <1>1. DOMAIN s.order \subseteq Int
    BY DEF Session
  <1> QED
    BY <1>1 DEF Found

\* What is found is an item of the session.
LEMMA FoundItem ==
  ASSUME NEW c, NEW s \in Session
  PROVE  Found(c, s) \subseteq Items(s) /\ Items(s) \subseteq Href
  BY DEF Found, Items, ToSet, Session

\* Setting properties of an item moves no item, so calls find what they found.
LEMMA FoundSame ==
  ASSUME NEW c, NEW s, NEW t, t.order = s.order, t.name = s.name
  PROVE  Found(c, t) = Found(c, s)
  BY DEF Found

\* A non-empty set of numbers has a least one.
LEMMA LeastOf ==
  ASSUME NEW T, T \subseteq Nat, T # {}
  PROVE  \E x \in T : \A y \in T : x <= y
  <1>1. \E x \in T : \A y \in T : ~ (<<y, x>> \in OpToRel(<, Nat))
    BY NatLessThanWellFounded, WFMin, Zenon
  <1>2. PICK x \in T : \A y \in T : ~ (<<y, x>> \in OpToRel(<, Nat))
    BY <1>1
  <1>3. \A y \in T : <<y, x>> \in OpToRel(<, Nat) <=> y < x
    BY DEF OpToRel
  <1>4. \A y \in T : ~ (y < x)
    BY <1>2, <1>3, Zenon
  <1> QED
    BY <1>4

\* RemoveFirst of SequencesExt leaves a sequence of the same elements.
LEMMA RemoveFirstSeq ==
  ASSUME NEW S, NEW q \in Seq(S), NEW x
  PROVE  RemoveFirst(q, x) \in Seq(S)
  <1> DEFINE I == {i \in 1 .. Len(q) : q[i] = x}
  <1>1. CASE I = {}
    BY <1>1 DEF RemoveFirst
  <1>2. CASE I # {}
    <2>1. PICK m \in I : \A j \in I : m <= j
      <3>1. I # {} /\ I \subseteq Nat
        BY <1>2
      <3> HIDE DEF I
      <3> QED
        BY <3>1, LeastOf
    <2>2. Min(I) \in I
      BY <2>1 DEF Min
    <2>3. Min(I) \in 1 .. Len(q) /\ Len(q) \in Nat
      BY <2>2
    <2>4. SelectInSeq(q, LAMBDA v : v = x) = Min(I)
      BY <1>2 DEF SelectInSeq
    <2>5. RemoveFirst(q, x) = RemoveAt(q, Min(I))
      BY <1>2, <2>4 DEF RemoveFirst
    <2> HIDE DEF I
    <2> QED
      BY <2>3, <2>5 DEF RemoveAt
  <1> QED
    BY <1>1, <1>2

-----------------------------------------------------------------------------
(* The REST calls.                                                          *)

\* A REST call leads from a session to a session.
LEMMA RestTyped ==
  ASSUME NEW s \in Session, NEW x \in Href
  PROVE  /\ \A n \in Name : Added(s, x, n) \in Session
         /\ Wired(s, x) \in Session
         /\ Removed(s, x) \in Session
         /\ Edited(s, x) \in Session
         /\ \A b \in BOOLEAN : Suspended(s, x, b) \in Session
         /\ \A X : Generated(s, X) \in Session
         /\ Started(s) \in Session /\ Stopped(s) \in Session
  <1> USE DEF Session
  <1>1. ASSUME NEW n \in Name PROVE Added(s, x, n) \in Session
    <2>1. Append(s.order, x) \in Seq(Href)
      OBVIOUS
    <2>2. [s.name EXCEPT ![x] = n] \in [Href -> Name \cup {NoName}]
      OBVIOUS
    <2> QED
      BY <2>1, <2>2 DEF Added
  <1>2. Removed(s, x) \in Session
    <2>1. RemoveFirst(s.order, x) \in Seq(Href)
      BY RemoveFirstSeq
    <2> QED
      BY <2>1 DEF Removed
  <1>3. ASSUME NEW b \in BOOLEAN PROVE Suspended(s, x, b) \in Session
    BY DEF Suspended
  <1> QED
    BY <1>1, <1>2, <1>3 DEF Wired, Edited, Generated, Started, Stopped

\* Editing an item again is editing it once.
LEMMA EditedAgain ==
  ASSUME NEW s \in Session, NEW x \in Href
  PROVE  Edited(Edited(s, x), x) = Edited(s, x)
  BY DEF Edited, Session

\* Generating one more item.
LEMMA GeneratedMore ==
  ASSUME NEW s \in Session, NEW X, NEW x
  PROVE  /\ Generated(Generated(s, X), {x}) = Generated(s, X \cup {x})
         /\ Generated(s, {}) = s
  BY DEF Generated, Session

\* Generating leads from a session to a session.
LEMMA GeneratedTyped ==
  ASSUME NEW s \in Session, NEW X
  PROVE  Generated(s, X) \in Session
  BY DEF Generated, Session

-----------------------------------------------------------------------------
(* The outcomes of a call.                                                  *)

\* A call of one REST call: it may fail before or after it, or succeed.
LEMMA OneRest ==
  ASSUME NEW c, NEW s, NEW t, <<s, t>> \in Effects(c, s)
  PROVE  /\ <<t, "error">> \in Outcomes(c, s)
         /\ \A a \in Answers(c, s, t) : <<t, a>> \in Outcomes(c, s)
  <1> DEFINE e == <<s, t>>
  <1>1. Last(e) = t /\ 2 \in DOMAIN e /\ e[2] = t
    BY DEF Last
  <1>2. <<e[2], "error">> \in Outcomes(c, s)
    BY <1>1 DEF Outcomes
  <1>3. \A a \in Answers(c, s, Last(e)) : <<Last(e), a>> \in Outcomes(c, s)
    BY DEF Outcomes
  <1> QED
    BY <1>1, <1>2, <1>3

\* Any call may fail before its first REST call.
LEMMA FailsAtOnce == \A c, s : <<s, "error">> \in Outcomes(c, s)
  BY DEF Outcomes

\* The effects of each tool, as far as its first or only REST call.
LEMMA EffectsOf ==
  ASSUME NEW c, NEW s, NEW x
  PROVE  /\ c.tool = "create" /\ x \in Fresh(s)
              => <<s, Added(s, x, c.name), Wired(Added(s, x, c.name), x)>> \in Effects(c, s)
         /\ c.tool = "delete" /\ x \in Found(c, s) => <<s, Removed(s, x)>> \in Effects(c, s)
         /\ c.tool = "configure" /\ c.writes # 0 /\ x \in Found(c, s) \cap s.wired
              => <<s, Edited(s, x)>> \in Effects(c, s)
         /\ c.tool = "configure" /\ c.writes = 0 /\ x \in Found(c, s) \cap s.wired
              => <<s>> \in Effects(c, s)
         /\ c.tool = "track" /\ x \in Found(c, s) => <<s, Edited(s, x)>> \in Effects(c, s)
         /\ \A X \in SUBSET Items(s) :
              c.tool = "generate" => <<s, Generated(s, X)>> \in Effects(c, s)
         /\ c.tool = "start" /\ AllItems(c) => <<s, Started(s)>> \in Effects(c, s)
         /\ c.tool = "stop" /\ AllItems(c) => <<s, Stopped(s)>> \in Effects(c, s)
         /\ c.tool \in {"start", "stop"} /\ ~AllItems(c) /\ x \in Found(c, s)
              => <<s, Suspended(s, x, c.tool = "stop")>> \in Effects(c, s)
  <1>1. CASE c.tool = "create"
    BY <1>1 DEF Effects
  <1>2. CASE c.tool = "delete"
    BY <1>2 DEF Effects
  <1>3. CASE c.tool = "configure"
    BY <1>3 DEF Effects
  <1>4. CASE c.tool = "track"
    BY <1>4 DEF Effects
  <1>5. CASE c.tool = "generate"
    BY <1>5 DEF Effects
  <1>6. CASE c.tool = "start"
    BY <1>6 DEF Effects
  <1>7. CASE c.tool = "stop"
    BY <1>7 DEF Effects
  <1> QED
    BY <1>1, <1>2, <1>3, <1>4, <1>5, <1>6, <1>7

\* The answers of each tool.
LEMMA AnswersOf ==
  ASSUME NEW c, NEW s, NEW t
  PROVE  /\ c.tool \in {"create", "delete", "track"} => Answers(c, s, t) = {"ok"}
         /\ c.tool = "configure" => Answers(c, s, t) = {IF c.writes = 0 THEN "nothing" ELSE "ok"}
         /\ c.tool = "generate" =>
              Answers(c, s, t) =
                IF s.order = <<>> THEN {"nothing"}
                ELSE {"partial"} \cup (IF t = Generated(s, Items(s)) THEN {"ok"} ELSE {})
         /\ c.tool \in {"start", "stop"} /\ AllItems(c) => Answers(c, s, t) = {"ok"}
         /\ c.tool \in {"start", "stop"} /\ ~AllItems(c) =>
              Answers(c, s, t) = {IF Found(c, s) \subseteq s.suspended THEN "was suspended"
                                                                        ELSE "was not suspended"}
  <1>1. CASE c.tool \in {"create", "delete", "track"}
    BY <1>1 DEF Answers
  <1>2. CASE c.tool = "configure"
    BY <1>2 DEF Answers
  <1>3. CASE c.tool = "generate"
    BY <1>3 DEF Answers
  <1>4. CASE c.tool \in {"start", "stop"}
    BY <1>4 DEF Answers
  <1> QED
    BY <1>1, <1>2, <1>3, <1>4

-----------------------------------------------------------------------------
(* How calls begin, go on and end.                                          *)

\* A call is answered, with an outcome of it.
Answered ==
  /\ reply'.call \in Call
  /\ <<Seen', reply'.answer>> \in Outcomes(reply'.call, Seen)

\* A step of the tools keeps the invariant; others see a whole call or nothing.
GoodStep == IInv' /\ (Answered \/ UNCHANGED <<Seen, reply>>)

\* What others see of the session while a call is in progress, and between calls.
LEMMA SeenIs ==
  ASSUME IInv
  PROVE  /\ Free <=> \A a \in Agent : ~Busy(a)
         /\ Free => Seen = session
         /\ \A a \in Agent : Busy(a) => Seen = before
  BY DEF IInv, Seen, Busy, Free

\* A call begins.
LEMMA BeginStep ==
  ASSUME IInv, NEW a \in Agent, Free, NEW c \in Call, NEW j \in Job, Begin(a, c, j),
         j.stage # "idle", NEW k, k = [j EXCEPT !.call = c], Progress(k, session, session)
  PROVE  GoodStep
  <1>1. k \in Job /\ k.stage # "idle" /\ k.call = c
    BY DEF Job
  <1>2. /\ job' = [job EXCEPT ![a] = k] /\ before' = session
        /\ session' = session /\ reply' = reply
    BY DEF Begin
  <1>3. \A b \in Agent : ~Busy(b)
    BY SeenIs
  <1>4. TrafficTypeOK'
    BY <1>1, <1>2 DEF IInv, TrafficTypeOK
  <1>5. \A b \in Agent : job'[b] = (IF b = a THEN k ELSE job[b])
    BY <1>2 DEF IInv, TrafficTypeOK
  <1>6. \A b \in Agent : Busy(b)' <=> b = a
    BY <1>1, <1>3, <1>5 DEF Busy
  <1>7. IInv'
    BY <1>1, <1>2, <1>4, <1>5, <1>6 DEF IInv
  <1>8. Seen' = session /\ Seen = session
    BY <1>2, <1>7, <1>6, SeenIs DEF Seen, Busy
  <1> QED
    BY <1>2, <1>7, <1>8 DEF GoodStep

\* A call is answered at once.
LEMMA RefuseStep ==
  ASSUME IInv, Free, NEW c \in Call, NEW answer \in Answer, Refuse(c, answer),
         <<session, answer>> \in Outcomes(c, session)
  PROVE  GoodStep
  <1>1. /\ reply' = [call |-> c, answer |-> answer]
        /\ session' = session /\ job' = job /\ before' = before
    BY DEF Refuse
  <1>2. reply' \in Reply /\ reply'.call = c /\ reply'.answer = answer
    BY <1>1 DEF Reply
  <1>3. IInv'
    BY <1>1, <1>2 DEF IInv, TrafficTypeOK, Busy
  <1>4. Seen = session /\ Seen' = session
    BY <1>1, SeenIs DEF Seen
  <1> QED
    BY <1>2, <1>3, <1>4 DEF GoodStep, Answered

\* The call in progress ends.
LEMMA FinishStep ==
  ASSUME IInv, NEW a \in Agent, Busy(a), NEW answer \in Answer, Finish(a, answer),
         session' \in Session, <<session', answer>> \in Outcomes(job[a].call, before)
  PROVE  GoodStep
  <1> DEFINE c == job[a].call
  <1>1. /\ job' = [job EXCEPT ![a] = NoJob] /\ before' = EmptySession
        /\ reply' = [call |-> c, answer |-> answer]
    BY DEF Finish
  <1>2. c \in Call
    BY DEF IInv
  <1>3. reply' \in Reply /\ reply'.call = c /\ reply'.answer = answer
    BY <1>1, <1>2 DEF Reply
  <1>4. NoJob \in Job /\ EmptySession \in Session /\ NoJob.stage = "idle"
    BY TrafficAssumption DEF NoJob, Job, EmptySession, Session
  <1>5. \A b \in Agent : job'[b] = (IF b = a THEN NoJob ELSE job[b])
    BY <1>1 DEF IInv, TrafficTypeOK
  <1>6. \A b \in Agent : ~Busy(b)'
    BY <1>4, <1>5 DEF IInv, Busy
  <1>7. TrafficTypeOK'
    BY <1>1, <1>3, <1>4 DEF IInv, TrafficTypeOK
  <1>8. IInv'
    BY <1>6, <1>7 DEF IInv
  <1>9. Seen = before /\ Seen' = session'
    BY <1>6, SeenIs DEF Seen, Busy
  <1> QED
    BY <1>2, <1>3, <1>8, <1>9 DEF GoodStep, Answered

\* The call in progress goes on.
LEMMA GotoStep ==
  ASSUME IInv, NEW a \in Agent, Busy(a), NEW j \in Job, Goto(a, j), session' \in Session,
         j.stage # "idle", j.call = job[a].call, Progress(j, before, session')
  PROVE  GoodStep
  <1>1. job' = [job EXCEPT ![a] = j] /\ reply' = reply /\ before' = before
    BY DEF Goto
  <1>2. \A b \in Agent : job'[b] = (IF b = a THEN j ELSE job[b])
    BY <1>1 DEF IInv, TrafficTypeOK
  <1>3. \A b \in Agent : Busy(b)' <=> b = a
    BY <1>2 DEF IInv, Busy
  <1>4. TrafficTypeOK'
    BY <1>1 DEF IInv, TrafficTypeOK
  <1>5. IInv'
    BY <1>1, <1>2, <1>3, <1>4 DEF IInv
  <1>6. Seen = before /\ Seen' = before
    BY <1>1, <1>3, SeenIs DEF Seen, Busy
  <1> QED
    BY <1>1, <1>5, <1>6 DEF GoodStep

\* An exception ends the call, before or after its REST call took effect.
LEMMA FailStep ==
  ASSUME IInv, NEW a \in Agent, Busy(a), Finish(a, "error"), NEW new \in Session,
         session' \in {session, new}, <<session, "error">> \in Outcomes(job[a].call, before),
         <<new, "error">> \in Outcomes(job[a].call, before)
  PROVE  GoodStep
  <1>1. session' \in Session
    BY DEF IInv, TrafficTypeOK
  <1> QED
    BY <1>1, FinishStep DEF Answer

-----------------------------------------------------------------------------
(* The beginning of each call.                                              *)

\* An agent that calls nothing is typed as one that does.
LEMMA NoJobTyped ==
  /\ NoJob \in Job
  /\ NoJob.item = {} /\ NoJob.todo = {} /\ NoJob.errors = FALSE
  BY TrafficAssumption DEF NoJob, Job

\* A call that is about one item begins (traffic.py:84).
LEMMA BeginAbout ==
  ASSUME IInv, Free, NEW a \in Agent, NEW c \in Call, NEW x \in Found(c, session),
         NEW j \in Job, Begin(a, c, j), j.item = {x},
         \/ j.stage = "remove" /\ c.tool = "delete"
         \/ j.stage = "write" /\ \/ c.tool = "track"
                                 \/ c.tool = "configure" /\ x \in session.wired /\ c.writes # 0
         \/ j.stage = "suspend" /\ /\ c.tool \in {"start", "stop"} /\ ~AllItems(c)
                                   /\ j.was = (x \in session.suspended)
  PROVE  GoodStep
  <1> DEFINE k == [j EXCEPT !.call = c]
  <1>1. k.stage = j.stage /\ k.item = {x} /\ k.was = j.was /\ k.call = c
    BY DEF Job
  <1>2. x \in Href
    BY FoundItem DEF IInv, TrafficTypeOK
  <1> HIDE DEF k
  <1>3. Progress(k, session, session)
    BY <1>1, <1>2 DEF Progress
  <1> QED
    BY <1>3, BeginStep DEF k

\* A call that begins keeps the invariant, and so does one that is refused.
LEMMA BeginGood ==
  ASSUME IInv, NEW a \in Agent, NEW c \in Call,
         \/ BeginCreate(a, c) \/ BeginDelete(a, c) \/ BeginConfigure(a, c) \/ BeginTrack(a, c)
         \/ BeginOne(a, c) \/ BeginAll(a, c) \/ BeginGenerate(a, c)
  PROVE  GoodStep
  <1>0. session \in Session
    BY DEF IInv, TrafficTypeOK
  <1>1. Free
    BY DEF BeginCreate, BeginDelete, BeginConfigure, BeginTrack, BeginOne, BeginAll, BeginGenerate
  <1>2. ASSUME Refuse(c, "error") PROVE GoodStep
    BY <1>1, <1>2, FailsAtOnce, RefuseStep DEF Answer
  <1>3. \A x \in Found(c, session) : x \in Href
    BY <1>0, FoundItem
  <1>4. CASE BeginCreate(a, c)
    <2> DEFINE j == [NoJob EXCEPT !.stage = "add"]
               k == [j EXCEPT !.call = c]
    <2>1. j \in Job /\ j.stage = "add" /\ k.stage = "add" /\ k.call = c
      BY NoJobTyped DEF Job
    <2> HIDE DEF k
    <2>2. c.tool = "create" => Progress(k, session, session)
      BY <2>1 DEF Progress
    <2>3. c.tool = "create" /\ (Begin(a, c, j) \/ Refuse(c, "error"))
      BY <1>4 DEF BeginCreate
    <2> QED
      BY <1>1, <1>2, <2>1, <2>2, <2>3, BeginStep DEF k
  <1>5. CASE BeginDelete(a, c)
    <2>1. ASSUME NEW x \in Found(c, session),
                 Begin(a, c, [NoJob EXCEPT !.stage = "remove", !.item = {x}])
          PROVE  GoodStep
      <3> DEFINE j == [NoJob EXCEPT !.stage = "remove", !.item = {x}]
      <3>1. j \in Job /\ j.stage = "remove" /\ j.item = {x}
        BY <1>3, NoJobTyped DEF Job
      <3> HIDE DEF j
      <3>2. Begin(a, c, j) /\ c.tool = "delete"
        BY <1>5, <2>1 DEF BeginDelete, j
      <3> QED
        BY <1>1, <3>1, <3>2, BeginAbout
    <2> QED
      BY <1>2, <1>5, <2>1 DEF BeginDelete
  <1>6. CASE BeginConfigure(a, c)
    <2>0. c.tool = "configure" /\ c.writes \in 0 .. MaxWrites
      BY <1>6 DEF BeginConfigure, Call
    <2>1. ASSUME NEW x \in Found(c, session) \cap session.wired, c.writes # 0,
                 Begin(a, c, [NoJob EXCEPT !.stage = "write", !.item = {x}, !.left = c.writes])
          PROVE  GoodStep
      <3> DEFINE j == [NoJob EXCEPT !.stage = "write", !.item = {x}, !.left = c.writes]
      <3>1. j \in Job /\ j.stage = "write" /\ j.item = {x}
        BY <1>3, <2>0, NoJobTyped DEF Job
      <3> HIDE DEF j
      <3>2. Begin(a, c, j)
        BY <2>1 DEF j
      <3> QED
        BY <1>1, <2>0, <2>1, <3>1, <3>2, BeginAbout
    <2>2. ASSUME NEW x \in Found(c, session) \cap session.wired, c.writes = 0,
                 Refuse(c, "nothing")
          PROVE  GoodStep
      <3>1. <<session>> \in Effects(c, session)
        BY <2>0, <2>2, EffectsOf
      <3>2. Last(<<session>>) = session /\ "nothing" \in Answers(c, session, session)
        BY <2>0, <2>2, AnswersOf DEF Last
      <3>3. <<session, "nothing">> \in Outcomes(c, session)
        BY <3>1, <3>2 DEF Outcomes
      <3> QED
        BY <1>1, <2>2, <3>3, RefuseStep DEF Answer
    <2> QED
      BY <1>2, <1>6, <2>1, <2>2 DEF BeginConfigure
  <1>7. CASE BeginTrack(a, c)
    <2>1. ASSUME NEW x \in Found(c, session),
                 Begin(a, c, [NoJob EXCEPT !.stage = "write", !.item = {x}, !.left = 1])
          PROVE  GoodStep
      <3> DEFINE j == [NoJob EXCEPT !.stage = "write", !.item = {x}, !.left = 1]
      <3>1. 1 \in 0 .. MaxWrites
        BY TrafficAssumption
      <3>2. j \in Job /\ j.stage = "write" /\ j.item = {x}
        BY <1>3, <3>1, NoJobTyped DEF Job
      <3> HIDE DEF j
      <3>3. Begin(a, c, j) /\ c.tool = "track"
        BY <1>7, <2>1 DEF BeginTrack, j
      <3> QED
        BY <1>1, <3>2, <3>3, BeginAbout
    <2> QED
      BY <1>2, <1>7, <2>1 DEF BeginTrack
  <1>8. CASE BeginOne(a, c)
    <2>1. ASSUME NEW x \in Found(c, session), NEW b \in BOOLEAN, b = (x \in session.suspended),
                 Begin(a, c, [NoJob EXCEPT !.stage = "suspend", !.item = {x}, !.was = b])
          PROVE  GoodStep
      <3> DEFINE j == [NoJob EXCEPT !.stage = "suspend", !.item = {x}, !.was = b]
      <3>1. j \in Job /\ j.stage = "suspend" /\ j.item = {x} /\ j.was = b
        BY <1>3, NoJobTyped DEF Job
      <3> HIDE DEF j
      <3>2. Begin(a, c, j) /\ c.tool \in {"start", "stop"} /\ ~AllItems(c)
        BY <1>8, <2>1 DEF BeginOne, j
      <3> QED
        BY <1>1, <2>1, <3>1, <3>2, BeginAbout
    <2>2. ASSUME NEW x \in Found(c, session),
                 Begin(a, c, [NoJob EXCEPT !.stage = "suspend", !.item = {x},
                                           !.was = x \in session.suspended])
          PROVE  GoodStep
      <3>0. (x \in session.suspended) \in BOOLEAN
        OBVIOUS
      <3>1. PICK b \in BOOLEAN : b = (x \in session.suspended)
        BY <3>0, Zenon
      <3>2. Begin(a, c, [NoJob EXCEPT !.stage = "suspend", !.item = {x}, !.was = b])
        BY <2>2, <3>1, Zenon
      <3> QED
        BY <2>1, <3>1, <3>2
    <2> QED
      BY <1>2, <1>8, <2>2 DEF BeginOne
  <1>9. CASE BeginAll(a, c)
    <2> DEFINE st == IF c.tool = "start" THEN "apply" ELSE "halt"
               j == [NoJob EXCEPT !.stage = st]
               k == [j EXCEPT !.call = c]
    <2>0. st \in {"apply", "halt"}
      OBVIOUS
    <2>1. c.tool \in {"start", "stop"} /\ AllItems(c)
      BY <1>9 DEF BeginAll
    <2>2. \/ st = "apply" /\ c.tool = "start"
          \/ st = "halt" /\ c.tool = "stop"
      BY <2>1
    <2>3. Begin(a, c, j) \/ Refuse(c, "error")
      BY <1>9 DEF BeginAll
    <2> HIDE DEF st
    <2>4. j \in Job /\ j.stage = st /\ k.stage = st /\ k.call = c
      BY <2>0, NoJobTyped DEF Job
    <2> HIDE DEF k
    <2>5. Progress(k, session, session)
      BY <2>0, <2>1, <2>2, <2>4 DEF Progress
    <2>6. j.stage # "idle"
      BY <2>0, <2>4
    <2> QED
      BY <1>1, <1>2, <2>3, <2>4, <2>5, <2>6, BeginStep DEF k
  <1>10. CASE BeginGenerate(a, c)
    <2>0. c.tool = "generate" /\ Items(session) \in SUBSET Href
      BY <1>0, <1>10, FoundItem DEF BeginGenerate
    <2>1. CASE session.order = <<>> /\ Refuse(c, "nothing")
      <3>1. <<session, Generated(session, {})>> \in Effects(c, session)
        BY <2>0, EffectsOf
      <3>2. "nothing" \in Answers(c, session, session)
        BY <2>0, <2>1, AnswersOf
      <3>3. Generated(session, {}) = session
        BY <1>0, GeneratedMore
      <3> QED
        BY <1>1, <2>1, <3>1, <3>2, <3>3, OneRest, RefuseStep DEF Answer
    <2>2. ASSUME session.order # <<>>,
                 Begin(a, c, [NoJob EXCEPT !.stage = "generate", !.todo = Items(session)])
          PROVE  GoodStep
      <3> DEFINE j == [NoJob EXCEPT !.stage = "generate", !.todo = Items(session)]
                 k == [j EXCEPT !.call = c]
      <3>1. /\ j \in Job /\ j.stage = "generate"
            /\ k.stage = "generate" /\ k.call = c /\ k.todo = Items(session)
        BY <2>0, NoJobTyped DEF Job
      <3> HIDE DEF k
      <3>2. Generated(session, {}) = session
        BY <1>0, GeneratedMore
      <3>3. Progress(k, session, session)
        BY <2>0, <2>2, <3>1, <3>2 DEF Progress
      <3> QED
        BY <1>1, <2>2, <3>1, <3>3, BeginStep DEF k
    <2> QED
      BY <1>2, <1>10, <2>1, <2>2 DEF BeginGenerate
  <1> QED
    BY <1>4, <1>5, <1>6, <1>7, <1>8, <1>9, <1>10

-----------------------------------------------------------------------------
(* The REST calls of each call.                                             *)

\* The last REST call of a tool.
LEMMA LastRest ==
  ASSUME IInv, NEW a \in Agent, Busy(a), NEW new \in Session, NEW answer \in Answer,
         Rest(new, a, Finish(a, answer)),
         {<<session, "error">>, <<new, "error">>, <<new, answer>>}
           \subseteq Outcomes(job[a].call, before)
  PROVE  GoodStep
  <1>1. CASE session' = new /\ Finish(a, answer)
    BY <1>1, FinishStep
  <1>2. CASE session' \in {session, new} /\ Finish(a, "error")
    BY <1>2, FailStep
  <1> QED
    BY <1>1, <1>2 DEF Rest

\* A REST call of a tool after which it goes on.
LEMMA NextRest ==
  ASSUME IInv, NEW a \in Agent, Busy(a), NEW new \in Session, NEW j \in Job,
         Rest(new, a, Goto(a, j)), j.stage # "idle", j.call = job[a].call,
         Progress(j, before, new),
         {<<session, "error">>, <<new, "error">>} \subseteq Outcomes(job[a].call, before)
  PROVE  GoodStep
  <1>1. CASE session' = new /\ Goto(a, j)
    BY <1>1, GotoStep
  <1>2. CASE session' \in {session, new} /\ Finish(a, "error")
    BY <1>2, FailStep
  <1> QED
    BY <1>1, <1>2 DEF Rest

\* ixia_create_traffic_item (traffic.py:429, 445).
LEMMA CreateGood ==
  ASSUME IInv, NEW a \in Agent, AddItem(a) \/ AddEndpoints(a)
  PROVE  GoodStep
  <1> DEFINE c == job[a].call
  <1>0. Busy(a) /\ job[a] \in Job /\ before \in Session /\ session \in Session
    BY DEF AddItem, AddEndpoints, At, Busy, IInv, TrafficTypeOK
  <1>1. c \in Call /\ Progress(job[a], before, session)
    BY <1>0 DEF IInv
  <1>2. CASE AddItem(a)
    <2>1. c.tool = "create" /\ session = before /\ c.name \in Name
      BY <1>1, <1>2 DEF AddItem, At, Progress, Call
    <2>2. PICK x \in Fresh(session) :
            Rest(Added(session, x, c.name), a,
                 Goto(a, [job[a] EXCEPT !.stage = "wire", !.item = {x}]))
      BY <1>2 DEF AddItem
    <2> DEFINE new == Added(session, x, c.name)
               e == <<session, new, Wired(new, x)>>
               j == [job[a] EXCEPT !.stage = "wire", !.item = {x}]
    <2>3. x \in Href /\ new \in Session
      BY <1>0, <2>1, RestTyped DEF Fresh
    <2>4. e \in Effects(c, before)
      BY <2>1, EffectsOf
    <2>5. <<e[2], "error">> \in Outcomes(c, before)
      BY <2>4 DEF Outcomes
    <2>6. j \in Job /\ j.stage = "wire" /\ j.call = c /\ j.item = {x}
      BY <1>0, <2>3 DEF Job
    <2>7. Rest(new, a, Goto(a, j)) /\ e[2] = new
      BY <2>2
    <2> HIDE DEF e, j
    <2>8. Progress(j, before, new)
      BY <2>1, <2>6 DEF Progress
    <2>9. {<<session, "error">>, <<new, "error">>} \subseteq Outcomes(c, before)
      BY <2>1, <2>5, <2>7, FailsAtOnce
    <2> HIDE DEF new
    <2> QED
      BY <1>0, <2>3, <2>6, <2>7, <2>8, <2>9, NextRest
  <1>3. CASE AddEndpoints(a)
    <2>1. PICK x \in Fresh(before) :
            job[a].item = {x} /\ session = Added(before, x, c.name) /\ c.tool = "create"
      BY <1>1, <1>3 DEF AddEndpoints, At, Progress
    <2> DEFINE new == Wired(session, x)
               e == <<before, session, new>>
    <2>2. x \in Href /\ new \in Session
      BY <1>0, RestTyped DEF Fresh
    <2>3. e \in Effects(c, before)
      BY <2>1, EffectsOf
    <2>4. "ok" \in Answers(c, before, new)
      <3> HIDE DEF new, c
      <3>1. c.tool = "create"
        BY <2>1 DEF c
      <3> QED
        BY <3>1, AnswersOf
    <2>5. Last(e) = new /\ e[2] = session /\ e[3] = new /\ {2, 3} \subseteq DOMAIN e
      <3>1. Len(e) = 3 /\ DOMAIN e = 1 .. 3
        OBVIOUS
      <3> QED
        BY <3>1 DEF Last
    <2>6. Rest(new, a, Finish(a, "ok"))
      BY <1>3, <2>1 DEF AddEndpoints
    <2> HIDE DEF new, e
    <2>7. {<<session, "error">>, <<new, "error">>, <<new, "ok">>} \subseteq Outcomes(c, before)
      <3>1. \A i \in DOMAIN e : <<e[i], "error">> \in Outcomes(c, before)
        BY <2>3 DEF Outcomes
      <3>2. \A i \in Answers(c, before, Last(e)) : <<Last(e), i>> \in Outcomes(c, before)
        BY <2>3 DEF Outcomes
      <3> QED
        BY <2>4, <2>5, <3>1, <3>2
    <2> QED
      BY <1>0, <2>2, <2>6, <2>7, LastRest DEF Answer
  <1> QED
    BY <1>2, <1>3

\* A REST call that is the only one of its tool, with the answer that goes with it.
LEMMA OnlyRest ==
  ASSUME IInv, NEW a \in Agent, Busy(a), NEW new \in Session, NEW answer \in Answer,
         session = before, Rest(new, a, Finish(a, answer)),
         <<before, new>> \in Effects(job[a].call, before),
         answer \in Answers(job[a].call, before, new)
  PROVE  GoodStep
  <1>1. {<<session, "error">>, <<new, "error">>, <<new, answer>>}
          \subseteq Outcomes(job[a].call, before)
    BY OneRest, FailsAtOnce
  <1> QED
    BY <1>1, LastRest

\* ixia_delete_traffic_item (traffic.py:496).
LEMMA RemoveGood ==
  ASSUME IInv, NEW a \in Agent, RemoveItem(a)
  PROVE  GoodStep
  <1> DEFINE c == job[a].call
  <1>0. Busy(a) /\ before \in Session
    BY DEF RemoveItem, At, Busy, IInv, TrafficTypeOK
  <1>1. Progress(job[a], before, session)
    BY <1>0 DEF IInv
  <1>2. /\ c.tool = "delete" /\ session = before
        /\ \E x \in Href : x \in Found(c, before) /\ job[a].item = {x}
    BY <1>1 DEF RemoveItem, At, Progress
  <1>3. PICK x \in Found(c, before) : x \in Href /\ job[a].item = {x}
    BY <1>2
  <1> DEFINE new == Removed(session, x)
  <1>4. new \in Session /\ Rest(new, a, Finish(a, "ok"))
    BY <1>0, <1>2, <1>3, RestTyped DEF RemoveItem
  <1>5. <<before, new>> \in Effects(c, before)
    BY <1>2, EffectsOf
  <1>6. "ok" \in Answers(c, before, new)
    <2>1. c.tool \in {"create", "delete", "track"}
      BY <1>2
    <2> HIDE DEF new, c
    <2> QED
      BY <2>1, AnswersOf
  <1> HIDE DEF new
  <1> QED
    BY <1>0, <1>2, <1>4, <1>5, <1>6, OnlyRest DEF Answer

\* ixia_configure_traffic_item and ixia_add_tracking (traffic.py:560, 620): each further
\* property leaves the session as the first did.
LEMMA WriteGood ==
  ASSUME IInv, NEW a \in Agent, Write(a)
  PROVE  GoodStep
  <1> DEFINE c == job[a].call
  <1>0. Busy(a) /\ before \in Session /\ session \in Session /\ job[a] \in Job
    BY DEF Write, At, Busy, IInv, TrafficTypeOK
  <1>1. Progress(job[a], before, session)
    BY <1>0 DEF IInv
  <1>2. c.tool \in {"configure", "track"}
    BY <1>1 DEF Write, At, Progress
  <1>3. PICK x \in Href : /\ x \in Found(c, before) /\ job[a].item = {x}
                          /\ session \in {before, Edited(before, x)}
                          /\ c.tool = "configure" => x \in before.wired /\ c.writes # 0
    BY <1>1 DEF Write, At, Progress
  <1> DEFINE new == Edited(session, x)
  <1>4. new = Edited(before, x) /\ new \in Session
    BY <1>0, <1>3, EditedAgain, RestTyped
  <1>5. <<before, new>> \in Effects(c, before)
    <2> HIDE DEF c, new
    <2>1. \/ c.tool = "configure" /\ c.writes # 0 /\ x \in Found(c, before) \cap before.wired
          \/ c.tool = "track" /\ x \in Found(c, before)
      BY <1>2, <1>3
    <2> QED
      BY <1>4, <2>1, EffectsOf
  <1>6. Rest(new, a, IF job[a].left > 1 THEN Goto(a, [job[a] EXCEPT !.left = @ - 1])
                                        ELSE Finish(a, "ok"))
    BY <1>3 DEF Write
  <1> HIDE DEF new, c
  <1>7. "ok" \in Answers(c, before, new)
    <2>1. CASE c.tool = "configure"
      <3>1. Answers(c, before, new) = {IF c.writes = 0 THEN "nothing" ELSE "ok"}
        BY <2>1, AnswersOf
      <3> QED
        BY <1>3, <2>1, <3>1
    <2>2. CASE c.tool = "track"
      <3>1. c.tool \in {"create", "delete", "track"}
        BY <2>2
      <3> QED
        BY <3>1, AnswersOf
    <2> QED
      BY <1>2, <2>1, <2>2
  <1>8. {<<session, "error">>, <<new, "error">>, <<new, "ok">>} \subseteq Outcomes(c, before)
    <2>1. <<new, "error">> \in Outcomes(c, before) /\ <<new, "ok">> \in Outcomes(c, before)
      BY <1>5, <1>7, OneRest
    <2>2. <<before, "error">> \in Outcomes(c, before)
      BY FailsAtOnce
    <2>3. session \in {before, new}
      BY <1>3, <1>4
    <2> QED
      BY <2>1, <2>2, <2>3
  <1>9. CASE job[a].left > 1
    <2> DEFINE j == [job[a] EXCEPT !.left = @ - 1]
    <2>1. job[a].left - 1 \in 0 .. MaxWrites
      BY <1>0, <1>9, TrafficAssumption DEF Job
    <2>2. j \in Job /\ j.stage = "write" /\ j.call = c /\ j.item = {x}
      BY <1>0, <1>3, <2>1 DEF Job, Write, At, c
    <2>3. Rest(new, a, Goto(a, j))
      BY <1>6, <1>9 DEF Rest
    <2> HIDE DEF j
    <2>4. Progress(j, before, new)
      BY <1>2, <1>3, <1>4, <2>2 DEF Progress
    <2> QED
      BY <1>0, <1>4, <1>8, <2>2, <2>3, <2>4, NextRest DEF c
  <1>10. CASE ~(job[a].left > 1)
    <2>1. Rest(new, a, Finish(a, "ok"))
      BY <1>6, <1>10 DEF Rest
    <2> QED
      BY <1>0, <1>4, <1>8, <2>1, LastRest DEF Answer, c
  <1> QED
    BY <1>9, <1>10

\* ixia_start_traffic and ixia_stop_traffic about one item (traffic.py:323, 374).
LEMMA SuspendGood ==
  ASSUME IInv, NEW a \in Agent, SetSuspend(a)
  PROVE  GoodStep
  <1> DEFINE c == job[a].call
             answer == IF job[a].was THEN "was suspended" ELSE "was not suspended"
  <1>0. Busy(a) /\ before \in Session
    BY DEF SetSuspend, At, Busy, IInv, TrafficTypeOK
  <1>1. Progress(job[a], before, session)
    BY <1>0 DEF IInv
  <1>2. c.tool \in {"start", "stop"} /\ ~AllItems(c) /\ session = before
    BY <1>1 DEF SetSuspend, At, Progress
  <1>3. PICK x \in Href : /\ x \in Found(c, before) /\ job[a].item = {x}
                          /\ job[a].was = (x \in before.suspended)
    BY <1>1 DEF SetSuspend, At, Progress
  <1> DEFINE new == Suspended(session, x, c.tool = "stop")
  <1>4. new \in Session
    <2>1. \A b \in BOOLEAN : Suspended(session, x, b) \in Session
      BY <1>0, <1>2, <1>3, RestTyped
    <2> QED
      BY <2>1, Zenon
  <1>5. <<before, new>> \in Effects(c, before)
    <2> HIDE DEF c
    <2>1. <<before, Suspended(before, x, c.tool = "stop")>> \in Effects(c, before)
      BY <1>2, <1>3, EffectsOf
    <2> QED
      BY <1>2, <2>1
  <1>6. Rest(new, a, Finish(a, answer))
    BY <1>3 DEF SetSuspend
  <1>7. Found(c, before) = {x}
    BY <1>0, <1>3, FoundOne
  <1> HIDE DEF new, c
  <1>8. answer \in Answers(c, before, new)
    <2>1. Found(c, before) \subseteq before.suspended <=> job[a].was
      BY <1>3, <1>7
    <2>2. Answers(c, before, new) = {IF Found(c, before) \subseteq before.suspended
                                       THEN "was suspended" ELSE "was not suspended"}
      BY <1>2, AnswersOf
    <2> QED
      BY <2>1, <2>2
  <1>9. answer \in Answer
    BY DEF Answer
  <1> HIDE DEF answer
  <1> QED
    BY <1>0, <1>2, <1>4, <1>5, <1>6, <1>8, <1>9, OnlyRest DEF c

\* ixia_start_traffic and ixia_stop_traffic about all items (traffic.py:335, 380).
LEMMA AllGood ==
  ASSUME IInv, NEW a \in Agent, Apply(a) \/ Run(a) \/ Halt(a)
  PROVE  GoodStep
  <1> DEFINE c == job[a].call
  <1>0. Busy(a) /\ before \in Session /\ session \in Session /\ job[a] \in Job
    BY DEF Apply, Run, Halt, At, Busy, IInv, TrafficTypeOK
  <1>1. Progress(job[a], before, session)
    BY <1>0 DEF IInv
  <1>2. CASE Apply(a)
    <2> DEFINE j == [job[a] EXCEPT !.stage = "run"]
    <2>1. c.tool = "start" /\ AllItems(c) /\ session = before
      BY <1>1, <1>2 DEF Apply, At, Progress
    <2>2. Rest(session, a, Goto(a, j))
      BY <1>2 DEF Apply
    <2>3. j \in Job /\ j.stage = "run" /\ j.call = c
      BY <1>0 DEF Job
    <2> HIDE DEF j, c
    <2>4. Progress(j, before, session)
      BY <2>1, <2>3 DEF Progress
    <2>5. <<session, "error">> \in Outcomes(c, before)
      BY <2>1, FailsAtOnce
    <2> QED
      BY <1>0, <2>2, <2>3, <2>4, <2>5, NextRest DEF c
  <1>3. CASE Run(a)
    <2> DEFINE new == Started(session)
    <2>1. c.tool = "start" /\ AllItems(c) /\ session = before
      BY <1>1, <1>3 DEF Run, At, Progress
    <2>2. new \in Session /\ Rest(new, a, Finish(a, "ok"))
      BY <1>0, <1>3 DEF Run, Started, Session
    <2> HIDE DEF c
    <2>3. <<before, new>> \in Effects(c, before)
      BY <2>1, EffectsOf
    <2> HIDE DEF new
    <2>4. "ok" \in Answers(c, before, new)
      BY <2>1, AnswersOf
    <2> QED
      BY <1>0, <2>1, <2>2, <2>3, <2>4, OnlyRest DEF Answer, c
  <1>4. CASE Halt(a)
    <2> DEFINE new == Stopped(session)
    <2>1. c.tool = "stop" /\ AllItems(c) /\ session = before
      BY <1>1, <1>4 DEF Halt, At, Progress
    <2>2. new \in Session /\ Rest(new, a, Finish(a, "ok"))
      BY <1>0, <1>4 DEF Halt, Stopped, Session
    <2> HIDE DEF c
    <2>3. <<before, new>> \in Effects(c, before)
      BY <2>1, EffectsOf
    <2> HIDE DEF new
    <2>4. "ok" \in Answers(c, before, new)
      BY <2>1, AnswersOf
    <2> QED
      BY <1>0, <2>1, <2>2, <2>3, <2>4, OnlyRest DEF Answer, c
  <1> QED
    BY <1>2, <1>3, <1>4

\* ixia_generate_traffic goes from item to item, whatever became of the one before
\* (traffic.py:270).
LEMMA GenerateGood ==
  ASSUME IInv, NEW a \in Agent, GenerateNext(a)
  PROVE  GoodStep
  <1> DEFINE c == job[a].call
             todo == job[a].todo
  <1>0. Busy(a) /\ before \in Session /\ session \in Session /\ job[a] \in Job
    BY DEF GenerateNext, At, Busy, IInv, TrafficTypeOK
  <1>1. Progress(job[a], before, session)
    BY <1>0 DEF IInv
  <1>2. c.tool = "generate" /\ before.order # <<>> /\ todo \subseteq Items(before)
    BY <1>1 DEF GenerateNext, At, Progress
  <1>3. PICK X \in SUBSET (Items(before) \ todo) :
          session = Generated(before, X) /\ (~job[a].errors => X = Items(before) \ todo)
    BY <1>1 DEF GenerateNext, At, Progress
  <1>4. PICK x \in todo, ok \in BOOLEAN :
          /\ session' \in {Generated(session, {x})} \cup (IF ok THEN {} ELSE {session})
          /\ IF todo = {x}
               THEN Finish(a, IF ok /\ ~job[a].errors THEN "ok" ELSE "partial")
               ELSE Goto(a, [job[a] EXCEPT !.todo = @ \ {x}, !.errors = @ \/ ~ok])
    BY DEF GenerateNext
  <1>5. PICK Y \in SUBSET (Items(before) \ (todo \ {x})) :
          /\ session' = Generated(before, Y)
          /\ ok /\ ~job[a].errors => Y = Items(before) \ (todo \ {x})
    <2>1. CASE session' = Generated(session, {x})
      <3>1. session' = Generated(before, X \cup {x})
        <4>1. Generated(Generated(before, X), {x}) = Generated(before, X \cup {x})
          BY <1>0 DEF Generated, Session
        <4> QED
          BY <1>3, <2>1, <4>1
      <3>2. X \cup {x} \in SUBSET (Items(before) \ (todo \ {x}))
        BY <1>2, <1>4
      <3>3. ~job[a].errors => X \cup {x} = Items(before) \ (todo \ {x})
        BY <1>2, <1>3, <1>4
      <3> QED
        BY <3>1, <3>2, <3>3
    <2>2. CASE session' = session /\ ~ok
      <3>1. X \in SUBSET (Items(before) \ (todo \ {x}))
        OBVIOUS
      <3> QED
        BY <1>3, <2>2, <3>1
    <2> QED
      BY <1>4, <2>1, <2>2
  <1>6. session' \in Session /\ Y \in SUBSET Items(before)
    BY <1>0, <1>5, GeneratedTyped
  <1>7. CASE todo = {x}
    <2> DEFINE answer == IF ok /\ ~job[a].errors THEN "ok" ELSE "partial"
    <2>1. Finish(a, answer)
      BY <1>4, <1>7
    <2>2. <<before, Generated(before, Y)>> \in Effects(c, before)
      <3> HIDE DEF c
      <3> QED
        BY <1>2, <1>6, EffectsOf
    <2>3. answer = "ok" => Y = Items(before)
      BY <1>5, <1>7
    <2>4. answer \in {"ok", "partial"}
      OBVIOUS
    <2> HIDE DEF answer, c
    <2>5. answer \in Answers(c, before, Generated(before, Y))
      <3>1. Answers(c, before, Generated(before, Y)) =
              {"partial"} \cup (IF Generated(before, Y) = Generated(before, Items(before))
                               THEN {"ok"} ELSE {})
        BY <1>2, AnswersOf
      <3> QED
        BY <2>3, <2>4, <3>1
    <2>6. <<session', answer>> \in Outcomes(c, before)
      BY <1>5, <2>2, <2>5, OneRest
    <2> QED
      BY <1>0, <1>6, <2>1, <2>4, <2>6, FinishStep DEF c, Answer
  <1>8. CASE todo # {x}
    <2> DEFINE j == [job[a] EXCEPT !.todo = @ \ {x}, !.errors = @ \/ ~ok]
    <2>1. Goto(a, j)
      BY <1>4, <1>8
    <2>2. /\ j \in Job /\ j.stage = "generate" /\ j.call = c /\ j.todo = todo \ {x}
          /\ ~j.errors => ok /\ ~job[a].errors
      <3>1. job[a].errors \in BOOLEAN
        BY <1>0 DEF Job
      <3>2. (job[a].errors \/ ~ok) \in BOOLEAN
        OBVIOUS
      <3>3. PICK b \in BOOLEAN : b = (job[a].errors \/ ~ok)
        BY <3>2, Zenon
      <3>4. j = [job[a] EXCEPT !.todo = @ \ {x}, !.errors = b]
        BY <3>3, Zenon
      <3>5. ~b => ok /\ ~job[a].errors
        BY <3>3
      <3> HIDE DEF j
      <3> QED
        BY <1>0, <3>4, <3>5 DEF Job, GenerateNext, At
    <2> HIDE DEF j, c, todo
    <2>3. Progress(j, before, session')
      <3>1. j.todo \subseteq Items(before)
        BY <1>2, <2>2
      <3>2. \E Z \in SUBSET (Items(before) \ j.todo) :
              session' = Generated(before, Z) /\ (~j.errors => Z = Items(before) \ j.todo)
        BY <1>5, <2>2
      <3> QED
        BY <1>2, <2>2, <3>1, <3>2 DEF Progress
    <2> QED
      BY <1>0, <1>6, <2>1, <2>2, <2>3, GotoStep DEF c
  <1> QED
    BY <1>7, <1>8

\* Every step keeps the invariant, and others see it as a whole call or not at all.
LEMMA StepGood == IInv /\ [Next]_vars => GoodStep
  <1> SUFFICES ASSUME IInv, [Next]_vars PROVE GoodStep
    OBVIOUS
  <1>1. CASE UNCHANGED vars
    <2>1. IInv' /\ UNCHANGED <<Seen, reply>>
      BY <1>1 DEF IInv, TrafficTypeOK, Busy, Seen, vars
    <2> QED
      BY <2>1 DEF GoodStep
  <1>2. ASSUME NEW a \in Agent, NEW c \in Call,
               \/ BeginCreate(a, c) \/ BeginDelete(a, c) \/ BeginConfigure(a, c) \/ BeginTrack(a, c)
               \/ BeginOne(a, c) \/ BeginAll(a, c) \/ BeginGenerate(a, c)
        PROVE  GoodStep
    BY <1>2, BeginGood
  <1>3. ASSUME NEW a \in Agent,
               \/ AddItem(a) \/ AddEndpoints(a) \/ RemoveItem(a) \/ Write(a) \/ SetSuspend(a)
               \/ Apply(a) \/ Run(a) \/ Halt(a) \/ GenerateNext(a)
        PROVE  GoodStep
    BY <1>3, CreateGood, RemoveGood, WriteGood, SuspendGood, AllGood, GenerateGood
  <1> QED
    BY <1>1, <1>2, <1>3 DEF Next

\* The tools start in the invariant, with an empty session.
LEMMA InitGood == Init => IInv /\ Seen = EmptySession
  <1> SUFFICES ASSUME Init PROVE IInv /\ Seen = EmptySession
    OBVIOUS
  <1>1. session = EmptySession /\ reply = [call |-> NoCall, answer |-> "none"]
    BY DEF Init, AtomicInit
  <1>2. EmptySession \in Session
    BY TrafficAssumption DEF EmptySession, Session
  <1>3. reply \in Reply
    BY <1>1 DEF Reply
  <1>4. job = [a \in Agent |-> NoJob] /\ before = EmptySession /\ NoJob \in Job
    BY NoJobTyped DEF Init
  <1>5. \A a \in Agent : job[a].stage = "idle"
    BY <1>4 DEF NoJob
  <1> QED
    BY <1>1, <1>2, <1>3, <1>4, <1>5 DEF IInv, TrafficTypeOK, Busy, Seen

\* What others see is a session.
LEMMA SeenTyped == IInv => Seen \in Session
  BY DEF IInv, TrafficTypeOK, Seen

-----------------------------------------------------------------------------
(* What a success means.                                                    *)

\* The change that a call made which answers that it did what it was asked.
LEMMA SuccessIs ==
  ASSUME NEW c, NEW s, NEW t, NEW answer \in Done, <<t, answer>> \in Outcomes(c, s)
  PROVE  /\ c.tool \in {"configure", "track"} => \E x \in Found(c, s) : t = Edited(s, x)
         /\ c.tool = "generate" => t = Generated(s, Items(s))
         /\ c.tool = "start" /\ AllItems(c) => t = Started(s)
         /\ c.tool = "stop" /\ AllItems(c) => t = Stopped(s)
         /\ c.tool = "start" /\ ~AllItems(c) =>
              \E x \in Found(c, s) : t = [s EXCEPT !.suspended = @ \ {x}]
         /\ c.tool = "stop" /\ ~AllItems(c) =>
              \E x \in Found(c, s) : t = [s EXCEPT !.suspended = @ \cup {x}]
  <1>0. answer # "error"
    BY DEF Done
  <1>1. PICK e \in Effects(c, s) : t = Last(e) /\ answer \in Answers(c, s, t)
    <2>1. PICK e \in Effects(c, s) :
            <<t, answer>> \in {<<e[i], "error">> : i \in DOMAIN e}
                                \cup {<<Last(e), b>> : b \in Answers(c, s, Last(e))}
      BY <1>0 DEF Outcomes
    <2>2. <<t, answer>> \in {<<Last(e), b>> : b \in Answers(c, s, Last(e))}
      BY <1>0, <2>1
    <2> QED
      BY <2>2
  <1>2. \A u, v : Last(<<u, v>>) = v
    BY DEF Last
  <1>3. CASE c.tool = "configure"
    <2>1. c.writes # 0
      BY <1>1, <1>3, AnswersOf DEF Done
    <2>2. PICK x \in Found(c, s) : e = <<s, Edited(s, x)>>
      BY <1>1, <1>3, <2>1 DEF Effects
    <2> QED
      BY <1>1, <1>2, <1>3, <2>2
  <1>4. CASE c.tool = "track"
    <2>1. PICK x \in Found(c, s) : e = <<s, Edited(s, x)>>
      BY <1>1, <1>4 DEF Effects
    <2> QED
      BY <1>1, <1>2, <1>4, <2>1
  <1>5. CASE c.tool = "generate"
    <2>1. Answers(c, s, t) =
            IF s.order = <<>> THEN {"nothing"}
            ELSE {"partial"} \cup (IF t = Generated(s, Items(s)) THEN {"ok"} ELSE {})
      BY <1>5, AnswersOf
    <2>2. answer \notin {"nothing", "partial"}
      BY DEF Done
    <2> QED
      BY <1>1, <1>5, <2>1, <2>2
  <1>6. CASE c.tool = "start"
    <2>1. CASE AllItems(c)
      <3>1. e = <<s, Started(s)>>
        BY <1>1, <1>6, <2>1 DEF Effects
      <3> QED
        BY <1>1, <1>2, <1>6, <2>1, <3>1
    <2>2. CASE ~AllItems(c)
      <3>1. PICK x \in Found(c, s) : e = <<s, [s EXCEPT !.suspended = @ \ {x}]>>
        BY <1>1, <1>6, <2>2 DEF Effects, Suspended
      <3> QED
        BY <1>1, <1>2, <1>6, <2>2, <3>1
    <2> QED
      BY <2>1, <2>2
  <1>7. CASE c.tool = "stop"
    <2>1. CASE AllItems(c)
      <3>1. e = <<s, Stopped(s)>>
        BY <1>1, <1>7, <2>1 DEF Effects
      <3> QED
        BY <1>1, <1>2, <1>7, <2>1, <3>1
    <2>2. CASE ~AllItems(c)
      <3>1. PICK x \in Found(c, s) : e = <<s, [s EXCEPT !.suspended = @ \cup {x}]>>
        BY <1>1, <1>7, <2>2 DEF Effects, Suspended
      <3> QED
        BY <1>1, <1>2, <1>7, <2>2, <3>1
    <2> QED
      BY <2>1, <2>2
  <1> QED
    BY <1>3, <1>4, <1>5, <1>6, <1>7

\* The tools that may be repeated.
Repeatable == {"generate", "start", "stop", "configure", "track"}

\* A success leaves the session settled.
LEMMA SuccessSettles ==
  ASSUME NEW c, c.tool \in Repeatable, NEW s \in Session, NEW t, NEW answer \in Done,
         <<t, answer>> \in Outcomes(c, s)
  PROVE  Settled(c, t)
  <1>1. CASE c.tool \in {"configure", "track"}
    <2>1. PICK x \in Found(c, s) : t = Edited(s, x)
      BY <1>1, SuccessIs
    <2>2. t.order = s.order /\ t.name = s.name /\ x \in t.ungenerated
      BY <2>1 DEF Edited, Session
    <2>3. Found(c, t) = Found(c, s)
      BY <2>2, FoundSame
    <2> QED
      BY <1>1, <2>2, <2>3, FoundOne DEF Settled
  <1>2. CASE c.tool = "generate"
    <2>1. t = Generated(s, Items(s))
      BY <1>2, SuccessIs
    <2>2. t.order = s.order /\ t.ungenerated = s.ungenerated \ Items(s)
      BY <2>1 DEF Generated, Session
    <2>3. Items(t) = Items(s)
      BY <2>2 DEF Items
    <2> QED
      BY <1>2, <2>2, <2>3 DEF Settled
  <1>3. CASE c.tool = "start" /\ AllItems(c)
    BY <1>3, SuccessIs DEF Started, Session, Settled
  <1>4. CASE c.tool = "stop" /\ AllItems(c)
    BY <1>4, SuccessIs DEF Stopped, Session, Settled
  <1>5. ASSUME NEW x \in Found(c, s), NEW X, t = [s EXCEPT !.suspended = X]
        PROVE  t.suspended = X /\ \A y \in Found(c, t) : y = x
    <2>1. t.order = s.order /\ t.name = s.name /\ t.suspended = X
      BY <1>5 DEF Session
    <2>2. Found(c, t) = Found(c, s)
      BY <2>1, FoundSame
    <2> QED
      BY <2>1, <2>2, FoundOne
  <1>6. CASE c.tool = "start" /\ ~AllItems(c)
    <2>1. PICK x \in Found(c, s) : t = [s EXCEPT !.suspended = @ \ {x}]
      BY <1>6, SuccessIs
    <2>2. t.suspended = s.suspended \ {x} /\ \A y \in Found(c, t) : y = x
      BY <1>5, <2>1
    <2> QED
      BY <1>6, <2>2 DEF Settled
  <1>7. CASE c.tool = "stop" /\ ~AllItems(c)
    <2>1. PICK x \in Found(c, s) : t = [s EXCEPT !.suspended = @ \cup {x}]
      BY <1>7, SuccessIs
    <2>2. t.suspended = s.suspended \cup {x} /\ \A y \in Found(c, t) : y = x
      BY <1>5, <2>1
    <2> QED
      BY <1>7, <2>2 DEF Settled
  <1> QED
    BY <1>1, <1>2, <1>3, <1>4, <1>6, <1>7 DEF Repeatable

\* A success of a call that finds the session settled changes nothing.
LEMMA SettledStays ==
  ASSUME NEW c, c.tool \in Repeatable, NEW s \in Session, Settled(c, s), NEW t,
         NEW answer \in Done, <<t, answer>> \in Outcomes(c, s)
  PROVE  t = s
  <1>1. CASE c.tool \in {"configure", "track"}
    <2>1. PICK x \in Found(c, s) : t = Edited(s, x)
      BY <1>1, SuccessIs
    <2>2. s.ungenerated \cup {x} = s.ungenerated
      BY <1>1, <2>1 DEF Settled
    <2> QED
      BY <2>1, <2>2 DEF Edited, Session
  <1>2. CASE c.tool = "generate"
    <2>1. t = Generated(s, Items(s))
      BY <1>2, SuccessIs
    <2>2. s.ungenerated \ Items(s) = s.ungenerated
      BY <1>2 DEF Settled
    <2> QED
      BY <2>1, <2>2 DEF Generated, Session
  <1>3. CASE c.tool = "start" /\ AllItems(c)
    <2>1. t = Started(s) /\ s.running = TRUE
      BY <1>3, SuccessIs DEF Settled, Session
    <2> QED
      BY <2>1 DEF Started, Session
  <1>4. CASE c.tool = "stop" /\ AllItems(c)
    <2>1. t = Stopped(s) /\ s.running = FALSE
      BY <1>4, SuccessIs DEF Settled, Session
    <2> QED
      BY <2>1 DEF Stopped, Session
  <1>5. CASE c.tool = "start" /\ ~AllItems(c)
    <2>1. PICK x \in Found(c, s) : t = [s EXCEPT !.suspended = @ \ {x}]
      BY <1>5, SuccessIs
    <2>2. s.suspended \ {x} = s.suspended
      BY <1>5, <2>1 DEF Settled
    <2> QED
      BY <2>1, <2>2 DEF Session
  <1>6. CASE c.tool = "stop" /\ ~AllItems(c)
    <2>1. PICK x \in Found(c, s) : t = [s EXCEPT !.suspended = @ \cup {x}]
      BY <1>6, SuccessIs
    <2>2. s.suspended \cup {x} = s.suspended
      BY <1>6, <2>1 DEF Settled
    <2> QED
      BY <2>1, <2>2 DEF Session
  <1> QED
    BY <1>1, <1>2, <1>3, <1>4, <1>5, <1>6 DEF Repeatable

\* What the call answered last did is still done.
LEMMA StillSettledStep == IInv /\ StillSettled /\ GoodStep => StillSettled'
  <1> SUFFICES ASSUME IInv, StillSettled, GoodStep PROVE StillSettled'
    OBVIOUS
  <1>1. CASE UNCHANGED <<Seen, reply>>
    BY <1>1 DEF StillSettled, Settled
  <1>2. CASE Answered
    <2> SUFFICES ASSUME reply'.answer \in Done, reply'.call.tool \in Repeatable
                 PROVE  Settled(reply'.call, Seen')
      BY DEF StillSettled, Repeatable
    <2> QED
      BY <1>2, SeenTyped, SuccessSettles DEF Answered
  <1> QED
    BY <1>1, <1>2 DEF GoodStep

-----------------------------------------------------------------------------
(* The theorems.                                                            *)

\* TrafficSession with what others see as its session means by its operators what
\* TrafficItems means by them.
LEMMA SameOutcomes ==
  ASSUME NEW c, NEW s
  PROVE  Atomic!Outcomes(c, s) = Outcomes(c, s)
  BY DEF Atomic!Outcomes, Outcomes, Atomic!Effects, Effects, Atomic!Answers, Answers,
         Atomic!Added, Added, Atomic!Wired, Wired, Atomic!Removed, Removed,
         Atomic!Edited, Edited, Atomic!Suspended, Suspended, Atomic!Generated, Generated,
         Atomic!Started, Started, Atomic!Stopped, Stopped, Atomic!Fresh, Fresh,
         Atomic!Items, Items, Atomic!AllItems, AllItems, Atomic!ByName, ByName,
         Atomic!Found, Found, Atomic!Last, Last, Atomic!ToSet, ToSet,
         Atomic!RemoveFirst, RemoveFirst, Atomic!RemoveAt, RemoveAt,
         Atomic!SelectInSeq, SelectInSeq, Atomic!Min, Min

\* Calls and the session at the start are the same in both modules, too.
LEMMA SameCalls ==
  /\ Atomic!Call = Call /\ Atomic!NoCall = NoCall /\ Atomic!EmptySession = EmptySession
  <1>1. Atomic!Cardinality(Href) = Cardinality(Href)
    BY DEF Atomic!Cardinality, Cardinality
  <1> QED
    BY <1>1 DEF Atomic!Call, Call, Atomic!NoCall, NoCall, Atomic!EmptySession, EmptySession

\* A step is one atomic call, or nothing that others see.
LEMMA StepAtomic == IInv /\ [Next]_vars => [Atomic!AtomicNext]_<<Seen, reply>>
  <1> SUFFICES ASSUME IInv, [Next]_vars PROVE [Atomic!AtomicNext]_<<Seen, reply>>
    OBVIOUS
  <1>1. Answered \/ UNCHANGED <<Seen, reply>>
    BY StepGood DEF GoodStep
  <1>2. Answered => Atomic!AtomicNext
    BY SameOutcomes, SameCalls DEF Answered, Atomic!AtomicNext
  <1> QED
    BY <1>1, <1>2

\* The variables of the tools keep their types.
THEOREM TrafficTyped == Spec => []TrafficTypeOK
  <1>1. IInv /\ [Next]_vars => IInv'
    BY StepGood DEF GoodStep
  <1>2. IInv => TrafficTypeOK
    BY DEF IInv
  <1> QED
    BY <1>1, <1>2, InitGood, PTL DEF Spec

\* Every tool call is atomic, and its answer tells what it did: for any number of agents
\* and items, with an exception after any REST call (`with conn.lock`, traffic.py:270,
\* 323, 429).
THEOREM TrafficImplementsAtomic == Spec => ImplementsAtomic
  <1>1. IInv /\ [Next]_vars => IInv'
    BY StepGood DEF GoodStep
  <1>2. Init => Atomic!AtomicInit
    BY InitGood, SameCalls DEF Init, AtomicInit, Atomic!AtomicInit
  <1> QED
    BY <1>1, <1>2, InitGood, StepAtomic, PTL DEF Spec, ImplementsAtomic, Atomic!AtomicSpec

\* A client that repeats a successful call of generate, start, stop, configure or
\* add_tracking changes nothing more (idempotentHint, traffic.py:252, 306, 357, 515, 594).
THEOREM TrafficRetryHarmless == Spec => RetryHarmless
  <1>1. Init => IInv /\ StillSettled
    BY InitGood DEF Init, AtomicInit, StillSettled, Done
  <1>2. IInv /\ StillSettled /\ [Next]_vars => (IInv /\ StillSettled)'
    BY StepGood, StillSettledStep DEF GoodStep
  <1>3. IInv /\ StillSettled /\ [Next]_vars => [~Repeated(Repeatable)]_vars
    <2> SUFFICES ASSUME IInv, StillSettled, [Next]_vars, Repeated(Repeatable)
                 PROVE  FALSE
      OBVIOUS
    <2>1. /\ reply'.call = reply.call /\ reply.call.tool \in Repeatable
          /\ reply.answer \in Done /\ reply'.answer \in Done /\ Seen' # Seen
      BY DEF Repeated
    <2>2. <<Seen', reply'.answer>> \in Outcomes(reply.call, Seen)
      BY <2>1, StepGood DEF GoodStep, Answered
    <2>3. Settled(reply.call, Seen)
      BY <2>1 DEF StillSettled, Repeatable
    <2> QED
      BY <2>1, <2>2, <2>3, SeenTyped, SettledStays
  <1>4. RetryHarmless <=> [][~Repeated(Repeatable)]_vars
    BY DEF RetryHarmless, Repeatable
  <1> QED
    BY <1>1, <1>2, <1>3, <1>4, PTL DEF Spec

=============================================================================
