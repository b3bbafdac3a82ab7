---------------------------- MODULE ClientProofs ----------------------------
(***************************************************************************)
(* The two clients that wait for a line of another process.                *)
(*                                                                         *)
(* The client of the conversion engine, for every number of clients and    *)
(* lines: an answer taken is an answer to the request that was made.  The  *)
(* client of the fcitx and ibus servers, for texts of every length:        *)
(* whatever fails, when a request has returned nothing of it is left       *)
(* behind, and a key has taken effect once.                                *)
(***************************************************************************)
EXTENDS KkcEngine, ReconnectingClient, SequenceTheorems, TLAPS

Waiting(c) == pc[c] = "waiting"

\* Only the client with an engine of its own drains its output, and it is
\* alone with it; no line is late while it does.
Alone ==
  /\ way = "pipes" => ~mixed /\
       \E c \in Client : linked = {c} /\ \A d \in Client \ {c} : pc[d] = "off"
  /\ \A c \in Client : pc[c] = "draining" => way = "pipes" /\ ~engine.late

\* Who has no connection has no result; without a proxy there is no engine.
Unconnected ==
  /\ \A c \in Client : pc[c] = "off" => result[c] = NoResult /\ c \notin linked
  /\ (way = "proxy" /\ spawner = Nobody) =>
       /\ engine = NoEngine /\ linked = {} /\ ~mixed
       /\ \A c \in Client : pc[c] \in {"off", "idle"}

Asked == \A c \in Client : pc[c] \in {"writing", "waiting"} => request[c] \in Request

\* As long as requests have not met, one client waits at most.
OneWaits == ~mixed => \A c, d \in Client : Waiting(c) /\ Waiting(d) => c = d

\* A dead engine has nothing to read, one that has not started has written
\* nothing.
EngineSound ==
  /\ ~engine.alive => engine.input = <<>>
  /\ ~engine.started => engine.output = <<>> /\ ~engine.late

Results == \A c \in linked : result[c].kind = "answer" => result[c].to = request[c]

\* The line made for a request.
LineFor(line, r) == line \in Line /\ line.kind # "noJson" /\ line.to = r

\* All there is in the pipes of an engine that is not behind.
Queue ==
  /\ \A c \in Client : Waiting(c) =>
       \/ engine.alive /\ engine.input = <<request[c]>> /\ engine.output = <<>>
       \/ engine.input = <<>> /\ \E line \in Line :
            LineFor(line, request[c]) /\ engine.output = <<line>>
       \/ ~engine.alive /\ engine.input = <<>> /\ engine.output = <<>>
  /\ (\A c \in Client : ~Waiting(c)) =>
       /\ engine.input = <<>>
       /\ (\A c \in Client : pc[c] # "draining") => engine.output = <<>>

\* Of what there is in the pipes of an engine that is behind, one line or
\* request is left from before the request under way.
Behind(c) ==
  /\ pc[c] = "idle" =>
       \/ engine.input = <<request[c]>> /\ engine.output = <<>>
       \/ engine.input = <<>> /\ \E line \in Line :
            (line.kind = "noJson" \/ LineFor(line, request[c])) /\ engine.output = <<line>>
  /\ pc[c] = "writing" =>
       \/ engine.output = <<>> /\ \E r \in Request : engine.input = <<r>>
       \/ engine.input = <<>> /\ \E line \in Line : engine.output = <<line>>
  /\ Waiting(c) =>
       \/ engine.output = <<>> /\ \E r \in Request : engine.input = <<r, request[c]>>
       \/ engine.input = <<request[c]>> /\ \E line \in Line : engine.output = <<line>>
       \/ engine.input = <<>> /\ \E line, own \in Line :
            LineFor(own, request[c]) /\ engine.output = <<line, own>>

\* The inductive invariant.  That an answer fits its request is a matter of
\* what is in the pipes when the request is written; that needs the one
\* client that waits, and the engine that has not started or has died.
IInv ==
  /\ TypeOK /\ Alone /\ Unconnected /\ Asked /\ OneWaits /\ EngineSound
  /\ (~engine.late /\ ~mixed) => Results /\ Queue
  /\ (way = "pipes" /\ engine.late /\ engine.alive) => \A c \in linked : Behind(c)

-----------------------------------------------------------------------------
(* Lines, results and engines.                                             *)

LEMMA LineTypes ==
  /\ Broken \in Line /\ Broken.kind = "noJson"
  /\ NoResult \in Result /\ NoResult.kind = "none"
  /\ Fallback \in Result /\ Fallback.kind = "fallback"
  /\ \A line \in Line : line.kind = "answer" => line \in Result /\ line.to \in Request
BY DEF Broken, Line, NoResult, Fallback, Result

LEMMA ServedLine ==
  ASSUME NEW r \in Request, NEW kind \in {"answer", "otherJson"}
  PROVE  LineFor([kind |-> kind, to |-> r], r)
BY DEF LineFor, Line

LEMMA EngineTypes ==
  /\ FreshEngine \in Engine /\ NoEngine \in Engine
  /\ FreshEngine.alive /\ ~FreshEngine.started /\ ~FreshEngine.late
  /\ FreshEngine.input = <<>> /\ FreshEngine.output = <<>>
  /\ ~NoEngine.alive /\ ~NoEngine.started /\ ~NoEngine.late
  /\ NoEngine.input = <<>> /\ NoEngine.output = <<>>
<1>1. <<>> \in Seq(Request) /\ <<>> \in Seq(Line) OBVIOUS
<1> QED BY <1>1 DEF FreshEngine, NoEngine, Engine

\* The parts of IInv, for one line in each proof below.
LEMMA EngineParts ==
  ASSUME IInv
  PROVE  /\ engine \in Engine
         /\ engine.alive \in BOOLEAN /\ engine.started \in BOOLEAN /\ engine.late \in BOOLEAN
         /\ engine.input \in Seq(Request) /\ engine.output \in Seq(Line)
BY DEF IInv, TypeOK, Engine

LEMMA EngineOutput ==
  ASSUME NEW e \in Engine, NEW o \in Seq(Line)
  PROVE  /\ [e EXCEPT !.output = o] \in Engine
         /\ [e EXCEPT !.output = o].alive = e.alive /\ [e EXCEPT !.output = o].late = e.late
         /\ [e EXCEPT !.output = o].started = e.started
         /\ [e EXCEPT !.output = o].input = e.input /\ [e EXCEPT !.output = o].output = o
BY DEF Engine

LEMMA EngineInput ==
  ASSUME NEW e \in Engine, NEW i \in Seq(Request)
  PROVE  /\ [e EXCEPT !.input = i] \in Engine
         /\ [e EXCEPT !.input = i].alive = e.alive /\ [e EXCEPT !.input = i].late = e.late
         /\ [e EXCEPT !.input = i].started = e.started
         /\ [e EXCEPT !.input = i].input = i /\ [e EXCEPT !.input = i].output = e.output
BY DEF Engine

LEMMA ShortSequences ==
  ASSUME NEW a, NEW b
  PROVE  /\ Head(<<a>>) = a /\ Tail(<<a>>) = <<>> /\ Tail(<<a, b>>) = <<b>>
         /\ Head(<<a, b>>) = a
         /\ Append(<<>>, a) = <<a>> /\ Append(<<a>>, b) = <<a, b>>
<1>1. Head(<<a>>) = a OBVIOUS
<1>2. Head(<<a, b>>) = a OBVIOUS
<1>3. Tail(<<a>>) = <<>> OBVIOUS
<1>4. Tail(<<a, b>>) = <<b>>
  <2>1. <<a, b>> \in Seq({a, b}) /\ <<a, b>> # <<>> /\ Len(<<a, b>>) = 2 OBVIOUS
  <2>2. /\ Tail(<<a, b>>) \in Seq({a, b}) /\ Len(Tail(<<a, b>>)) = 1
        /\ \A i \in 1..Len(Tail(<<a, b>>)) : Tail(<<a, b>>)[i] = <<a, b>>[i + 1]
    BY <2>1, HeadTailProperties
  <2>3. Tail(<<a, b>>)[1] = b BY <2>2
  <2>4. <<b>> \in Seq({a, b}) /\ Len(<<b>>) = 1 /\ <<b>>[1] = b OBVIOUS
  <2>5. \A i \in 1..Len(Tail(<<a, b>>)) : Tail(<<a, b>>)[i] = <<b>>[i]
    BY <2>2, <2>3, <2>4
  <2> QED BY <2>2, <2>4, <2>5, SeqEqual
<1>5. Append(<<>>, a) = <<a>>
  <2> DEFINE s == Append(<<>>, a)
  <2>1. <<>> \in Seq({a}) OBVIOUS
  <2>2. s \in Seq({a}) /\ Len(s) = 1 /\ s[1] = a BY <2>1
  <2>3. <<a>> \in Seq({a}) /\ Len(<<a>>) = 1 /\ <<a>>[1] = a OBVIOUS
  <2> HIDE DEF s
  <2>4. \A i \in 1..Len(s) : s[i] = <<a>>[i] BY <2>2, <2>3
  <2>5. s = <<a>> BY <2>2, <2>3, <2>4, SeqEqual
  <2> QED BY <2>5 DEF s
<1>6. Append(<<a>>, b) = <<a, b>>
  <2> DEFINE s == Append(<<a>>, b)
  <2>1. <<a>> \in Seq({a, b}) /\ Len(<<a>>) = 1 /\ <<a>>[1] = a OBVIOUS
  <2>2. s \in Seq({a, b}) /\ Len(s) = 2 /\ s[1] = a /\ s[2] = b BY <2>1
  <2>3. <<a, b>> \in Seq({a, b}) /\ Len(<<a, b>>) = 2 /\ <<a, b>>[1] = a /\ <<a, b>>[2] = b
    OBVIOUS
  <2> HIDE DEF s
  <2>4. \A i \in 1..Len(s) : s[i] = <<a, b>>[i]
    <3>1. \A i \in 1..2 : i = 1 \/ i = 2 OBVIOUS
    <3> QED BY <2>2, <2>3, <3>1
  <2>5. s = <<a, b>> BY <2>2, <2>3, <2>4, SeqEqual
  <2> QED BY <2>5 DEF s
<1> QED BY <1>1, <1>2, <1>3, <1>4, <1>5, <1>6

\* A client of the pipes that does anything is the only one.
LEMMA OnlyClient ==
  ASSUME IInv, way = "pipes", NEW c \in Client, pc[c] # "off"
  PROVE  ~mixed /\ linked = {c} /\ \A d \in Client : pc[d] # "off" => d = c
BY DEF IInv, Alone

-----------------------------------------------------------------------------
(* Steps.                                                                  *)

LEMMA InitGood == Init => IInv
<1> SUFFICES ASSUME Init PROVE IInv OBVIOUS
<1>1. /\ engine \in {FreshEngine, NoEngine} /\ ~mixed
      /\ \A c \in Client : request[c] = NoRequest /\ result[c] = NoResult
      /\ \A c \in Client : pc[c] \in {"off", "draining", "idle"}
      /\ way = "proxy" => linked = {} /\ engine = NoEngine /\ \A c \in Client : pc[c] = "off"
      /\ way = "pipes" => \E c \in Client : linked = {c} /\ pc = [d \in Client |-> IF d = c THEN Run ELSE "off"]
      /\ way \in {"pipes", "proxy"} /\ drains \in BOOLEAN /\ Run \in {"draining", "idle"}
  BY EngineAssumption DEF Init, Run
<1>2. TypeOK
  BY <1>1, EngineTypes, LineTypes, EngineAssumption DEF Init, TypeOK
<1>3. Alone BY <1>1, EngineTypes DEF Alone
<1>4. Unconnected BY <1>1 DEF Unconnected
<1>5. OneWaits BY <1>1 DEF OneWaits, Waiting
<1>6. Asked /\ EngineSound BY <1>1, EngineTypes DEF Asked, EngineSound
<1>7. Results /\ Queue
  BY <1>1, EngineTypes, LineTypes DEF Results, Queue, Waiting, Init
<1>8. ~engine.late BY <1>1, EngineTypes
<1> QED BY <1>2, <1>3, <1>4, <1>5, <1>6, <1>7, <1>8 DEF IInv

LEMMA AskStep == ASSUME IInv, NEW c \in Client, NEW r \in Request, Ask(c, r) PROVE IInv'
<1>1. /\ pc[c] = "idle" /\ UNCHANGED <<way, drains, linked, spawner, mixed, engine>>
      /\ request' = [request EXCEPT ![c] = r]
  BY DEF Ask
<1>2. \/ /\ c \in linked /\ (way = "pipes" => engine.alive)
         /\ pc' = [pc EXCEPT ![c] = "writing"] /\ result' = [result EXCEPT ![c] = NoResult]
      \/ /\ ~(c \in linked /\ (way = "pipes" => engine.alive))
         /\ pc' = pc /\ result' = [result EXCEPT ![c] = Fallback]
  BY DEF Ask, Goes, Given
<1>3. TypeOK' BY <1>1, <1>2, LineTypes DEF IInv, TypeOK
<1>4. Alone' BY <1>1, <1>2 DEF IInv, TypeOK, Alone
<1>5. Unconnected' BY <1>1, <1>2 DEF IInv, TypeOK, Unconnected
<1>6. OneWaits' BY <1>1, <1>2 DEF IInv, TypeOK, OneWaits, Waiting
<1>7. Asked' /\ EngineSound' BY <1>1, <1>2 DEF IInv, TypeOK, Asked, EngineSound
<1>8. Results => Results' BY <1>1, <1>2, LineTypes DEF IInv, TypeOK, Results
<1>9. Queue => Queue' BY <1>1, <1>2 DEF IInv, TypeOK, Queue, Waiting
<1>10. ASSUME way = "pipes", engine.late, engine.alive, NEW d \in linked, \A e \in linked : Behind(e)
       PROVE  Behind(d)'
  <2>1. c = d /\ c \in linked BY <1>1, <1>10 DEF IInv, Alone
  <2>2. pc'[c] = "writing" BY <1>1, <1>2, <1>10, <2>1 DEF IInv, TypeOK
  <2>3. Behind(c) BY <1>10, <2>1
  <2>4. \/ engine.input = <<request[c]>> /\ engine.output = <<>>
        \/ engine.input = <<>> /\ \E line \in Line : engine.output = <<line>>
    BY <1>1, <2>3 DEF Behind
  <2>5. engine.input = <<request[c]>> => request[c] \in Request
    <3>1. engine.input = <<request[c]>> => 1 \in 1..Len(engine.input) /\ engine.input[1] = request[c]
      OBVIOUS
    <3> QED BY <3>1, EngineParts, ElementOfSeq
  <2> QED BY <1>1, <2>1, <2>2, <2>4, <2>5 DEF Behind, Waiting
<1> QED BY <1>1, <1>3, <1>4, <1>5, <1>6, <1>7, <1>8, <1>9, <1>10 DEF IInv

LEMMA DrainStep == ASSUME IInv, NEW c \in Client, Drain(c) PROVE IInv'
<1>1. /\ pc[c] = "draining" /\ way = "pipes" /\ ~engine.late
      /\ UNCHANGED <<way, drains, request, result, linked, spawner, mixed>>
  BY DEF Drain, IInv, Alone
<1>2. CASE engine.output # <<>>
  <2>1. engine' = [engine EXCEPT !.output = Tail(@)] /\ pc' = pc
    BY <1>2 DEF Drain, Unread
  <2>2. /\ engine' \in Engine /\ engine'.alive = engine.alive /\ engine'.late = engine.late
        /\ engine'.started = engine.started /\ engine'.input = engine.input
        /\ engine'.output = Tail(engine.output)
    BY <1>2, <2>1, EngineParts, EngineOutput, HeadTailProperties
  <2>3. TypeOK' BY <1>1, <2>1, <2>2 DEF IInv, TypeOK
  <2>4. Alone' /\ OneWaits' BY <1>1, <2>1, <2>2 DEF IInv, Alone, OneWaits, Waiting
  <2>5. Unconnected' BY <1>1, <2>1 DEF IInv, Unconnected
  <2>6. Asked' /\ EngineSound' BY <1>1, <1>2, <2>1, <2>2 DEF IInv, Asked, EngineSound
  <2>7. Results => Results' BY <1>1 DEF Results
  <2>8. \A d \in Client : ~Waiting(d) BY <1>1 DEF IInv, Alone, Waiting
  <2>9. Queue => Queue' BY <1>1, <2>1, <2>2, <2>8 DEF Queue, Waiting
  <2> QED BY <1>1, <2>2, <2>3, <2>4, <2>5, <2>6, <2>7, <2>9 DEF IInv
<1>3. CASE engine.output = <<>>
  <2>1. engine' = engine /\ pc' = [pc EXCEPT ![c] = "idle"]
    BY <1>3 DEF Drain, Unread, Goes
  <2>2. TypeOK' BY <1>1, <2>1 DEF IInv, TypeOK
  <2>3. Alone' BY <1>1, <2>1 DEF IInv, TypeOK, Alone
  <2>4. Unconnected' /\ OneWaits' BY <1>1, <2>1 DEF IInv, TypeOK, Unconnected, OneWaits, Waiting
  <2>5. Asked' /\ EngineSound' BY <1>1, <2>1 DEF IInv, TypeOK, Asked, EngineSound
  <2>6. Results => Results' BY <1>1 DEF Results
  <2>7. Queue => Queue' BY <1>1, <1>3, <2>1 DEF IInv, TypeOK, Queue, Waiting
  <2> QED BY <1>1, <2>1, <2>2, <2>3, <2>4, <2>5, <2>6, <2>7 DEF IInv
<1> QED BY <1>2, <1>3

LEMMA WriteAlive == ASSUME IInv, NEW c \in Client, Write(c), engine.alive PROVE IInv'
<1>1. /\ pc[c] = "writing" /\ UNCHANGED <<way, drains, request, result, linked, spawner>>
      /\ engine' = [engine EXCEPT !.input = Append(engine.input, request[c])]
      /\ mixed' = (mixed \/ \E d \in Others(c) : pc[d] = "waiting")
      /\ pc' = [pc EXCEPT ![c] = "waiting"]
  BY DEF Write, Goes
<1>2. request[c] \in Request BY <1>1 DEF IInv, Asked
<1>3. Append(engine.input, request[c]) \in Seq(Request) BY <1>2, EngineParts
<1>4. /\ engine' \in Engine /\ engine'.alive = engine.alive /\ engine'.late = engine.late
      /\ engine'.started = engine.started /\ engine'.output = engine.output
      /\ engine'.input = Append(engine.input, request[c])
  BY <1>1, <1>3, EngineParts, EngineInput
<1>5. mixed' \in BOOLEAN BY <1>1 DEF IInv, TypeOK
<1>6. TypeOK' BY <1>1, <1>4, <1>5 DEF IInv, TypeOK
<1>7. way = "pipes" => ~mixed' BY <1>1, OnlyClient DEF Others
<1>8. Alone' BY <1>1, <1>4, <1>7 DEF IInv, TypeOK, Alone
<1>9. Unconnected' BY <1>1, EngineTypes DEF IInv, TypeOK, Unconnected
<1>10. Asked' /\ EngineSound' BY <1>1, <1>4 DEF IInv, TypeOK, Asked, EngineSound
<1>11. ~mixed' => ~mixed /\ \A d \in Client : ~Waiting(d) BY <1>1 DEF Others, Waiting
<1>12. OneWaits' BY <1>1, <1>11 DEF IInv, TypeOK, OneWaits, Waiting
<1>13. ASSUME ~engine'.late, ~mixed' PROVE Results' /\ Queue'
  <2>1. Results /\ Queue BY <1>4, <1>11, <1>13 DEF IInv
  <2>2. \A d \in Client : pc[d] # "draining" BY <1>1, OnlyClient DEF IInv, Alone
  <2>3. engine.input = <<>> /\ engine.output = <<>> BY <1>11, <1>13, <2>1, <2>2 DEF Queue
  <2>4. engine'.input = <<request[c]>> BY <1>4, <2>3, ShortSequences
  <2>5. \A d \in Client : Waiting(d)' => d = c BY <1>1, <1>11, <1>13 DEF IInv, TypeOK, Waiting
  <2>6. Waiting(c)' BY <1>1 DEF IInv, TypeOK, Waiting
  <2>7. Queue' BY <1>1, <1>4, <2>3, <2>4, <2>5, <2>6 DEF Queue
  <2>8. Results' BY <1>1, <2>1 DEF Results
  <2> QED BY <2>7, <2>8
<1>14. ASSUME way = "pipes", engine.late, NEW d \in linked PROVE Behind(d)'
  <2>1. c = d BY <1>1, <1>14, OnlyClient
  <2>2. \/ engine.output = <<>> /\ \E r \in Request : engine.input = <<r>>
        \/ engine.input = <<>> /\ \E line \in Line : engine.output = <<line>>
    BY <1>1, <1>14, <2>1 DEF IInv, Behind
  <2>3. pc'[c] = "waiting" BY <1>1 DEF IInv, TypeOK
  <2>4. \/ engine'.output = <<>> /\ \E r \in Request : engine'.input = <<r, request[c]>>
        \/ engine'.input = <<request[c]>> /\ \E line \in Line : engine'.output = <<line>>
    <3>1. CASE engine.output = <<>> /\ \E r \in Request : engine.input = <<r>>
      <4>1. PICK r \in Request : engine.input = <<r>> BY <3>1
      <4>2. engine'.input = <<r, request[c]>> BY <1>4, <4>1, ShortSequences
      <4> QED BY <1>4, <3>1, <4>2
    <3>2. CASE engine.input = <<>> /\ \E line \in Line : engine.output = <<line>>
      <4>1. engine'.input = <<request[c]>> BY <1>4, <3>2, ShortSequences
      <4> QED BY <1>4, <3>2, <4>1
    <3> QED BY <2>2, <3>1, <3>2
  <2> QED BY <1>1, <2>1, <2>3, <2>4 DEF Behind, Waiting
<1> QED BY <1>1, <1>4, <1>6, <1>8, <1>9, <1>10, <1>12, <1>13, <1>14 DEF IInv

LEMMA WriteDead == ASSUME IInv, NEW c \in Client, Write(c), ~engine.alive PROVE IInv'
<1>1. /\ pc[c] = "writing" /\ UNCHANGED <<way, drains, request, spawner, mixed, engine>>
      /\ pc' = [pc EXCEPT ![c] = "idle"] /\ result' = [result EXCEPT ![c] = Fallback]
      /\ linked' = IF way = "proxy" THEN linked \ {c} ELSE linked
  BY DEF Write, Goes, Given
<1>2. linked' \subseteq linked /\ (way = "pipes" => linked' = linked) BY <1>1
<1>3. TypeOK' BY <1>1, <1>2, LineTypes DEF IInv, TypeOK
<1>4. Alone' BY <1>1, <1>2 DEF IInv, TypeOK, Alone
<1>5. Unconnected' BY <1>1, <1>2 DEF IInv, TypeOK, Unconnected
<1>6. Asked' /\ EngineSound' BY <1>1 DEF IInv, TypeOK, Asked, EngineSound
<1>7. OneWaits' BY <1>1 DEF IInv, TypeOK, OneWaits, Waiting
<1>8. Results => Results' BY <1>1, <1>2, LineTypes DEF IInv, TypeOK, Results
<1>9. Queue => Queue' BY <1>1 DEF IInv, TypeOK, Queue, Waiting
<1> QED BY <1>1, <1>3, <1>4, <1>5, <1>6, <1>7, <1>8, <1>9 DEF IInv

\* JSON of another shape: the engine is killed, and another one is run.
LEMMA RestartStep ==
  ASSUME IInv, NEW c \in Client, pc[c] = "waiting", way = "pipes", Restart(c),
         Given(c, Fallback), UNCHANGED <<way, drains, request, linked, spawner, mixed>>
  PROVE  IInv'
<1>1. /\ engine' = FreshEngine /\ pc' = [pc EXCEPT ![c] = Run] /\ Run \in {"draining", "idle"}
      /\ result' = [result EXCEPT ![c] = Fallback]
  BY DEF Restart, Goes, Given, Run
<1>2. ~mixed /\ linked = {c} /\ \A d \in Client : pc[d] # "off" => d = c BY OnlyClient
<1>3. TypeOK' BY <1>1, EngineTypes, LineTypes DEF IInv, TypeOK
<1>4. Alone' BY <1>1, <1>2, EngineTypes DEF IInv, TypeOK, Alone
<1>5. Unconnected' BY <1>1, <1>2 DEF IInv, TypeOK, Unconnected
<1>6. Asked' /\ EngineSound' BY <1>1, EngineTypes DEF IInv, TypeOK, Asked, EngineSound
<1>7. \A d \in Client : ~Waiting(d)' BY <1>1, <1>2 DEF IInv, TypeOK, Waiting
<1>8. OneWaits' BY <1>7 DEF OneWaits
<1>9. Results' BY <1>1, <1>2, LineTypes DEF IInv, TypeOK, Results
<1>10. Queue' BY <1>1, <1>7, EngineTypes DEF Queue
<1>11. ~engine'.late BY <1>1, EngineTypes
<1> QED BY <1>3, <1>4, <1>5, <1>6, <1>8, <1>9, <1>10, <1>11 DEF IInv

\* A line is read and the client goes on.
LEMMA AnswerStep ==
  ASSUME IInv, NEW c \in Client, pc[c] = "waiting", Unread,
         NEW line \in Heads(c), NEW output \in Remaining(c),
         Given(c, IF line.kind = "answer" THEN line ELSE Fallback), Goes(c, "idle"),
         engine' = [engine EXCEPT !.output = output],
         UNCHANGED <<way, drains, request, linked, spawner, mixed>>
  PROVE  IInv'
<1>1. /\ pc' = [pc EXCEPT ![c] = "idle"]
      /\ result' = [result EXCEPT ![c] = IF line.kind = "answer" THEN line ELSE Fallback]
      /\ engine.output # <<>>
  BY DEF Goes, Given, Unread
<1>2. Head(engine.output) \in Line /\ Tail(engine.output) \in Seq(Line)
  BY <1>1, EngineParts, HeadTailProperties
<1>3. line \in Line BY <1>2, LineTypes DEF Heads
<1>4. output \in Seq(Line)
  <2>1. <<Broken>> \in Seq(Line) BY LineTypes
  <2>2. <<Broken>> \o Tail(engine.output) \in Seq(Line) BY <1>2, <2>1, ConcatProperties
  <2> QED BY <1>2, <2>2, EngineParts DEF Remaining
<1>5. /\ engine' \in Engine /\ engine'.alive = engine.alive /\ engine'.late = engine.late
      /\ engine'.started = engine.started /\ engine'.input = engine.input
      /\ engine'.output = output
  BY <1>4, EngineParts, EngineOutput
<1>6. (IF line.kind = "answer" THEN line ELSE Fallback) \in Result BY <1>3, LineTypes
<1>7. TypeOK' BY <1>1, <1>5, <1>6 DEF IInv, TypeOK
<1>8. Alone' BY <1>1, <1>5 DEF IInv, TypeOK, Alone
<1>9. Unconnected' BY <1>1 DEF IInv, TypeOK, Unconnected
<1>10. Asked' /\ EngineSound' BY <1>1, <1>5 DEF IInv, TypeOK, Asked, EngineSound
<1>11. OneWaits' BY <1>1 DEF IInv, TypeOK, OneWaits, Waiting
<1>12. ASSUME ~engine.late, ~mixed PROVE Results' /\ Queue'
  <2>1. Results /\ Queue BY <1>12 DEF IInv
  <2>2. \A d \in Client \ {c} : pc[d] # "waiting" BY <1>12 DEF IInv, OneWaits, Waiting
  <2>3. line = Head(engine.output) /\ output = Tail(engine.output)
    BY <2>2 DEF Heads, Remaining
  <2>4. PICK own \in Line : LineFor(own, request[c]) /\ engine.output = <<own>>
    BY <1>1, <2>1 DEF Queue, Waiting
  <2>5. engine.input = <<>> BY <1>1, <2>1, <2>4 DEF Queue, Waiting
  <2>6. line = own /\ output = <<>> BY <2>3, <2>4, ShortSequences
  <2>7. Results'
    BY <1>1, <2>1, <2>4, <2>6, LineTypes DEF IInv, TypeOK, Results, LineFor
  <2>8. \A d \in Client : ~Waiting(d)' BY <1>1, <2>2 DEF IInv, TypeOK, Waiting
  <2>9. Queue' BY <1>5, <2>5, <2>6, <2>8 DEF Queue
  <2> QED BY <2>7, <2>9
<1>13. ASSUME way = "pipes", engine.late, engine.alive, NEW d \in linked PROVE Behind(d)'
  <2>1. linked = {c} /\ c = d /\ \A e \in Client \ {c} : pc[e] # "waiting"
    BY <1>13, OnlyClient
  <2>2. output = Tail(engine.output) BY <2>1 DEF Remaining
  <2>3. Behind(c) BY <1>13, <2>1 DEF IInv
  <2>4. pc'[c] = "idle" BY <1>1 DEF IInv, TypeOK
  <2>5. \/ engine.input = <<request[c]>> /\ \E first \in Line : engine.output = <<first>>
        \/ engine.input = <<>> /\ \E first, own \in Line :
             LineFor(own, request[c]) /\ engine.output = <<first, own>>
    BY <1>1, <2>3 DEF Behind, Waiting
  <2>6. engine'.input = engine.input /\ engine'.output = Tail(engine.output) BY <1>5, <2>2
  <2>7. \/ engine'.input = <<request[c]>> /\ engine'.output = <<>>
        \/ engine'.input = <<>> /\ \E own \in Line :
             LineFor(own, request[c]) /\ engine'.output = <<own>>
    <3>1. ASSUME NEW first, engine.output = <<first>> PROVE engine'.output = <<>>
      BY <2>6, <3>1, ShortSequences
    <3>2. ASSUME NEW first, NEW own, engine.output = <<first, own>>
          PROVE  engine'.output = <<own>>
      BY <2>6, <3>2, ShortSequences
    <3> QED BY <2>5, <2>6, <3>1, <3>2
  <2> QED BY <2>1, <2>4, <2>7 DEF Behind, Waiting, LineFor
<1> QED BY <1>5, <1>7, <1>8, <1>9, <1>10, <1>11, <1>12, <1>13 DEF IInv

\* The end of the output.
LEMMA EndStep ==
  ASSUME IInv, NEW c \in Client, pc[c] = "waiting", ~Unread, ~engine.alive,
         Goes(c, "idle"), Given(c, Fallback),
         linked' = IF way = "proxy" THEN linked \ {c} ELSE linked,
         UNCHANGED <<way, drains, request, spawner, mixed, engine>>
  PROVE  IInv'
<1>1. /\ pc' = [pc EXCEPT ![c] = "idle"] /\ result' = [result EXCEPT ![c] = Fallback]
      /\ engine.output = <<>> /\ engine.input = <<>>
  BY DEF Goes, Given, Unread, IInv, EngineSound
<1>2. linked' \subseteq linked /\ (way = "pipes" => linked' = linked) OBVIOUS
<1>3. TypeOK' BY <1>1, <1>2, LineTypes DEF IInv, TypeOK
<1>4. Alone' BY <1>1, <1>2 DEF IInv, TypeOK, Alone
<1>5. Unconnected' BY <1>1, <1>2 DEF IInv, TypeOK, Unconnected
<1>6. Asked' /\ EngineSound' BY <1>1 DEF IInv, TypeOK, Asked, EngineSound
<1>7. OneWaits' BY <1>1 DEF IInv, TypeOK, OneWaits, Waiting
<1>8. Results => Results' BY <1>1, <1>2, LineTypes DEF IInv, TypeOK, Results
<1>9. Queue => Queue' BY <1>1 DEF IInv, TypeOK, Queue, Waiting
<1> QED BY <1>3, <1>4, <1>5, <1>6, <1>7, <1>8, <1>9 DEF IInv

LEMMA ReadStep == ASSUME IInv, NEW c \in Client, Read(c) PROVE IInv'
<1>1. CASE ReadResponse(c)
  <2>1. PICK line \in Heads(c) :
          /\ Given(c, IF line.kind = "answer" THEN line ELSE Fallback)
          /\ IF line.kind = "otherJson" /\ way = "pipes" THEN Restart(c)
             ELSE /\ Goes(c, "idle")
                  /\ \E output \in Remaining(c) : engine' = [engine EXCEPT !.output = output]
    BY <1>1 DEF ReadResponse
  <2>2. pc[c] = "waiting" /\ Unread /\ UNCHANGED <<way, drains, request, linked, spawner, mixed>>
    BY <1>1 DEF ReadResponse
  <2>3. CASE line.kind = "otherJson" /\ way = "pipes"
    <3>1. Given(c, Fallback) /\ Restart(c) BY <2>1, <2>3
    <3> QED BY <2>2, <2>3, <3>1, RestartStep
  <2>4. CASE ~(line.kind = "otherJson" /\ way = "pipes")
    <3>1. PICK output \in Remaining(c) : engine' = [engine EXCEPT !.output = output]
      BY <2>1, <2>4
    <3> QED BY <2>1, <2>2, <2>4, <3>1, AnswerStep
  <2> QED BY <2>3, <2>4
<1>2. CASE ~ReadResponse(c)
  BY <1>2, EndStep DEF Read
<1> QED BY <1>1, <1>2

LEMMA MakeKkcStep == ASSUME IInv, NEW c \in Client, MakeKkc(c) PROVE IInv'
<1>1. /\ way = "proxy" /\ pc[c] = "off" /\ UNCHANGED <<way, drains, request, result, mixed>>
      /\ pc' = [pc EXCEPT ![c] = "idle"]
  BY DEF MakeKkc, Goes
<1>2. result[c] = NoResult BY <1>1 DEF IInv, Unconnected
<1>3. CASE spawner # Nobody
  <2>1. linked' = linked \cup {c} /\ UNCHANGED <<spawner, engine>> BY <1>3 DEF MakeKkc
  <2>2. TypeOK' BY <1>1, <2>1 DEF IInv, TypeOK
  <2>3. Alone' BY <1>1, <2>1 DEF IInv, TypeOK, Alone
  <2>4. Unconnected' BY <1>1, <1>3, <2>1 DEF IInv, TypeOK, Unconnected
  <2>5. Asked' /\ EngineSound' BY <1>1, <2>1 DEF IInv, TypeOK, Asked, EngineSound
  <2>6. OneWaits' BY <1>1 DEF IInv, TypeOK, OneWaits, Waiting
  <2>7. Results => Results' BY <1>1, <1>2, <2>1, LineTypes DEF Results
  <2>8. Queue => Queue' BY <1>1, <2>1 DEF IInv, TypeOK, Queue, Waiting
  <2> QED BY <1>1, <2>1, <2>2, <2>3, <2>4, <2>5, <2>6, <2>7, <2>8 DEF IInv
<1>4. CASE spawner = Nobody
  <2>1. linked' = {c} /\ spawner' = c /\ engine' = FreshEngine BY <1>4 DEF MakeKkc
  <2>2. \A d \in Client : pc[d] \in {"off", "idle"} BY <1>1, <1>4 DEF IInv, Unconnected
  <2>3. TypeOK' BY <1>1, <2>1, EngineTypes DEF IInv, TypeOK
  <2>4. Alone' BY <1>1, <2>1, EngineTypes DEF IInv, TypeOK, Alone
  <2>5. Unconnected' BY <1>1, <2>1, EngineAssumption DEF IInv, TypeOK, Unconnected
  <2>6. Asked' /\ EngineSound' BY <1>1, <2>1, EngineTypes DEF IInv, TypeOK, Asked, EngineSound
  <2>7. \A d \in Client : ~Waiting(d)' BY <1>1, <2>2 DEF IInv, TypeOK, Waiting
  <2>8. OneWaits' BY <2>7 DEF OneWaits
  <2>9. Results' BY <1>1, <1>2, <2>1, LineTypes DEF Results
  <2>10. Queue' BY <2>1, <2>7, EngineTypes DEF Queue
  <2> QED BY <1>1, <2>3, <2>4, <2>5, <2>6, <2>8, <2>9, <2>10 DEF IInv
<1> QED BY <1>3, <1>4

LEMMA CloseImeStep == ASSUME IInv, NEW c \in Client, CloseIme(c) PROVE IInv'
<1>1. /\ way = "proxy" /\ UNCHANGED <<way, drains>> /\ pc[c] = "idle"
      /\ request' = [request EXCEPT ![c] = NoRequest]
  BY DEF CloseIme
<1>2. /\ result' = [d \in Client |-> IF d = c THEN NoResult ELSE
                   IF spawner = c /\ d \in Others(c) THEN Fallback ELSE result[d]]
      /\ pc' = [d \in Client |-> IF d = c THEN "off" ELSE
               IF spawner = c /\ d \in Others(c) THEN "idle" ELSE pc[d]]
  BY DEF CloseIme
<1>3. request' \in [Client -> Request \cup {NoRequest}] BY <1>1 DEF IInv, TypeOK
<1>4. result' \in [Client -> Result] BY <1>2, LineTypes DEF IInv, TypeOK
<1>5. pc' \in [Client -> {"off", "draining", "idle", "writing", "waiting"}]
  BY <1>2 DEF IInv, TypeOK
<1>6. \A d \in Client : pc[d] # "draining" BY <1>1 DEF IInv, Alone
<1>7. CASE spawner # c
  <2>1. linked' = linked \ {c} /\ UNCHANGED <<spawner, engine, mixed>> BY <1>7 DEF CloseIme
  <2>2. /\ pc' = [pc EXCEPT ![c] = "off"] /\ result' = [result EXCEPT ![c] = NoResult]
    BY <1>2, <1>7 DEF IInv, TypeOK
  <2>3. TypeOK' BY <1>1, <1>3, <1>4, <1>5, <2>1 DEF IInv, TypeOK
  <2>4. Alone' BY <1>1, <2>1, <2>2 DEF IInv, TypeOK, Alone
  <2>5. Unconnected' BY <1>1, <2>1, <2>2 DEF IInv, TypeOK, Unconnected
  <2>6. Asked' /\ EngineSound' BY <1>1, <2>1, <2>2 DEF IInv, TypeOK, Asked, EngineSound
  <2>7. OneWaits' BY <1>1, <2>1, <2>2 DEF IInv, TypeOK, OneWaits, Waiting
  <2>8. Results => Results' BY <1>1, <2>1, <2>2 DEF IInv, TypeOK, Results
  <2>9. Queue => Queue' BY <1>1, <1>6, <2>1, <2>2 DEF IInv, TypeOK, Queue, Waiting
  <2> QED BY <1>1, <2>1, <2>3, <2>4, <2>5, <2>6, <2>7, <2>8, <2>9 DEF IInv
<1>8. CASE spawner = c
  <2>1. linked' = {} /\ spawner' = Nobody /\ engine' = NoEngine /\ mixed' = FALSE
    BY <1>8 DEF CloseIme
  <2>2. \A d \in Client : pc'[d] \in {"off", "idle"}
    BY <1>2, <1>6, <1>8 DEF IInv, TypeOK, Others
  <2>3. TypeOK' BY <1>1, <1>3, <1>4, <1>5, <2>1, EngineTypes DEF IInv, TypeOK
  <2>4. Alone' BY <1>1, <2>1, <2>2 DEF Alone
  <2>5. \A d \in Client : pc'[d] = "off" => result'[d] = NoResult
    BY <1>2, <1>8 DEF IInv, Unconnected
  <2>6. Unconnected' BY <2>1, <2>2, <2>5 DEF Unconnected
  <2>7. Asked' /\ EngineSound' BY <2>1, <2>2, EngineTypes DEF Asked, EngineSound
  <2>8. OneWaits' BY <2>2 DEF OneWaits, Waiting
  <2>9. Results' BY <2>1 DEF Results
  <2>10. Queue' BY <2>1, <2>2, EngineTypes DEF Queue, Waiting
  <2> QED BY <1>1, <2>3, <2>4, <2>6, <2>7, <2>8, <2>9, <2>10 DEF IInv
<1> QED BY <1>7, <1>8

LEMMA StartStep == ASSUME IInv, Start PROVE IInv'
<1>1. /\ engine.alive /\ ~engine.started /\ UNCHANGED <<way, drains, pc, request, result, linked, spawner, mixed>>
      /\ engine.output = <<>> /\ ~engine.late
  BY DEF Start, clientVars, IInv, EngineSound
<1>2. PICK prints \in StartupLines :
        engine' = [engine EXCEPT
                     !.started = TRUE,
                     !.late = prints /\ \A c \in Client : pc[c] # "draining",
                     !.output = IF prints THEN Append(engine.output, Broken) ELSE engine.output]
  BY DEF Start
<1>3. prints \in BOOLEAN BY EngineAssumption
<1> DEFINE late == prints /\ \A c \in Client : pc[c] # "draining"
           output == IF prints THEN <<Broken>> ELSE <<>>
<1>4. engine' = [engine EXCEPT !.started = TRUE, !.late = late, !.output = output]
  BY <1>1, <1>2, ShortSequences
<1>5. late \in BOOLEAN BY <1>3
<1>6. output \in Seq(Line) BY LineTypes
<1> HIDE DEF late, output
<1>7. /\ engine' \in Engine /\ engine'.alive /\ engine'.started /\ engine'.late = late
      /\ engine'.input = engine.input /\ engine'.output = output
  BY <1>1, <1>4, <1>5, <1>6, EngineParts DEF Engine
<1>8. TypeOK' BY <1>1, <1>7 DEF IInv, TypeOK
<1>9. Alone' BY <1>1, <1>7 DEF IInv, Alone, late
<1>10. Unconnected' BY <1>1, EngineTypes DEF IInv, Unconnected
<1>11. Asked' /\ EngineSound' BY <1>1, <1>7 DEF IInv, Asked, EngineSound
<1>12. OneWaits' BY <1>1 DEF IInv, OneWaits, Waiting
<1>13. ~mixed => Results /\ Queue BY <1>1 DEF IInv
<1>14. ASSUME ~late, ~mixed PROVE Results' /\ Queue'
  <2>1. Results' BY <1>1, <1>13, <1>14 DEF Results
  <2>2. CASE ~prints
    <3>1. output = engine.output BY <1>1, <2>2 DEF output
    <3> QED BY <1>1, <1>7, <1>13, <1>14, <2>1, <3>1 DEF Queue, Waiting
  <2>3. CASE prints
    <3>1. PICK c \in Client : pc[c] = "draining" BY <1>14, <2>3 DEF late
    <3>2. \A d \in Client : ~Waiting(d) BY <3>1 DEF IInv, Alone, Waiting
    <3> QED BY <1>1, <1>7, <1>13, <1>14, <2>1, <3>1, <3>2 DEF Queue, Waiting
  <2> QED BY <2>2, <2>3
<1>15. ASSUME way = "pipes", late, NEW c \in linked PROVE Behind(c)'
  <2>1. c \in Client /\ ~mixed /\ linked = {c} /\ \A d \in Client : pc[d] # "off" => d = c
    BY <1>15, OnlyClient DEF IInv, TypeOK, Unconnected
  <2>2. prints /\ pc[c] # "draining" BY <1>15, <2>1 DEF late
  <2>3. output = <<Broken>> BY <2>2 DEF output
  <2>4. CASE ~Waiting(c)
    <3>1. engine.input = <<>> BY <1>13, <2>1, <2>4 DEF Queue, Waiting
    <3> QED BY <1>1, <1>7, <2>3, <2>4, <3>1, LineTypes DEF Behind, Waiting
  <2>5. CASE Waiting(c)
    <3>1. engine.input = <<request[c]>>
      BY <1>1, <1>13, <2>1, <2>5 DEF Queue
    <3> QED BY <1>1, <1>7, <2>3, <2>5, <3>1, LineTypes DEF Behind, Waiting
  <2> QED BY <2>4, <2>5
<1> QED BY <1>1, <1>7, <1>8, <1>9, <1>10, <1>11, <1>12, <1>14, <1>15 DEF IInv

LEMMA ServeStep == ASSUME IInv, Serve PROVE IInv'
<1>1. /\ engine.alive /\ engine.started /\ engine.input # <<>>
      /\ UNCHANGED <<way, drains, pc, request, result, linked, spawner, mixed>>
  BY DEF Serve, clientVars
<1>2. PICK kind \in {"answer", "otherJson"} :
        engine' = [engine EXCEPT
                     !.input = Tail(engine.input),
                     !.output = Append(engine.output, [kind |-> kind, to |-> Head(engine.input)])]
  BY DEF Serve
<1> DEFINE next == [kind |-> kind, to |-> Head(engine.input)]
<1>3. Head(engine.input) \in Request /\ Tail(engine.input) \in Seq(Request)
  BY <1>1, EngineParts, HeadTailProperties
<1>4. LineFor(next, Head(engine.input)) BY <1>3, ServedLine
<1>5. next \in Line BY <1>4 DEF LineFor
<1> HIDE DEF next
<1>6. Append(engine.output, next) \in Seq(Line) BY <1>5, EngineParts
<1>7. engine' = [engine EXCEPT !.input = Tail(engine.input), !.output = Append(engine.output, next)]
  BY <1>2 DEF next
<1>8. /\ engine' \in Engine /\ engine'.alive = engine.alive /\ engine'.late = engine.late
      /\ engine'.started = engine.started /\ engine'.input = Tail(engine.input)
      /\ engine'.output = Append(engine.output, next)
  BY <1>3, <1>6, <1>7, EngineParts DEF Engine
<1>9. TypeOK' BY <1>1, <1>8 DEF IInv, TypeOK
<1>10. Alone' BY <1>1, <1>8 DEF IInv, Alone
<1>11. Unconnected' BY <1>1, EngineTypes DEF IInv, Unconnected
<1>12. Asked' /\ EngineSound' BY <1>1, <1>8 DEF IInv, Asked, EngineSound
<1>13. OneWaits' BY <1>1 DEF IInv, OneWaits, Waiting
<1>14. ASSUME ~engine.late, ~mixed PROVE Results' /\ Queue'
  <2>1. Results /\ Queue BY <1>14 DEF IInv
  <2>2. PICK c \in Client : Waiting(c) BY <1>1, <2>1 DEF Queue
  <2>3. \A d \in Client : Waiting(d) => d = c BY <1>14, <2>2 DEF IInv, OneWaits
  <2>4. engine.input = <<request[c]>> /\ engine.output = <<>>
    BY <1>1, <2>1, <2>2 DEF Queue
  <2>5. engine'.input = <<>> /\ engine'.output = <<next>> /\ LineFor(next, request[c])
    BY <1>4, <1>8, <2>4, ShortSequences
  <2>6. Results' BY <1>1, <2>1 DEF Results
  <2>7. Queue' BY <1>1, <1>5, <2>2, <2>3, <2>5 DEF Queue, Waiting, LineFor
  <2> QED BY <2>6, <2>7
<1>15. ASSUME way = "pipes", engine.late, NEW c \in linked PROVE Behind(c)'
  <2>1. Behind(c) BY <1>1, <1>15 DEF IInv
  <2>2. CASE pc[c] = "idle"
    <3>1. engine.input = <<request[c]>> /\ engine.output = <<>> BY <1>1, <2>1, <2>2 DEF Behind
    <3>2. engine'.input = <<>> /\ engine'.output = <<next>> /\ LineFor(next, request[c])
      BY <1>4, <1>8, <3>1, ShortSequences
    <3> QED BY <1>1, <1>5, <2>2, <3>2 DEF Behind, Waiting, LineFor
  <2>3. CASE pc[c] = "writing"
    <3>1. engine.output = <<>> /\ \E r \in Request : engine.input = <<r>>
      BY <1>1, <2>1, <2>3 DEF Behind
    <3>2. engine'.input = <<>> /\ engine'.output = <<next>>
      BY <1>8, <3>1, ShortSequences
    <3> QED BY <1>1, <1>5, <2>3, <3>2 DEF Behind, Waiting
  <2>4. CASE pc[c] = "waiting"
    <3>1. \/ engine.output = <<>> /\ \E r \in Request : engine.input = <<r, request[c]>>
          \/ engine.input = <<request[c]>> /\ \E line \in Line : engine.output = <<line>>
      BY <1>1, <2>1, <2>4 DEF Behind, Waiting
    <3>2. CASE engine.output = <<>> /\ \E r \in Request : engine.input = <<r, request[c]>>
      <4>1. engine'.input = <<request[c]>> /\ engine'.output = <<next>>
        BY <1>8, <3>2, ShortSequences
      <4> QED BY <1>1, <1>5, <2>4, <4>1 DEF Behind, Waiting
    <3>3. CASE engine.input = <<request[c]>> /\ \E line \in Line : engine.output = <<line>>
      <4>1. PICK line \in Line : engine.output = <<line>> BY <3>3
      <4>2. engine'.input = <<>> /\ LineFor(next, request[c])
        BY <1>4, <1>8, <3>3, ShortSequences
      <4>3. engine'.output = <<line, next>> BY <1>8, <4>1, ShortSequences
      <4> QED BY <1>1, <1>5, <2>4, <4>2, <4>3 DEF Behind, Waiting, LineFor
    <3> QED BY <3>1, <3>2, <3>3
  <2> QED BY <1>1, <2>2, <2>3, <2>4 DEF Behind, Waiting
<1> QED BY <1>1, <1>8, <1>9, <1>10, <1>11, <1>12, <1>13, <1>14, <1>15 DEF IInv

LEMMA DieStep == ASSUME IInv, Die PROVE IInv'
<1>1. /\ engine.alive /\ UNCHANGED <<way, drains, pc, request, result, linked, spawner, mixed>>
      /\ engine' = [engine EXCEPT !.alive = FALSE, !.input = <<>>]
  BY DEF Die, clientVars
<1>2. <<>> \in Seq(Request) OBVIOUS
<1>3. /\ engine' \in Engine /\ ~engine'.alive /\ engine'.late = engine.late
      /\ engine'.started = engine.started /\ engine'.input = <<>>
      /\ engine'.output = engine.output
  BY <1>1, <1>2, EngineParts DEF Engine
<1>4. TypeOK' BY <1>1, <1>3 DEF IInv, TypeOK
<1>5. Alone' BY <1>1, <1>3 DEF IInv, Alone
<1>6. Unconnected' BY <1>1, EngineTypes DEF IInv, Unconnected
<1>7. Asked' /\ EngineSound' BY <1>1, <1>3 DEF IInv, Asked, EngineSound
<1>8. OneWaits' BY <1>1 DEF IInv, OneWaits, Waiting
<1>9. Results => Results' BY <1>1 DEF Results
<1>10. Queue => Queue' BY <1>1, <1>3 DEF Queue, Waiting
<1> QED BY <1>1, <1>3, <1>4, <1>5, <1>6, <1>7, <1>8, <1>9, <1>10 DEF IInv

LEMMA NextGood == ASSUME IInv, [Next]_vars PROVE IInv'
<1>1. CASE UNCHANGED vars
  BY <1>1 DEF vars, clientVars, IInv, TypeOK, Alone, Unconnected, Asked, OneWaits, EngineSound,
     Results, Queue, Behind, Waiting
<1>2. CASE Next
  <2>1. ASSUME NEW c \in Client, NEW r \in Request, Ask(c, r) PROVE IInv' BY <2>1, AskStep
  <2>2. ASSUME NEW c \in Client, Drain(c) PROVE IInv' BY <2>2, DrainStep
  <2>3. ASSUME NEW c \in Client, Write(c) PROVE IInv' BY <2>3, WriteAlive, WriteDead
  <2>4. ASSUME NEW c \in Client, Read(c) PROVE IInv' BY <2>4, ReadStep
  <2>5. ASSUME NEW c \in Client, MakeKkc(c) PROVE IInv' BY <2>5, MakeKkcStep
  <2>6. ASSUME NEW c \in Client, CloseIme(c) PROVE IInv' BY <2>6, CloseImeStep
  <2>7. CASE Start BY <2>7, StartStep
  <2>8. CASE Serve BY <2>8, ServeStep
  <2>9. CASE Die BY <2>9, DieStep
  <2> QED BY <1>2, <2>1, <2>2, <2>3, <2>4, <2>5, <2>6, <2>7, <2>8, <2>9 DEF Next, Working
<1> QED BY <1>1, <1>2

LEMMA Invariance == Spec => []IInv
<1>1. IInv /\ [Next]_vars => IInv' BY NextGood
<1> QED BY <1>1, InitGood, PTL DEF Spec

-----------------------------------------------------------------------------
(* Theorems.                                                               *)

\* Every step of the clients, of the threads of the proxy and of the engine
\* keeps the types of requests, lines and results (engine.lisp, request.lisp,
\* kkc-proxy.lisp).
THEOREM TypeCorrect == Spec => []TypeOK
<1>1. IInv => TypeOK BY DEF IInv
<1> QED BY <1>1, Invariance, PTL

\* Whoever is given an answer has asked for it, and nothing is left in the
\* pipes when nobody waits, for any number of clients and of requests, and
\* however often engines die and are started again, as long as the engine has
\* printed no line that nobody drains (with ECL, or by the proxy, no line at
\* all when it starts) and no two threads of the proxy have met (run-engine
\* and engine-send-recv, send-recv in kkc-proxy.lisp).
THEOREM AnswersAlwaysFit == Spec => []AnswersFit
<1>1. ASSUME IInv PROVE AnswersFit
  <2> SUFFICES ASSUME ~engine.late, ~mixed
               PROVE  /\ \A c \in linked : pc[c] = "idle" =>
                           (result[c].kind = "answer" => result[c].to = request[c])
                      /\ ((\A c \in Client : pc[c] # "waiting") /\ \A c \in Client : pc[c] # "draining") /\ engine.alive =>
                           engine.input = <<>> /\ engine.output = <<>>
    BY DEF AnswersFit
  <2>1. Results /\ Queue BY <1>1 DEF IInv
  <2> QED BY <2>1 DEF Results, Queue, Waiting
<1> QED BY <1>1, Invariance, PTL

\* A line that nobody has drained puts its client one answer behind, for as
\* many requests as it makes, and never two (engine-send-recv in engine.lisp).
THEOREM OneBehindAtMost == Spec => []OneAnswerBehind
<1>1. ASSUME IInv PROVE OneAnswerBehind
  <2> SUFFICES ASSUME NEW c \in Client, way = "pipes", pc[c] = "idle", engine.late, engine.alive
               PROVE  /\ Len(engine.input) + Len(engine.output) <= 1
                      /\ \A k \in 1..Len(engine.input) : engine.input[k] = request[c]
                      /\ \A k \in 1..Len(engine.output) :
                           engine.output[k].kind # "noJson" => engine.output[k].to = request[c]
    BY DEF OneAnswerBehind
  <2>1. c \in linked BY <1>1, OnlyClient
  <2>2. Behind(c) BY <1>1, <2>1 DEF IInv
  <2>3. \/ engine.input = <<request[c]>> /\ engine.output = <<>>
        \/ engine.input = <<>> /\ \E line \in Line :
             (line.kind = "noJson" \/ LineFor(line, request[c])) /\ engine.output = <<line>>
    BY <2>2 DEF Behind
  <2>4. CASE engine.input = <<request[c]>> /\ engine.output = <<>>
    <3>1. Len(engine.input) = 1 /\ engine.input[1] = request[c] /\ Len(engine.output) = 0
      BY <2>4
    <3> QED BY <3>1
  <2>5. CASE engine.input = <<>> /\ \E line \in Line :
               (line.kind = "noJson" \/ LineFor(line, request[c])) /\ engine.output = <<line>>
    <3>1. PICK line \in Line :
            (line.kind = "noJson" \/ LineFor(line, request[c])) /\ engine.output = <<line>>
      BY <2>5
    <3>2. Len(engine.input) = 0 /\ Len(engine.output) = 1 /\ engine.output[1] = line
      BY <2>5, <3>1
    <3> QED BY <3>1, <3>2 DEF LineFor
  <2> QED BY <2>3, <2>4, <2>5
<1> QED BY <1>1, Invariance, PTL

(***************************************************************************)
(* The client of the fcitx and ibus servers.                               *)
(***************************************************************************)

\* What the input method that gets the request composes before it and after
\* it: the one of the first try, or a new one.
Base == IF tryCount = 0 THEN before ELSE 0

Outcome == IF sent = "key" THEN Base + 1 ELSE 0

\* Between requests the connection is empty in both directions.
Settled ==
  at = "idle" =>
    /\ conn.input = <<>> /\ conn.output = <<>>
    /\ conn.end = "open" => torn \/ shown = conn.composed

\* A request is where it was written and has not been handled, or its answer
\* is the only one there is, or a connection that has ended has swallowed it.
OnTheWay ==
  at = "reading" =>
    \/ conn.input = <<sent>> /\ conn.output = <<>> /\ conn.composed = Base
    \/ conn.input = <<>> /\ conn.output = <<conn.composed>> /\ conn.composed = Outcome
    \/ conn.input = <<>> /\ conn.output = <<>> /\ conn.end # "open"

\* A request is repeated only to a new input method, and the first one finds
\* nothing shown.
TriedBefore ==
  /\ at = "waiting" => tryCount > 0
  /\ at = "connecting" => shown = 0

\* The inductive invariant.  What the user sees after a request depends on
\* the only answer being the answer to it, which depends on where a request
\* can be while it is not answered.
ClientInvariant == ClientTypeOK /\ Settled /\ OnTheWay /\ TriedBefore

-----------------------------------------------------------------------------
(* Connections.                                                            *)

LEMMA NewConnections ==
  /\ FreshConn \in Connection /\ ClosedConn \in Connection
  /\ ClosedConn.end = "closed" /\ ClosedConn.input = <<>> /\ ClosedConn.output = <<>>
  /\ FreshConn.end = "open" /\ FreshConn.composed = 0
  /\ FreshConn.input = <<>> /\ FreshConn.output = <<>>
<1>1. 0 \in Length BY KeysAssumption DEF Length
<1>2. <<>> \in Seq(ClientRequest) /\ <<>> \in Seq(Length) OBVIOUS
<1> QED BY <1>1, <1>2 DEF FreshConn, ClosedConn, Connection

\* A request written to a connection with nothing in it is alone there, or
\* lost.
LEMMA WrittenAlone ==
  ASSUME NEW c \in Connection, c.input = <<>>, NEW r \in ClientRequest
  PROVE  /\ Written(c, r) \in Connection
         /\ Written(c, r).end = c.end /\ Written(c, r).composed = c.composed
         /\ Written(c, r).output = c.output
         /\ Written(c, r).input = IF c.end = "open" THEN <<r>> ELSE <<>>
<1>1. Append(<<>>, r) = <<r>> /\ <<r>> \in Seq(ClientRequest) OBVIOUS
<1> QED BY <1>1 DEF Written, Connection

\* What a thread leaves behind: its answers.
LEMMA LeftBehind ==
  ASSUME NEW c \in Connection, NEW d \in Left(c)
  PROVE  /\ d \in Connection /\ d.end # "open" /\ d.input = <<>>
         /\ d.output = c.output /\ d.composed = c.composed
<1>1. <<>> \in Seq(ClientRequest) OBVIOUS
<1> QED BY <1>1 DEF Left, Connection

-----------------------------------------------------------------------------
(* Steps.                                                                  *)

\* The number of tries is a property of the class.
LEMMA TryCounts ==
  /\ MaxTryCount \in {0, 2}
  /\ requester' = requester => MaxTryCount' = MaxTryCount
BY DEF MaxTryCount

LEMMA ClientInitGood == ClientInit => ClientInvariant
<1> SUFFICES ASSUME ClientInit PROVE ClientInvariant OBVIOUS
<1>1. tryCount \in 0..MaxTryCount /\ 0 \in Length
  BY TryCounts, KeysAssumption DEF ClientInit, Length
<1>2. conn \in Connection /\ sent \in ClientRequest BY NewConnections DEF ClientInit, ClientRequest
<1>3. ClientTypeOK BY <1>1, <1>2 DEF ClientInit, ClientTypeOK
<1> QED BY <1>3 DEF ClientInit, ClientInvariant, Settled, OnTheWay, TriedBefore

LEMMA FirstConnectionStep == ClientInvariant /\ FirstConnection => ClientInvariant'
<1> SUFFICES ASSUME ClientInvariant, FirstConnection PROVE ClientInvariant' OBVIOUS
<1>1. tryCount' \in 0..MaxTryCount' BY TryCounts DEF FirstConnection, ClientInvariant, ClientTypeOK
<1>2. CASE server.up
  <2>1. conn' = FreshConn /\ at' = "idle" BY <1>2 DEF FirstConnection, Connect
  <2>2. conn' \in Connection BY <2>1, NewConnections
  <2>3. ClientTypeOK' BY <1>1, <2>1, <2>2 DEF ClientInvariant, ClientTypeOK, FirstConnection
  <2>4. Settled'
    BY <2>1, NewConnections DEF FirstConnection, ClientInvariant, Settled, TriedBefore
  <2> QED BY <2>1, <2>3, <2>4 DEF ClientInvariant, OnTheWay, TriedBefore
<1>3. CASE ~server.up
  <2>1. conn' = conn /\ at' = "exited" BY <1>3 DEF FirstConnection, Connect
  <2>2. ClientTypeOK' BY <1>1, <2>1 DEF ClientInvariant, ClientTypeOK, FirstConnection
  <2> QED BY <2>1, <2>2 DEF ClientInvariant, Settled, OnTheWay, TriedBefore
<1> QED BY <1>2, <1>3

LEMMA ExecuteStep == ASSUME ClientInvariant, NEW r \in ClientRequest, Execute(r) PROVE ClientInvariant'
<1>1. conn \in Connection /\ conn.input = <<>> /\ conn.output = <<>>
  BY DEF ClientInvariant, ClientTypeOK, Settled, Execute
<1>2. /\ conn' \in Connection /\ conn'.end = conn.end /\ conn'.composed = conn.composed
      /\ conn'.output = <<>> /\ conn'.input = IF conn.end = "open" THEN <<r>> ELSE <<>>
  BY <1>1, WrittenAlone DEF Execute
<1>3. tryCount' \in 0..MaxTryCount' /\ conn.composed \in Length
  BY <1>1, TryCounts DEF Execute, Connection
<1>4. ClientTypeOK' BY <1>2, <1>3 DEF ClientInvariant, ClientTypeOK, Execute
<1>5. sent' = r /\ Base' = conn.composed BY DEF Execute, Base
<1>6. OnTheWay' BY <1>2, <1>5 DEF OnTheWay
<1> QED BY <1>4, <1>6 DEF ClientInvariant, Settled, TriedBefore, Execute

\* Reading: the only answer there can be is the answer to the request.
LEMMA AnswerIsOutcome ==
  ASSUME ClientInvariant, at = "reading", conn.output # <<>>
  PROVE  /\ conn.input = <<>> /\ conn.output = <<conn.composed>>
         /\ conn.composed = Outcome
BY DEF ClientInvariant, OnTheWay

LEMMA ReadLineStep ==
  ASSUME ClientInvariant, ReadLine
  PROVE  /\ ClientInvariant'
         /\ at' = "idle" => conn'.composed = Outcome
<1>1. /\ conn \in Connection /\ conn.input = <<>> /\ conn.output = <<conn.composed>>
      /\ conn.composed = Outcome /\ conn.composed \in Length
  BY AnswerIsOutcome DEF ReadLine, ClientInvariant, ClientTypeOK, Connection
<1>2. Head(conn.output) = conn.composed /\ Tail(conn.output) = <<>> /\ <<>> \in Seq(Length)
  BY <1>1
<1>3. /\ conn' \in Connection /\ conn'.input = <<>> /\ conn'.output = <<>>
      /\ conn'.composed = conn.composed
  BY <1>1, <1>2 DEF ReadLine, Connection
<1>4. tryCount' \in 0..MaxTryCount' BY TryCounts DEF ReadLine, ClientInvariant, ClientTypeOK
<1>5. /\ at' \in {"idle", "exited"} /\ shown' \in Length
      /\ at' = "idle" => torn \/ shown' = conn.composed
  BY <1>1, <1>2 DEF ReadLine, Answer, ClientInvariant, ClientTypeOK
<1>6. ClientTypeOK' BY <1>3, <1>4, <1>5 DEF ClientInvariant, ClientTypeOK, ReadLine
<1>7. Settled' BY <1>3, <1>5 DEF Settled, ReadLine
<1> QED BY <1>1, <1>3, <1>5, <1>6, <1>7 DEF ClientInvariant, OnTheWay, TriedBefore

LEMMA ReadFailureStep == ClientInvariant /\ ReadFailure => ClientInvariant'
<1> SUFFICES ASSUME ClientInvariant, ReadFailure PROVE ClientInvariant' OBVIOUS
<1>1. torn' \in BOOLEAN BY DEF ReadFailure, ReadFails, ClientInvariant, ClientTypeOK
<1>2. tryCount \in Nat /\ tryCount \in 0..MaxTryCount /\ MaxTryCount' = MaxTryCount
  BY TryCounts DEF ReadFailure, ClientInvariant, ClientTypeOK
<1>3. CASE tryCount < MaxTryCount
  <2>1. /\ tryCount' = tryCount + 1 /\ at' = "waiting" /\ conn' = ClosedConn
        /\ server' = [server EXCEPT !.starting = TRUE]
    BY <1>3 DEF ReadFailure, Spawn
  <2>2. tryCount' \in 0..MaxTryCount' /\ tryCount' > 0 BY <1>2, <1>3, <2>1, TryCounts
  <2>3. conn' \in Connection BY <2>1, NewConnections
  <2>4. server' \in [up : BOOLEAN, starting : BOOLEAN] BY <2>1 DEF ClientInvariant, ClientTypeOK
  <2>5. ClientTypeOK' BY <1>1, <2>1, <2>2, <2>3, <2>4 DEF ClientInvariant, ClientTypeOK, ReadFailure
  <2> QED BY <2>1, <2>2, <2>5 DEF ClientInvariant, Settled, OnTheWay, TriedBefore
<1>4. CASE ~(tryCount < MaxTryCount)
  <2>1. at' = "exited" /\ UNCHANGED <<tryCount, conn, server>> BY <1>4 DEF ReadFailure
  <2>2. ClientTypeOK' BY <1>1, <1>2, <2>1 DEF ClientInvariant, ClientTypeOK, ReadFailure
  <2> QED BY <2>1, <2>2 DEF ClientInvariant, Settled, OnTheWay, TriedBefore
<1> QED BY <1>3, <1>4

LEMMA ReadErrorStep == ClientInvariant /\ ReadError => ClientInvariant'
<1> SUFFICES ASSUME ClientInvariant, ReadError PROVE ClientInvariant' OBVIOUS
<1>1. tryCount' \in 0..MaxTryCount' BY TryCounts DEF ReadError, ClientInvariant, ClientTypeOK
<1>2. ClientTypeOK' BY <1>1 DEF ClientInvariant, ClientTypeOK, ReadError
<1> QED BY <1>2 DEF ClientInvariant, ReadError, Settled, OnTheWay, TriedBefore

LEMMA ReconnectStep == ClientInvariant /\ Reconnect => ClientInvariant'
<1> SUFFICES ASSUME ClientInvariant, Reconnect PROVE ClientInvariant' OBVIOUS
<1>1. tryCount' \in 0..MaxTryCount' /\ tryCount > 0
  BY TryCounts DEF Reconnect, ClientInvariant, ClientTypeOK, TriedBefore
<1>2. CASE server.up
  <2>1. conn' = Written(FreshConn, sent) /\ at' = "reading" /\ sent \in ClientRequest
    BY <1>2 DEF Reconnect, Connect, ClientInvariant, ClientTypeOK
  <2>2. /\ conn' \in Connection /\ conn'.composed = 0
        /\ conn'.input = <<sent>> /\ conn'.output = <<>>
    BY <2>1, WrittenAlone, NewConnections
  <2>3. ClientTypeOK' BY <1>1, <2>1, <2>2 DEF ClientInvariant, ClientTypeOK, Reconnect
  <2>4. Base' = 0 BY <1>1 DEF Reconnect, Base
  <2>5. OnTheWay' BY <2>2, <2>4 DEF OnTheWay, Reconnect
  <2> QED BY <2>1, <2>3, <2>5 DEF ClientInvariant, Settled, TriedBefore
<1>3. CASE ~server.up
  <2>1. conn' = conn /\ at' = "exited" BY <1>3 DEF Reconnect, Connect
  <2>2. ClientTypeOK' BY <1>1, <2>1 DEF ClientInvariant, ClientTypeOK, Reconnect
  <2> QED BY <2>1, <2>2 DEF ClientInvariant, Settled, OnTheWay, TriedBefore
<1> QED BY <1>2, <1>3

\* A step of the server leaves the client's own variables alone.
ClientAlone == UNCHANGED <<requester, at, sent, tryCount, torn, shown, before>>

LEMMA HandleStep == ClientInvariant /\ Handle => ClientInvariant'
<1> SUFFICES ASSUME ClientInvariant, Handle PROVE ClientInvariant' OBVIOUS
<1> DEFINE text == IF Head(conn.input) = "key" THEN conn.composed + 1 ELSE 0
<1>1. /\ conn \in Connection /\ conn.end = "open" /\ conn.input # <<>> /\ text \in Length
      /\ conn' = [conn EXCEPT !.composed = text, !.input = Tail(@), !.output = Append(@, text)]
      /\ ClientAlone /\ server' = server
  BY DEF Handle, ClientAlone, ClientInvariant, ClientTypeOK
<1> HIDE DEF text
<1>2. /\ conn' \in Connection
      /\ conn'.composed = text /\ conn'.input = Tail(conn.input)
      /\ conn'.output = Append(conn.output, text)
  <2>1. Tail(conn.input) \in Seq(ClientRequest) BY <1>1 DEF Connection
  <2>2. Append(conn.output, text) \in Seq(Length) BY <1>1 DEF Connection
  <2> QED BY <1>1, <2>1, <2>2 DEF Connection
<1>3. tryCount' \in 0..MaxTryCount' BY <1>1, TryCounts DEF ClientAlone, ClientInvariant, ClientTypeOK
<1>4. ClientTypeOK' BY <1>1, <1>2, <1>3 DEF ClientAlone, ClientInvariant, ClientTypeOK
<1>5. Base' = Base /\ Outcome' = Outcome BY <1>1 DEF ClientAlone, Base, Outcome
<1>6. Settled' BY <1>1 DEF ClientAlone, ClientInvariant, Settled
<1>7. OnTheWay'
  <2>1. SUFFICES ASSUME at = "reading"
                 PROVE  conn'.input = <<>> /\ conn'.output = <<conn'.composed>>
                        /\ conn'.composed = Outcome'
    BY <1>1 DEF OnTheWay, ClientAlone
  <2>2. conn.input = <<sent>> /\ conn.output = <<>> /\ conn.composed = Base
    BY <1>1, <2>1 DEF ClientInvariant, OnTheWay
  <2>3. text = Outcome BY <2>2 DEF text, Outcome
  <2>4. Tail(conn.input) = <<>> /\ Append(conn.output, text) = <<text>> BY <2>2
  <2> QED BY <1>2, <1>5, <2>3, <2>4
<1> QED BY <1>1, <1>4, <1>6, <1>7 DEF ClientAlone, ClientInvariant, TriedBefore

\* The end of the thread loses requests, not answers.
LEMMA LeftStep ==
  ASSUME ClientInvariant, ClientAlone, server' \in [up : BOOLEAN, starting : BOOLEAN],
         conn' = conn \/ (conn.end = "open" /\ conn' \in Left(conn))
  PROVE  ClientInvariant'
<1>1. conn' \in Connection
  BY LeftBehind DEF ClientInvariant, ClientTypeOK
<1>2. tryCount' \in 0..MaxTryCount' BY TryCounts DEF ClientAlone, ClientInvariant, ClientTypeOK
<1>3. ClientTypeOK' BY <1>1, <1>2 DEF ClientAlone, ClientInvariant, ClientTypeOK
<1>4. Base' = Base /\ Outcome' = Outcome BY DEF ClientAlone, Base, Outcome
<1>5. CASE conn' = conn
  BY <1>3, <1>4, <1>5 DEF ClientAlone, ClientInvariant, Settled, OnTheWay, TriedBefore
<1>6. CASE conn' \in Left(conn)
  <2>1. /\ conn'.end # "open" /\ conn'.input = <<>>
        /\ conn'.output = conn.output /\ conn'.composed = conn.composed
    BY <1>6, LeftBehind DEF ClientInvariant, ClientTypeOK
  <2>2. Settled' BY <2>1 DEF ClientAlone, ClientInvariant, Settled
  <2>3. OnTheWay' BY <1>4, <2>1 DEF ClientAlone, ClientInvariant, OnTheWay
  <2> QED BY <1>3, <2>2, <2>3 DEF ClientAlone, ClientInvariant, TriedBefore
<1> QED BY <1>5, <1>6

LEMMA ServerStep == ClientInvariant /\ (ThreadEnds \/ ServerStarts \/ ServerStops) => ClientInvariant'
<1>1. ClientInvariant => server \in [up : BOOLEAN, starting : BOOLEAN] BY DEF ClientInvariant, ClientTypeOK
<1>2. ClientInvariant /\ ThreadEnds => ClientInvariant' BY <1>1, LeftStep DEF ThreadEnds, ClientAlone
<1>3. ClientInvariant /\ ServerStarts => ClientInvariant' BY <1>1, LeftStep DEF ServerStarts, ClientAlone
<1>4. ClientInvariant /\ ServerStops => ClientInvariant' BY <1>1, LeftStep DEF ServerStops, ClientAlone
<1> QED BY <1>2, <1>3, <1>4

-----------------------------------------------------------------------------
(* Theorems.                                                               *)

\* The property of a step: see KeyCountsOnce.
CountedOnce ==
  (at = "reading" /\ at' = "idle" /\ sent = "key") =>
    conn'.composed = IF tryCount = 0 THEN before + 1 ELSE 1

LEMMA ClientNextGood == ClientInvariant /\ [ClientNext]_socketVars => ClientInvariant' /\ CountedOnce
<1> SUFFICES ASSUME ClientInvariant, [ClientNext]_socketVars PROVE ClientInvariant' /\ CountedOnce OBVIOUS
<1>1. ASSUME NEW r \in ClientRequest, Execute(r) PROVE ClientInvariant' /\ CountedOnce
  BY <1>1, ExecuteStep DEF Execute, CountedOnce
<1>2. CASE FirstConnection BY <1>2, FirstConnectionStep DEF FirstConnection, CountedOnce
<1>3. CASE ReadLine
  <2>1. ClientInvariant' /\ (at' = "idle" => conn'.composed = Outcome) BY <1>3, ReadLineStep
  <2> QED BY <2>1 DEF CountedOnce, Outcome, Base
<1>4. CASE ReadFailure
  <2>1. at' # "idle" BY <1>4 DEF ReadFailure
  <2> QED BY <1>4, <2>1, ReadFailureStep DEF CountedOnce
<1>5. CASE ReadError BY <1>5, ReadErrorStep DEF ReadError, CountedOnce
<1>6. CASE Reconnect BY <1>6, ReconnectStep DEF Reconnect, CountedOnce
<1>7. CASE Handle BY <1>7, HandleStep DEF Handle, CountedOnce
<1>8. CASE ThreadEnds \/ ServerStarts \/ ServerStops
  BY <1>8, ServerStep DEF ThreadEnds, ServerStarts, ServerStops, CountedOnce
<1>9. CASE UNCHANGED socketVars
  <2>1. ClientAlone /\ conn' = conn /\ server' = server BY <1>9 DEF socketVars, ClientAlone
  <2>2. ClientInvariant' BY <2>1, LeftStep DEF ClientInvariant, ClientTypeOK
  <2> QED BY <2>1, <2>2 DEF ClientAlone, CountedOnce
<1> QED BY <1>1, <1>2, <1>3, <1>4, <1>5, <1>6, <1>7, <1>8, <1>9 DEF ClientNext, ClientSteps, Server

LEMMA ClientInvariance == ClientSpec => []ClientInvariant
<1>1. ClientInvariant /\ [ClientNext]_socketVars => ClientInvariant' BY ClientNextGood
<1> QED BY <1>1, ClientInitGood, PTL DEF ClientSpec

\* The client, the connection and the servers have the shapes the code gives
\* them, and no request is tried more often than its class allows (socket.h,
\* socket.cpp).
THEOREM ClientTypeCorrect == ClientSpec => []ClientTypeOK
<1>1. ClientInvariant => ClientTypeOK BY DEF ClientInvariant
<1> QED BY <1>1, ClientInvariance, PTL

\* What the user sees when a request has returned is what the input method at
\* the other end composes, and nothing of the request is still under way,
\* whenever servers stop, answer late or are started twice (TryExecuting).
THEOREM ShownStaysComposed == ClientSpec => []ShownIsComposed
<1>1. ClientInvariant => ShownIsComposed BY DEF ClientInvariant, Settled, ShownIsComposed
<1> QED BY <1>1, ClientInvariance, PTL

\* A key that is sent up to three times takes effect once, in the text that
\* goes on or alone in a new one (TryExecuting, unix-run).
THEOREM KeysCountOnce == ClientSpec => KeyCountsOnce
<1>1. ClientInvariant /\ [ClientNext]_socketVars => [CountedOnce]_socketVars BY ClientNextGood
<1> QED BY <1>1, ClientInvariance, PTL DEF ClientSpec, KeyCountsOnce, CountedOnce
=============================================================================
