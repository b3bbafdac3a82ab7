------------------------------ MODULE KkcEngine ------------------------------
(***************************************************************************)
(* The conversion engine, a process of its own that reads requests from    *)
(* its standard input and writes one line for each, and who talks to it:   *)
(* either the client of an input method alone (senn/src/im/kkc/engine.lisp *)
(* with request.lisp), or kkc-proxy, with a thread for each of the input   *)
(* methods connected to it (senn/src/bin/kkc-proxy.lisp, unix.lisp,        *)
(* lib/fcitx-kkc-proxy.lisp).  Whoever writes a request blocks until there *)
(* is a line or the end of the output.  Nothing in a line tells which      *)
(* request it answers, and the threads of the proxy take no lock.          *)
(*                                                                         *)
(* engine.lisp has two versions of run-engine.  SBCL's, of the servers,    *)
(* throws away what the engine has printed when it starts; ECL's, of the   *)
(* input methods that embed the library (ibus, fcitx4, fcitx5), does not.  *)
(***************************************************************************)
EXTENDS Naturals, Sequences

CONSTANTS
  Client,       \* the input methods that convert
  Pron,         \* the pronunciations asked for
  Ways,         \* how the engine is reached: by its pipes, or by the proxy
  Drainings,    \* whether run-engine drains the output: SBCL's does, ECL's does not
  StartupLines, \* whether the engine may print a line when it starts
  MaxLines      \* bound of the model: the lines in the pipes when a request is made

Nobody == "nobody"

ASSUME EngineAssumption ==
  /\ Ways \subseteq {"pipes", "proxy"}
  /\ Drainings \subseteq BOOLEAN /\ Drainings # {}
  /\ StartupLines \subseteq BOOLEAN /\ StartupLines # {}
  /\ MaxLines \in Nat \ {0}
  /\ Nobody \notin Client

VARIABLES
  way,      \* how the engine is reached
  drains,   \* whether the client's run-engine drains the output
  pc,       \* what each client, or its thread of the proxy, is doing
  request,  \* the request each has made last
  result,   \* what its caller was given for it
  linked,   \* the clients with a connection to the engine or its proxy
  spawner,  \* who has started the proxy, or Nobody
  mixed,    \* whether two requests have been with the engine at once
  engine    \* the engine process and its two pipes

clientVars == <<pc, request, result, linked, spawner, mixed>>
vars == <<way, drains, clientVars, engine>>

Request == [op : {"CONVERT", "LIST_CANDIDATES"}, pron : Pron]

\* Answers follow the protocol, other JSON does not, and what is not JSON
\* cannot be parsed.
Line == [kind : {"answer", "otherJson"}, to : Request] \cup [kind : {"noJson"}]

Broken == [kind |-> "noJson"]

NoRequest == [op |-> "none"]

NoResult == [kind |-> "none"]

\* The pronunciation itself, or no candidates.
Fallback == [kind |-> "fallback"]

FreshEngine ==
  [alive |-> TRUE, started |-> FALSE, late |-> FALSE, input |-> <<>>, output |-> <<>>]

NoEngine == [FreshEngine EXCEPT !.alive = FALSE]

Engine ==
  [alive : BOOLEAN, started : BOOLEAN, late : BOOLEAN,
   input : Seq(Request), output : Seq(Line)]

Result == {NoResult, Fallback} \cup [kind : {"answer"}, to : Request]

TypeOK ==
  /\ way \in Ways
  /\ drains \in BOOLEAN
  /\ pc \in [Client -> {"off", "draining", "idle", "writing", "waiting"}]
  /\ request \in [Client -> Request \cup {NoRequest}]
  /\ result \in [Client -> Result]
  /\ linked \subseteq Client
  /\ spawner \in Client \cup {Nobody}
  /\ mixed \in BOOLEAN
  /\ engine \in Engine

\* What follows run-engine: its loop with SBCL, nothing with ECL.
Run == IF drains THEN "draining" ELSE "idle"

\* start-kkc runs the engine; there is no proxy yet, and nobody ever drains it.
Init ==
  /\ way \in Ways
  /\ drains \in IF way = "pipes" THEN Drainings ELSE {FALSE}
  /\ request = [c \in Client |-> NoRequest]
  /\ result = [c \in Client |-> NoResult]
  /\ spawner = Nobody
  /\ mixed = FALSE
  /\ \/ /\ way = "pipes"
        /\ \E c \in Client : linked = {c} /\ pc = [d \in Client |-> IF d = c THEN Run ELSE "off"]
        /\ engine = FreshEngine
     \/ /\ way = "proxy"
        /\ linked = {} /\ pc = [c \in Client |-> "off"]
        /\ engine = NoEngine

-----------------------------------------------------------------------------
(* The client.                                                             *)

Unread == engine.output # <<>>

Goes(c, to) == pc' = [pc EXCEPT ![c] = to]

Given(c, what) == result' = [result EXCEPT ![c] = what]

\* SBCL's run-engine as ECL's is.
DrainNothing(c) ==
  /\ pc[c] = "draining"
  /\ Goes(c, "idle")
  /\ UNCHANGED <<way, drains, request, result, linked, spawner, mixed, engine>>

\* The loop of SBCL's run-engine: what has been printed by now is thrown away.
Drain(c) ==
  /\ pc[c] = "draining"
  /\ IF Unread
     THEN engine' = [engine EXCEPT !.output = Tail(@)] /\ UNCHANGED pc
     ELSE Goes(c, "idle") /\ UNCHANGED engine
  /\ UNCHANGED <<way, drains, request, result, linked, spawner, mixed>>

\* Writing to a dead engine, or over a connection that is closed, is an error,
\* which send-json turns into nil.
Ask(c, r) ==
  /\ pc[c] = "idle" /\ Len(engine.input) + Len(engine.output) < MaxLines
  /\ request' = [request EXCEPT ![c] = r]
  /\ IF c \in linked /\ (way = "pipes" => engine.alive)
     THEN Goes(c, "writing") /\ Given(c, NoResult)
     ELSE Given(c, Fallback) /\ UNCHANGED pc
  /\ UNCHANGED <<way, drains, linked, spawner, mixed, engine>>

Others(c) == {d \in Client \ {c} : pc[d] \in {"writing", "waiting"}}

\* The request's line; of what another thread writes at the same moment it can
\* make a line of neither, which ends the engine (Die).  A thread of the proxy
\* that finds the engine dead closes its connection.
Write(c) ==
  /\ pc[c] = "writing"
  /\ IF engine.alive
     THEN /\ engine' = [engine EXCEPT !.input = Append(@, request[c])]
          /\ mixed' = (mixed \/ \E d \in Others(c) : pc[d] = "waiting")
          /\ Goes(c, "waiting")
          /\ UNCHANGED <<result, linked>>
     ELSE /\ Goes(c, "idle") /\ Given(c, Fallback)
          /\ linked' = IF way = "proxy" THEN linked \ {c} ELSE linked
          /\ UNCHANGED <<mixed, engine>>
  /\ UNCHANGED <<way, drains, request, spawner>>

\* store-restart-engine: the old process is killed.
Restart(c) == engine' = FreshEngine /\ Goes(c, Run)

\* What is left of the output when one line has been read: where another
\* thread reads as well, its rest or the line itself may be.
Remaining(c) ==
  {Tail(engine.output)} \cup
    IF \A d \in Client \ {c} : pc[d] # "waiting" THEN {}
    ELSE {engine.output, <<Broken>> \o Tail(engine.output)}

\* A line read while another thread reads may be a part of one.
Heads(c) ==
  {Head(engine.output)} \cup IF \A d \in Client \ {c} : pc[d] # "waiting" THEN {} ELSE {Broken}

\* read-line, parse, and make segments or candidates of what was parsed.  A
\* line that is not JSON counts as nil; JSON of another shape is an error, and
\* only the client with an engine of its own restarts it.
ReadResponse(c) ==
  /\ pc[c] = "waiting" /\ Unread
  /\ \E line \in Heads(c) :
       /\ Given(c, IF line.kind = "answer" THEN line ELSE Fallback)
       /\ IF line.kind = "otherJson" /\ way = "pipes" THEN Restart(c)
          ELSE /\ Goes(c, "idle")
               /\ \E output \in Remaining(c) : engine' = [engine EXCEPT !.output = output]
  /\ UNCHANGED <<way, drains, request, linked, spawner, mixed>>

\* A client that waits for a line of an engine that is gone.
ReadResponseOnly(c) == ReadResponse(c)

\* A client that gives up before the line arrives.
ReadImpatient(c) ==
  \/ ReadResponse(c)
  \/ /\ pc[c] = "waiting" /\ ~Unread
     /\ Goes(c, "idle") /\ Given(c, Fallback)
     /\ UNCHANGED <<way, drains, request, linked, spawner, mixed, engine>>

\* At the end of the output read-line answers nil, which cannot be parsed, nor
\* written by a thread of the proxy, which closes its connection.
Read(c) ==
  \/ ReadResponse(c)
  \/ /\ pc[c] = "waiting" /\ ~Unread /\ ~engine.alive
     /\ Goes(c, "idle") /\ Given(c, Fallback)
     /\ linked' = IF way = "proxy" THEN linked \ {c} ELSE linked
     /\ UNCHANGED <<way, drains, request, spawner, mixed, engine>>

-----------------------------------------------------------------------------
(* The proxy.                                                              *)

\* make-kkc: the first to come starts the proxy, which runs its engine.
MakeKkc(c) ==
  /\ way = "proxy" /\ pc[c] = "off"
  /\ Goes(c, "idle")
  /\ IF spawner # Nobody THEN linked' = linked \cup {c} /\ UNCHANGED <<spawner, engine>>
     ELSE linked' = {c} /\ spawner' = c /\ engine' = FreshEngine
  /\ UNCHANGED <<way, drains, request, result, mixed>>

\* close-ime: whoever has started the proxy ends it, with its engine and the
\* connections of all.
CloseIme(c) ==
  /\ way = "proxy" /\ pc[c] = "idle"
  /\ result' = [d \in Client |-> IF d = c THEN NoResult ELSE
                IF spawner = c /\ d \in Others(c) THEN Fallback ELSE result[d]]
  /\ pc' = [d \in Client |-> IF d = c THEN "off" ELSE
            IF spawner = c /\ d \in Others(c) THEN "idle" ELSE pc[d]]
  /\ request' = [request EXCEPT ![c] = NoRequest]
  /\ IF spawner = c THEN linked' = {} /\ spawner' = Nobody /\ engine' = NoEngine /\ mixed' = FALSE
     ELSE linked' = linked \ {c} /\ UNCHANGED <<spawner, engine, mixed>>
  /\ UNCHANGED <<way, drains>>

-----------------------------------------------------------------------------
(* The engine.                                                             *)

\* Before it serves requests an engine may print something else, as the one
\* of senn-kkc-engine.hachee.engine.mirror does when it has no user
\* dictionary.  The line may come after the client has drained the output;
\* neither the proxy nor a client of ECL ever does.
Start ==
  /\ engine.alive /\ ~engine.started
  /\ \E prints \in StartupLines :
       engine' = [engine EXCEPT
                    !.started = TRUE,
                    !.late = prints /\ \A c \in Client : pc[c] # "draining",
                    !.output = IF prints THEN Append(@, Broken) ELSE @]
  /\ UNCHANGED <<way, drains, clientVars>>

Serve ==
  /\ engine.alive /\ engine.started /\ engine.input # <<>>
  /\ \E kind \in {"answer", "otherJson"} :
       engine' = [engine EXCEPT
                    !.input = Tail(@),
                    !.output = Append(@, [kind |-> kind, to |-> Head(engine.input)])]
  /\ UNCHANGED <<way, drains, clientVars>>

Die ==
  /\ engine.alive
  /\ engine' = [engine EXCEPT !.alive = FALSE, !.input = <<>>]
  /\ UNCHANGED <<way, drains, clientVars>>

-----------------------------------------------------------------------------
Acts(c) == Drain(c) \/ Write(c) \/ Read(c)

Working == Start \/ Serve

Next ==
  \/ \E c \in Client : \E r \in Request : Ask(c, r)
  \/ \E c \in Client : Drain(c)
  \/ \E c \in Client : Write(c)
  \/ \E c \in Client : Read(c)
  \/ \E c \in Client : MakeKkc(c)
  \/ \E c \in Client : CloseIme(c)
  \/ Working
  \/ Die

\* The client does nothing else while it drains, writes or waits; an engine
\* with a request left serves it in the end, unless it dies first.  Nobody has
\* to ask, and no engine has to die.
Fairness == (\A c \in Client : WF_vars(Acts(c))) /\ WF_vars(Working)

Spec == Init /\ [][Next]_vars /\ Fairness

-----------------------------------------------------------------------------
\* What the caller is given is the answer to its own request, or the
\* fallback, whoever else has asked before and whenever engines die, as long
\* as the engine has printed no line that nobody drains (any line it prints
\* where the client is of ECL or the proxy's, one after the loop where it is
\* of SBCL), and the proxy has not had two requests with the engine at once
\* (run-engine and engine-send-recv in engine.lisp, send-recv in
\* kkc-proxy.lisp).
AnswersFit ==
  (~engine.late /\ ~mixed) =>
    /\ \A c \in linked : pc[c] = "idle" =>
         (result[c].kind = "answer" => result[c].to = request[c])
    /\ ((\A c \in Client : pc[c] # "waiting") /\ \A c \in Client : pc[c] # "draining") /\ engine.alive =>
         engine.input = <<>> /\ engine.output = <<>>

\* After such a line a client with an engine of its own, of ECL or of SBCL, is
\* one answer behind for as long as the engine lives, and never more: when a
\* request ends, what is unread is the line itself or what belongs to this
\* very request.
OneAnswerBehind ==
  \A c \in Client :
    (way = "pipes" /\ pc[c] = "idle" /\ engine.late /\ engine.alive) =>
      /\ Len(engine.input) + Len(engine.output) <= 1
      /\ \A k \in 1..Len(engine.input) : engine.input[k] = request[c]
      /\ \A k \in 1..Len(engine.output) :
           engine.output[k].kind # "noJson" => engine.output[k].to = request[c]

\* The caller is never left waiting: every request is answered or given the
\* fallback, also when the engine dies before or after it reads the request,
\* or the proxy is closed by another; unless threads of the proxy have read the
\* same output.
RequestsEnd == \A c \in Client : pc[c] \in {"writing", "waiting"} ~> pc[c] = "idle" \/ mixed

\* "test-error-then-restart" (senn/t/im/kkc/engine.lisp): a request that
\* fails on the engine makes the client start another one.
DeadEngineRestarted ==
  [][\A c \in Client : request'[c] # request[c] /\ way = "pipes" /\ ~engine.alive
       => engine' = FreshEngine]_vars
=============================================================================
