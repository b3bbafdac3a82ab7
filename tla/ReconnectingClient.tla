------------------------- MODULE ReconnectingClient -------------------------
(***************************************************************************)
(* The client of the fcitx and ibus servers that a front-end keeps in its  *)
(* process (senn/src-cpp/ipc/socket.h, stateful_ime_socket.cpp), and the   *)
(* server: one thread and one new input method for each connection         *)
(* (senn-ipc/src/server.lisp, server/unix.lisp, senn/src/bin/              *)
(* fcitx-server.lisp).  A request that fails, because the server is gone   *)
(* or slow, is sent again over a new connection; the client of the ibus    *)
(* engine, a plain Requester over TCP, gives up at once.                   *)
(*                                                                         *)
(* An input method is its composed text here, given by its length: a key   *)
(* adds a character, a reset drops the text, and the answer shows it.      *)
(***************************************************************************)
EXTENDS Naturals, Sequences

CONSTANT
  MaxKeys  \* bound of the model: the length of a composed text

ASSUME KeysAssumption == MaxKeys \in Nat \ {0}

VARIABLES
  requester, \* the client's class
  at,        \* what the client is doing
  sent,   \* the request made last
  tryCount,  \* try_count of TryExecuting
  torn,      \* whether a piece of an answer is left in the response
  shown,     \* the text the user sees
  before,    \* the text that was composed when the request was made
  conn,      \* the client's connection and the thread that serves it
  server     \* the server processes

socketVars == <<requester, at, sent, tryCount, torn, shown, before, conn, server>>

ClientRequest == {"key", "reset"}

\* TryExecuting tries twice more, Requester never.
MaxTryCount == IF requester = "reconnectable" THEN 2 ELSE 0

Length == 0..MaxKeys

Connection ==
  [end : {"open", "closed", "reset"}, composed : Length,
   input : Seq(ClientRequest), output : Seq(Length)]

\* The thread of a new connection makes an input method of its own.
FreshConn == [end |-> "open", composed |-> 0, input |-> <<>>, output |-> <<>>]

ClosedConn == [FreshConn EXCEPT !.end = "closed"]

ClientTypeOK ==
  /\ requester \in {"reconnectable", "plain"}
  /\ torn \in BOOLEAN
  /\ at \in {"connecting", "idle", "reading", "waiting", "exited"}
  /\ sent \in ClientRequest
  /\ tryCount \in 0..MaxTryCount
  /\ shown \in Length /\ before \in Length
  /\ conn \in Connection
  /\ server \in [up : BOOLEAN, starting : BOOLEAN]

\* SpawnAndCreate has spawned a server; another one may be running.
ClientInit ==
  /\ requester \in {"reconnectable", "plain"}
  /\ torn = FALSE
  /\ at = "connecting"
  /\ sent = "reset"
  /\ tryCount = 0
  /\ shown = 0 /\ before = 0
  /\ conn = ClosedConn
  /\ server \in [up : BOOLEAN, starting : {TRUE}]

-----------------------------------------------------------------------------
(* The client.                                                             *)

\* Who cannot connect exits.
Connect(c, then) ==
  IF server.up THEN at' = then /\ conn' = c ELSE at' = "exited" /\ UNCHANGED conn

\* SpawnAndCreate connects without waiting for the server it has spawned.
FirstConnection ==
  /\ at = "connecting"
  /\ Connect(FreshConn, "idle")
  /\ UNCHANGED <<requester, sent, tryCount, torn, shown, before, server>>

\* Write: nothing arrives at a connection the server has left.
Written(c, r) == IF c.end = "open" THEN [c EXCEPT !.input = Append(@, r)] ELSE c

Execute(r) ==
  /\ at = "idle"
  /\ r = "key" => shown < MaxKeys
  /\ sent' = r
  /\ tryCount' = 0
  /\ torn' = FALSE
  /\ before' = conn.composed
  /\ conn' = Written(conn, r)
  /\ at' = "reading"
  /\ UNCHANGED <<requester, shown, server>>

\* What the proxy makes of the response: behind a piece of an earlier answer
\* there is no view in it, and no OK, which the proxy asserts.
Answer(text) ==
  \/ ~torn /\ shown' = text /\ at' = "idle"
  \/ torn /\ sent = "key" /\ at' = "idle" /\ UNCHANGED shown
  \/ torn /\ sent = "reset" /\ at' = "exited" /\ UNCHANGED shown

\* ReadLine has a line, which is appended to the response, and the front-end
\* shows what it finds in that.
ReadLine ==
  /\ at = "reading" /\ conn.output # <<>>
  /\ Answer(Head(conn.output))
  /\ conn' = [conn EXCEPT !.output = Tail(@)]
  /\ UNCHANGED <<requester, sent, tryCount, torn, before, server>>

\* The server program is started whether or not another one is running.
Spawn == server' = [server EXCEPT !.starting = TRUE]

\* ReadLine found the connection closed, or nothing for a second; a piece of
\* an answer it had read by then stays in the response.
ReadFails ==
  /\ at = "reading"
  /\ \/ conn.output = <<>> /\ conn.end # "reset" /\ UNCHANGED torn
     \/ conn.output # <<>> /\ torn' = TRUE

\* A client that tries for ever.
ReadFailureForever ==
  /\ ReadFails
  /\ at' = "waiting"
  /\ conn' = ClosedConn
  /\ Spawn
  /\ UNCHANGED <<requester, sent, tryCount, shown, before>>

\* A client that sends the request again over the connection it has.
ReadFailureResend ==
  /\ ReadFails
  /\ IF tryCount < MaxTryCount
     THEN /\ tryCount' = tryCount + 1
          /\ conn' = Written(conn, sent)
          /\ UNCHANGED at
     ELSE at' = "exited" /\ UNCHANGED <<tryCount, conn>>
  /\ UNCHANGED <<requester, sent, shown, before, server>>

\* The connection is closed and a server spawned, twice at most.
ReadFailure ==
  /\ ReadFails
  /\ IF tryCount < MaxTryCount
     THEN /\ tryCount' = tryCount + 1
          /\ at' = "waiting"
          /\ conn' = ClosedConn
          /\ Spawn
     ELSE at' = "exited" /\ UNCHANGED <<tryCount, conn, server>>
  /\ UNCHANGED <<requester, sent, shown, before>>

\* An error of read, as of a connection closed with a request unread in it,
\* makes the client exit at once.
ReadError ==
  /\ at = "reading" /\ conn.output = <<>> /\ conn.end = "reset"
  /\ at' = "exited"
  /\ UNCHANGED <<requester, sent, tryCount, torn, shown, before, conn, server>>

\* A server that keeps its input method across connections.
ReconnectToOldIme ==
  /\ at = "waiting"
  /\ Connect(Written([FreshConn EXCEPT !.composed = shown], sent), "reading")
  /\ UNCHANGED <<requester, sent, tryCount, torn, shown, before, server>>

\* A second later there is a server to connect to, or the client exits; the
\* request is written again.
Reconnect ==
  /\ at = "waiting"
  /\ Connect(Written(FreshConn, sent), "reading")
  /\ UNCHANGED <<requester, sent, tryCount, torn, shown, before, server>>

-----------------------------------------------------------------------------
(* The server.                                                             *)

\* The thread leaves the connection, whose answers can still be read.
Left(c) ==
  {[c EXCEPT !.end = end, !.input = <<>>] :
     end \in {"closed"} \cup IF c.input = <<>> THEN {} ELSE {"reset"}}

\* client-loop: one request read, handled and answered.
Handle ==
  /\ conn.end = "open" /\ conn.input # <<>>
  /\ LET text == IF Head(conn.input) = "key" THEN conn.composed + 1 ELSE 0
     IN  /\ text \in Length
         /\ conn' = [conn EXCEPT !.composed = text, !.input = Tail(@),
                                 !.output = Append(@, text)]
  /\ UNCHANGED <<requester, at, sent, tryCount, torn, shown, before, server>>

\* An error ends the thread, which closes the connection.
ThreadEnds ==
  /\ conn.end = "open"
  /\ conn' \in Left(conn)
  /\ UNCHANGED <<requester, at, sent, tryCount, torn, shown, before, server>>

\* A spawned server listens, or exits because the name is in use.
ServerStarts ==
  /\ server.starting
  /\ server' = [up |-> TRUE, starting |-> FALSE]
  /\ UNCHANGED <<requester, at, sent, tryCount, torn, shown, before, conn>>

ServerStops ==
  /\ server.up
  /\ server' = [server EXCEPT !.up = FALSE]
  /\ IF conn.end = "open" THEN conn' \in Left(conn) ELSE UNCHANGED conn
  /\ UNCHANGED <<requester, at, sent, tryCount, torn, shown, before>>

-----------------------------------------------------------------------------
ClientSteps == FirstConnection \/ ReadLine \/ ReadFailure \/ ReadError \/ Reconnect

Server == Handle \/ ThreadEnds \/ ServerStarts \/ ServerStops

ClientNext == (\E r \in ClientRequest : Execute(r)) \/ ClientSteps \/ Server

\* The client waits one second at most for everything it waits for; nothing
\* is assumed of the server.
ClientFairness == WF_socketVars(ClientSteps)

ClientSpec == ClientInit /\ [][ClientNext]_socketVars /\ ClientFairness

-----------------------------------------------------------------------------
\* When a request has returned, no request and no answer of an earlier try is
\* left at a server that keeps the connection, and what the user sees is what
\* its input method composes (TryExecuting).  An answer torn by a failure hides
\* the next one as well.
ShownIsComposed ==
  (at = "idle" /\ conn.end = "open") =>
    /\ conn.input = <<>> /\ conn.output = <<>>
    /\ torn \/ shown = conn.composed

\* A key takes effect once.  With no failure it is added to the text composed
\* before; after a failure it is alone in the text of the new input method,
\* also when the old one had handled it (TryExecuting, unix-run).
KeyCountsOnce ==
  [][(at = "reading" /\ at' = "idle" /\ sent = "key") =>
       conn'.composed = IF tryCount = 0 THEN before + 1 ELSE 1]_socketVars

\* Every request ends: with an answer or, after three tries or without a
\* server, with the end of the process.
ClientRequestsEnd == at = "reading" ~> at \in {"idle", "exited"}
=============================================================================
