---------------------------- MODULE ComImeServer ----------------------------
(***************************************************************************)
(* The COM server of the Windows input method (com-ime-server/dllmain.cpp, *)
(* a DLL in a surrogate process of one apartment, its host) and the server *)
(* process it talks to over two pipes (bin/win-server-stdio.lisp).  All    *)
(* text services share both.  The server's standard error goes to the      *)
(* pipe of its answers, and so does that of the engine it starts, which    *)
(* prints text without a line break (engine/lm.lisp) or with one           *)
(* (im/kkc/engine.lisp).                                                   *)
(***************************************************************************)
EXTENDS Naturals, Sequences, FiniteSets

CONSTANTS
  Service,    \* the text services that hold a connection
  MaxImes,    \* bound on the input methods made by one server
  MaxNoise,   \* bound on the messages printed between answers
  MaxLocks,   \* bound on the module's lock count
  ServerFaults, \* the faults that can happen
  MaxFaults   \* bound on the faults of one host

Fault == {"pipe", "inherit", "spawn", "death", "noise"}

ASSUME ServerAssumption ==
  /\ MaxImes \in Nat \ {0}
  /\ MaxNoise \in Nat
  /\ MaxLocks \in Nat \ {0}
  /\ ServerFaults \subseteq Fault
  /\ MaxFaults \in Nat

VARIABLES
  host,      \* the surrogate process
  handles,   \* which of the four global handles are not NULL
  process,   \* the server process
  imes,      \* ime-hash: the mode of each input method of the server
  imeCount,  \* ime-count
  output,    \* the lines in the pipe of the server's answers
  noise,     \* how many messages were printed among them
  locks,     \* g_locks
  faults     \* the faults that happened since the host was started

serverVars == <<host, handles, process, imes, imeCount, output, noise, locks, faults>>

Mode == {"DIRECT", "HIRAGANA"}
PipeEnd == {"stdin_read", "stdin_write", "stdout_read", "stdout_write"}
Id == 1..MaxImes

\* A line: who asked for what, and the value answered; a message is nobody's.
Line(service, op, value) == [service |-> service, op |-> op, value |-> value]
Message == Line("nobody", "message", "")

ServerTypeOK ==
  /\ host \in {"up", "hung", "gone"}
  /\ handles \subseteq PipeEnd
  /\ process \in {"none", "running", "ended"}
  /\ DOMAIN imes \subseteq 1..imeCount /\ \A id \in DOMAIN imes : imes[id] \in Mode
  /\ imeCount \in 0..MaxImes
  /\ \A i \in 1..Len(output) : output[i].service \in Service \cup {"nobody"}
  /\ noise \in 0..MaxNoise
  /\ locks \in 0..MaxLocks
  /\ faults \subseteq ServerFaults

ServerInit ==
  /\ host = "gone"
  /\ handles = {}
  /\ process = "none"
  /\ imes = <<>>
  /\ imeCount = 0
  /\ output = <<>>
  /\ noise = 0
  /\ locks = 0
  /\ faults = {}

\* The host ends, or is new: its variables have their first values.  The
\* server it had reads the end of its input and ends as well.
HostWith(status) ==
  /\ host' = status
  /\ handles' = {}
  /\ process' = "none"
  /\ imes' = <<>>
  /\ imeCount' = 0
  /\ output' = <<>>
  /\ noise' = 0
  /\ locks' = 0

Happens(fault) ==
  /\ Cardinality(faults) < MaxFaults
  /\ fault \in ServerFaults \ faults
  /\ faults' = faults \cup {fault}

-----------------------------------------------------------------------------
(* The server process.                                                     *)

\* make-ime in a server with the given table: the first mode is direct.
Make(table, count) ==
  /\ imeCount' = count + 1
  /\ imes' = [id \in DOMAIN table \cup {count + 1} |->
                IF id \in DOMAIN table THEN table[id] ELSE "DIRECT"]

CloseIme_CountedBack(id) ==
  /\ imes' = [i \in DOMAIN imes \ {id} |-> imes[i]]
  /\ imeCount' = imeCount - 1

\* close-ime.
CloseIme(id) ==
  /\ imes' = [i \in DOMAIN imes \ {id} |-> imes[i]]
  /\ UNCHANGED imeCount

\* handle-request with toggle-input-mode; a conversion is not toggled.
ToggleMode(id) ==
  /\ \E mode \in Mode : imes' = [imes EXCEPT ![id] = mode]
  /\ UNCHANGED imeCount

\* handle-request with a request that leaves the mode alone.
SameModes == UNCHANGED <<imes, imeCount>>

\* The process may end at any time, and leaves what it wrote in the pipe.
ServerEnds ==
  /\ process = "running"
  /\ Happens("death")
  /\ process' = "ended"
  /\ UNCHANGED <<host, handles, imes, imeCount, output, noise, locks>>

-----------------------------------------------------------------------------
(* SendString.                                                             *)

\* What the host talks to: the pipe of a process that exists, or of a new one.
Current == [process |-> process, output |-> output, noise |-> noise]
Fresh == [process |-> "running", output |-> <<>>, noise |-> 0]

\* The lines an exchange can find in the pipe when the server answers with
\* `answer': nothing printed, a message on a line before it, or one without a
\* line break, which makes one useless line of both.
Written(pipe, answer) ==
  {[lines |-> Append(pipe.output, answer), printed |-> 0]} \cup
    IF \/ pipe.noise = MaxNoise \/ "noise" \notin ServerFaults
       \/ "noise" \notin faults /\ Cardinality(faults) = MaxFaults
    THEN {}
    ELSE {[lines |-> pipe.output \o <<Message, answer>>, printed |-> 1],
          [lines |-> Append(pipe.output, Message), printed |-> 1]}

ReadFrom_OneChunk(lines) == \E k \in 0..Len(lines) : output' = SubSeq(lines, k + 1, Len(lines))

\* Chunks are read until one ends with a line break, which may be that of a
\* line left from an earlier request: what was read is gone.
ReadFrom(lines) == \E k \in 1..Len(lines) : output' = SubSeq(lines, k + 1, Len(lines))

\* The callers use the first line of what was read.
Heard(found) == Head(found.lines)

\* What can be in the pipe after a line was written to it: a server that has
\* ended handles nothing, but may have left lines.
Found(pipe, answer) ==
  IF pipe.process = "running" THEN Written(pipe, answer)
  ELSE IF pipe.output # <<>> THEN {[lines |-> pipe.output, printed |-> 0]}
  ELSE {}

\* One line is written, and lines are read.
Exchange(pipe, found, effect) ==
  /\ host = "up"
  /\ process' = pipe.process
  /\ noise' = pipe.noise + found.printed
  /\ faults' = IF found.printed > 0 THEN faults \cup {"noise"} ELSE faults
  /\ ReadFrom(found.lines)
  /\ IF pipe.process = "running" THEN effect ELSE UNCHANGED <<imes, imeCount>>

\* The host holds both ends of both pipes: it can write to a process that is
\* not there, and never reads the end of its output.  ReadFile blocks for
\* ever, and with it the only thread of the apartment.
Hang ==
  /\ host = "up"
  /\ process # "running" /\ output = <<>>
  /\ host' = "hung"
  /\ UNCHANGED <<handles, process, imes, imeCount, output, noise, locks, faults>>

-----------------------------------------------------------------------------
(* The class factory.                                                      *)

LocksTaken(pairs) == 1 + pairs

\* The factory and the reference on it that the caller gets.
GetClassObject ==
  /\ host # "hung"
  /\ host' = "up"
  /\ \E pairs \in 0..1 :
       /\ locks + LocksTaken(pairs) =< MaxLocks
       /\ locks' = locks + LocksTaken(pairs)
  /\ faults' = IF host = "gone" THEN {} ELSE faults
  /\ UNCHANGED <<handles, process, imes, imeCount, output, noise>>

FactoryRelease == locks' = locks - 1

\* CloseServerProcessHandles with its endless loop: after the four handles it
\* goes on with whatever lies behind the array.
CloseServerProcessHandles ==
  HostWith("gone") \/ HostWith("hung")

\* EnsureServerProcessCreated is content with four handles.
Created == handles = PipeEnd

\* EnsureServerProcessCreated, when nothing fails: the pipe that is used.
Ensured == IF Created THEN Current ELSE Fresh

\* A pipe or the change of its inheritance fails: whatever was made stays.
PipeFails ==
  /\ ~Created
  /\ \/ /\ Happens("pipe")
        /\ handles' \in {handles, handles \cup {"stdout_read", "stdout_write"}}
     \/ /\ Happens("inherit")
        /\ handles' \in {handles \cup {"stdout_read", "stdout_write"}, PipeEnd}
  /\ UNCHANGED <<host, process, imes, imeCount, output, noise>>

SpawnFails ==
  /\ ~Created
  /\ Happens("spawn")
  /\ CloseServerProcessHandles

\* MakeIme: the id of the new input method is the answer.
Ids == IF Created THEN imeCount ELSE 0

Made(service) == Found(Ensured, Line(service, "make", Ids + 1))

MakeIme(found) == Exchange(Ensured, found, Make(IF Created THEN imes ELSE <<>>, Ids))

\* CreateInstance in a server that exists or is made; the caller of a new
\* object gets its only reference.
CreateInstance(found) ==
  /\ Ids < MaxImes
  /\ handles' = PipeEnd
  /\ MakeIme(found)
  /\ UNCHANGED host

\* HandleRequest for an input method.
HandleRequest(found, effect) ==
  /\ Exchange(Current, found, effect)
  /\ UNCHANGED <<host, handles, locks>>

\* The last Release of the object: the answer of close-ime is not looked at.
CloseRequest(service, id) ==
  \E found \in Found(Current, Line(service, "close", 0)) : HandleRequest(found, CloseIme(id))

\* DllCanUnloadNow.
DllCanUnloadNow == locks = 0

\* The surrogate ends when nobody holds an object of it; DllMain closes the
\* handles on the way out.
HostExits ==
  /\ host = "up"
  /\ HostWith("gone")
  /\ UNCHANGED faults
=============================================================================
