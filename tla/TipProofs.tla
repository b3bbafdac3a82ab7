----------------------------- MODULE TipProofs -----------------------------
(***************************************************************************)
(* The life of text services and the COM server they share, for every      *)
(* number of services, of input methods, of faults and of refusals: the    *)
(* assertions of the code hold, crashes and hangs have the causes named,   *)
(* every connection has an input method of its own, answers fit, and the   *)
(* icon shows the mode.                                                    *)
(***************************************************************************)
EXTENDS TextServiceLife, TipDll, FiniteSetTheorems, SequenceTheorems, TLAPS

\* What a line of the pipe can be.
Letter ==
  [service : Service \cup {"nobody"},
   op : {"make", "key", "toggle", "mode", "close", "message"},
   value : Nat \cup Mode \cup {""}]

\* What the variables of the host say of one another.  A host without all its
\* handles has no server process and nothing of one.
HostSound ==
  /\ output \in Seq(Letter)
  /\ Len(output) =< noise
  /\ noise > 0 => "noise" \in faults
  /\ host = "gone" => handles = {} /\ locks = 0
  /\ handles # PipeEnd =>
       /\ handles \in {{}, {"stdout_read", "stdout_write"}}
       /\ process = "none" /\ DOMAIN imes = {} /\ imeCount = 0 /\ output = <<>> /\ noise = 0
  /\ handles = PipeEnd /\ process # "running" => faults \cap {"inherit", "death"} # {}
  /\ host = "hung" => faults \cap {"inherit", "spawn", "death"} # {}

\* An answer to make-ime that is still in the pipe.
IsMade(i) == i \in 1..Len(output) /\ output[i].op = "make"

\* Every input method that a connection or an unread answer names is in the
\* table, and none is named twice.
Owned ==
  /\ \A s \in Service : object[s] \in Id => handles = PipeEnd /\ object[s] \in DOMAIN imes
  /\ \A s, t \in Service : object[s] \in Id /\ object[s] = object[t] => s = t
  /\ \A i \in 1..Len(output) : IsMade(i) =>
       /\ output[i].value \in DOMAIN imes
       /\ \A s \in Service : object[s] # output[i].value
       /\ \A j \in 1..Len(output) : IsMade(j) /\ output[i].value = output[j].value => i = j

\* The services that hold a class factory; each has locked the module.
Holders == {s \in Service : pc[s] = "class"}

Locked == IsFiniteSet(Holders) /\ Cardinality(Holders) =< locks

NotActivated == {"category", "apartment", "class", "instance"}

\* How far the service has come, and what was refused on the way.
Sound(s) ==
  /\ pc[s] \in {"advised", "on"} => handler[s] = "live"
  /\ pc[s] \in {"off", "class", "close"} => handler[s] # "live"
  /\ pc[s] \in {"off", "class"} => object[s] = 0
  /\ pc[s] = "class" \/ object[s] # 0 => apartments[s] > 0
  /\ pc[s] = "close" => object[s] # 0
  /\ keySink[s] \/ item[s] # "none" => handler[s] # "null"
  /\ pc[s] = "undo" /\ handler[s] = "deleted" => refused[s] \cap NotActivated # {}
  /\ handler[s] = "deleted" /\ keySink[s] => "key_query" \in refused[s]
  /\ handler[s] = "deleted" /\ item[s] # "none" => "bar_query" \in refused[s]
  /\ pc[s] = "deleted_twice" => refused[s] \cap NotActivated # {}
  /\ pc[s] = "used_deleted" => refused[s] \cap {"bar_query", "key_query"} # {}

AnswersHeard == heard = "other" => "noise" \in faults

Iconic(s) ==
  (/\ pc[s] = "on" /\ item[s] = "attached" /\ ~iconDue[s]
   /\ object[s] \in Id /\ host = "up" /\ process = "running" /\ "noise" \notin faults)
     => icon[s] = imes[object[s]]

\* The inductive invariant.  What a connection holds depends on the answers
\* still in the pipe: an answer that was delayed names an input method that
\* no service has yet, and the next one to ask will be given it.
IInv ==
  /\ TypeOK /\ HostSound /\ Owned /\ Locked /\ AnswersHeard
  /\ \A s \in Service : Sound(s) /\ Iconic(s)

-----------------------------------------------------------------------------
(* The pipe of the answers.                                                *)

LEMMA LineTypes ==
  /\ Message \in Letter /\ Message.op = "message"
  /\ \A s \in Service, op \in {"make", "key", "toggle", "mode", "close"}, value \in Nat \cup Mode :
       /\ Line(s, op, value) \in Letter
       /\ Line(s, op, value).service = s /\ Line(s, op, value).op = op
       /\ Line(s, op, value).value = value
BY DEF Message, Line, Letter

\* What an exchange can find: the lines that were there, and at the end the
\* answer; without a message that was printed, it is alone.
LEMMA FoundLines ==
  ASSUME NEW pipe, pipe.output \in Seq(Letter), NEW given \in Letter,
         NEW found \in Found(pipe, given)
  PROVE  /\ found.lines \in Seq(Letter) /\ found.lines # <<>>
         /\ found.printed \in {0, 1}
         /\ Len(found.lines) =< Len(pipe.output) + 1 + found.printed
         /\ found.printed > 0 => pipe.noise # MaxNoise /\ "noise" \in ServerFaults
         /\ \A i \in 1..Len(found.lines) :
              \/ i =< Len(pipe.output) /\ found.lines[i] = pipe.output[i]
              \/ found.lines[i] = Message
              \/ pipe.process = "running" /\ found.lines[i] = given /\ i = Len(found.lines)
                   /\ i > Len(pipe.output)
         /\ found.printed = 0 /\ pipe.output = <<>> =>
              Heard(found) = given /\ pipe.process = "running"
<1> DEFINE old == pipe.output
<1>1. Message \in Letter BY LineTypes
<1>2. Len(old) \in Nat /\ Len(Append(old, given)) = Len(old) + 1
  BY AppendProperties, LenProperties
<1>3. CASE pipe.process # "running"
  <2>1. found = [lines |-> old, printed |-> 0] /\ old # <<>> BY <1>3 DEF Found
  <2>2. found.lines = old /\ found.printed = 0 BY <2>1
  <2> QED BY <1>2, <2>1, <2>2
<1>4. CASE pipe.process = "running" /\ found = [lines |-> Append(old, given), printed |-> 0]
  <2>1. found.lines = Append(old, given) /\ found.printed = 0 BY <1>4
  <2>2. /\ Append(old, given) \in Seq(Letter) /\ Append(old, given) # <<>>
        /\ \A i \in 1..Len(old) : Append(old, given)[i] = old[i]
        /\ Append(old, given)[Len(old) + 1] = given
    BY AppendProperties
  <2>3. old = <<>> => Len(old) = 0 OBVIOUS
  <2>4. Heard(found) = found.lines[1] BY <2>1, <2>2 DEF Heard
  <2> HIDE DEF old
  <2>5. \A i \in 1..Len(found.lines) : i \in 1..Len(old) \/ i = Len(old) + 1 BY <1>2, <2>1
  <2> QED BY <1>2, <1>4, <2>1, <2>2, <2>3, <2>4, <2>5 DEF old
<1>5. CASE /\ pipe.process = "running" /\ pipe.noise # MaxNoise /\ "noise" \in ServerFaults
           /\ found = [lines |-> Append(old, Message), printed |-> 1]
  <2>1. found.lines = Append(old, Message) /\ found.printed = 1 BY <1>5
  <2>2. /\ Append(old, Message) \in Seq(Letter) /\ Append(old, Message) # <<>>
        /\ Len(Append(old, Message)) = Len(old) + 1
        /\ \A i \in 1..Len(old) : Append(old, Message)[i] = old[i]
        /\ Append(old, Message)[Len(old) + 1] = Message
    BY <1>1, AppendProperties
  <2> HIDE DEF old
  <2>3. \A i \in 1..Len(found.lines) : i \in 1..Len(old) \/ i = Len(old) + 1 BY <1>2, <2>1, <2>2
  <2> QED BY <1>2, <1>5, <2>1, <2>2, <2>3 DEF old
<1>6. CASE /\ pipe.process = "running" /\ pipe.noise # MaxNoise /\ "noise" \in ServerFaults
           /\ found = [lines |-> old \o <<Message, given>>, printed |-> 1]
  <2> DEFINE new == <<Message, given>>
  <2>1. found.lines = old \o new /\ found.printed = 1 BY <1>6
  <2>2. new \in Seq(Letter) /\ Len(new) = 2 /\ new[1] = Message /\ new[2] = given BY <1>1
  <2>3. /\ old \o new \in Seq(Letter) /\ Len(old \o new) = Len(old) + Len(new)
        /\ \A i \in 1..Len(old) + Len(new) :
             (old \o new)[i] = IF i =< Len(old) THEN old[i] ELSE new[i - Len(old)]
    BY <2>2, ConcatProperties
  <2> HIDE DEF old, new
  <2>4. Len(old \o new) = Len(old) + 2 /\ old \o new # <<>> BY <1>2, <2>2, <2>3
  <2>5. ASSUME NEW i \in 1..Len(old \o new)
        PROVE  \/ i =< Len(old) /\ (old \o new)[i] = old[i]
               \/ (old \o new)[i] = Message
               \/ (old \o new)[i] = given /\ i = Len(old \o new) /\ i > Len(old)
    <3>1. (old \o new)[i] = IF i =< Len(old) THEN old[i] ELSE new[i - Len(old)]
      BY <2>2, <2>3
    <3>2. CASE i =< Len(old) BY <3>1, <3>2
    <3>3. CASE i = Len(old) + 1
      <4>1. ~(i =< Len(old)) /\ i - Len(old) = 1 BY <1>2, <3>3
      <4> QED BY <2>2, <3>1, <4>1
    <3>4. CASE i = Len(old) + 2
      <4>1. ~(i =< Len(old)) /\ i - Len(old) = 2 /\ i > Len(old) BY <1>2, <3>4
      <4> QED BY <2>2, <2>4, <3>1, <3>4, <4>1
    <3> QED BY <1>2, <2>4, <3>2, <3>3, <3>4
  <2>6. found.lines \in Seq(Letter) /\ found.lines # <<>> BY <2>1, <2>3, <2>4
  <2>7. Len(found.lines) = Len(old) + 2 BY <2>1, <2>4
  <2>8. Len(found.lines) =< Len(old) + 1 + found.printed BY <1>2, <2>1, <2>7
  <2>9. \A i \in 1..Len(found.lines) :
          \/ i =< Len(old) /\ found.lines[i] = old[i]
          \/ found.lines[i] = Message
          \/ found.lines[i] = given /\ i = Len(found.lines) /\ i > Len(old)
    BY <2>1, <2>5
  <2> QED BY <1>6, <2>1, <2>6, <2>8, <2>9 DEF old
<1> QED BY <1>3, <1>4, <1>5, <1>6 DEF Found, Written

\* Reading takes at least the first line.
LEMMA ReadLines ==
  ASSUME NEW lines \in Seq(Letter), lines # <<>>, ReadFrom(lines)
  PROVE  \E k \in 1..Len(lines) :
           /\ output' \in Seq(Letter) /\ Len(output') = Len(lines) - k
           /\ \A i \in 1..Len(output') : i + k \in 1..Len(lines) /\ output'[i] = lines[i + k]
<1>1. PICK k \in 1..Len(lines) : output' = SubSeq(lines, k + 1, Len(lines)) BY DEF ReadFrom
<1>2. Len(lines) \in Nat /\ \A i \in 1..Len(lines) : lines[i] \in Letter
  BY LenProperties, ElementOfSeq
<1>3. \A i \in (k + 1)..Len(lines) : lines[i] \in Letter BY <1>2
<1>4. /\ output' \in Seq(Letter)
      /\ Len(output') = IF k + 1 =< Len(lines) THEN Len(lines) - (k + 1) + 1 ELSE 0
      /\ \A i \in 1..(Len(lines) - (k + 1) + 1) : output'[i] = lines[(k + 1) + i - 1]
  BY <1>1, <1>2, <1>3, SubSeqProperties
<1>5. Len(output') = Len(lines) - k BY <1>2, <1>4
<1>6. ASSUME NEW i \in 1..Len(output')
      PROVE  i + k \in 1..Len(lines) /\ output'[i] = lines[i + k]
  <2>1. i \in 1..(Len(lines) - (k + 1) + 1) /\ (k + 1) + i - 1 = i + k /\ i + k \in 1..Len(lines)
    BY <1>2, <1>5
  <2> QED BY <1>4, <2>1
<1> QED BY <1>4, <1>5, <1>6

\* A line is written and lines are read, and the server that exists does no
\* more than change or close an input method.
LEMMA Requested ==
  ASSUME ServerTypeOK, HostSound, handles = PipeEnd,
         NEW given \in Letter, given.op # "make", NEW found \in Found(Current, given),
         HandleRequest(found, TRUE), imeCount' = imeCount, DOMAIN imes' \subseteq DOMAIN imes,
         \A id \in DOMAIN imes' : imes'[id] \in Mode
  PROVE  /\ ServerTypeOK' /\ HostSound'
         /\ UNCHANGED <<host, handles, process, locks>> /\ faults \subseteq faults'
         /\ \E k \in Nat : \A i \in 1..Len(output') : output'[i].op = "make" =>
              i + k \in 1..Len(output) /\ output'[i] = output[i + k]
         /\ "noise" \notin faults' => Heard(found) = given /\ process = "running"
<1>1. /\ host = "up" /\ UNCHANGED <<host, handles, process, locks>>
      /\ noise' = noise + found.printed
      /\ faults' = IF found.printed > 0 THEN faults \cup {"noise"} ELSE faults
      /\ ReadFrom(found.lines)
  BY DEF HandleRequest, Exchange, Current
<1>2. /\ output \in Seq(Letter) /\ Len(output) \in Nat /\ noise \in Nat /\ noise =< MaxNoise
      /\ Len(output) =< noise /\ MaxNoise \in Nat /\ (noise > 0 => "noise" \in faults)
  BY ServerAssumption DEF HostSound, ServerTypeOK
<1>3. Current.output = output /\ Current.noise = noise /\ Current.process = process BY DEF Current
<1>4. /\ found.lines \in Seq(Letter) /\ found.lines # <<>> /\ found.printed \in {0, 1}
      /\ Len(found.lines) =< Len(output) + 1 + found.printed
      /\ found.printed > 0 => noise # MaxNoise /\ "noise" \in ServerFaults
      /\ \A i \in 1..Len(found.lines) :
           \/ i =< Len(output) /\ found.lines[i] = output[i]
           \/ found.lines[i] = Message
           \/ found.lines[i] = given
      /\ found.printed = 0 /\ output = <<>> => Heard(found) = given /\ process = "running"
  <2> DEFINE pipe == Current
  <2>1. pipe.output \in Seq(Letter) BY <1>2, <1>3
  <2>2. found \in Found(pipe, given) OBVIOUS
  <2>3. pipe.output = output /\ pipe.noise = noise /\ pipe.process = process BY <1>3
  <2> HIDE DEF pipe
  <2> QED BY <2>1, <2>2, <2>3, FoundLines
<1>5. PICK k \in 1..Len(found.lines) :
        /\ output' \in Seq(Letter) /\ Len(output') = Len(found.lines) - k
        /\ \A i \in 1..Len(output') : i + k \in 1..Len(found.lines) /\ output'[i] = found.lines[i + k]
  BY <1>1, <1>4, ReadLines
<1>6. Len(found.lines) \in Nat /\ Len(output') \in Nat BY <1>4, <1>5, LenProperties
<1>7. noise' \in 0..MaxNoise /\ (noise' > 0 => "noise" \in faults') BY <1>1, <1>2, <1>4
<1>8. Len(output') =< noise' BY <1>1, <1>2, <1>4, <1>5, <1>6
<1>9. faults' \subseteq ServerFaults /\ faults \subseteq faults' BY <1>1, <1>4 DEF ServerTypeOK
<1>10. \A i \in 1..Len(output') : output'[i].service \in Service \cup {"nobody"}
  <2>1. \A i \in 1..Len(output') : output'[i] \in Letter BY <1>5, ElementOfSeq
  <2> QED BY <2>1 DEF Letter
<1>11. ServerTypeOK' BY <1>1, <1>7, <1>9, <1>10 DEF ServerTypeOK
<1>12. HostSound' BY <1>1, <1>5, <1>7, <1>8, <1>9 DEF HostSound
<1>13. \A i \in 1..Len(output') : output'[i].op = "make" =>
         i + k \in 1..Len(output) /\ output'[i] = output[i + k]
  <2> TAKE i \in 1..Len(output')
  <2> HAVE output'[i].op = "make"
  <2>1. i + k \in 1..Len(found.lines) /\ output'[i] = found.lines[i + k] BY <1>5
  <2>2. found.lines[i + k].op # "message" /\ found.lines[i + k] # given BY <2>1
  <2>3. i + k =< Len(output) /\ found.lines[i + k] = output[i + k]
    BY <1>4, <2>1, <2>2, LineTypes
  <2> QED BY <1>2, <1>6, <2>1, <2>3
<1>14. ASSUME "noise" \notin faults' PROVE Heard(found) = given /\ process = "running"
  <2>1. found.printed = 0 /\ noise = 0 BY <1>1, <1>2, <1>4, <1>7, <1>14
  <2>2. output = <<>> BY <1>2, <2>1, EmptySeq
  <2> QED BY <1>4, <2>1, <2>2
<1>15. k \in Nat BY <1>6
<1> QED BY <1>1, <1>9, <1>11, <1>12, <1>13, <1>14, <1>15

\* What was named once is named once when the lines before it are gone.
LEMMA OwnedStays ==
  ASSUME Owned, handles' = handles, NEW k \in Nat,
         \A i \in 1..Len(output') : output'[i].op = "make" =>
           i + k \in 1..Len(output) /\ output'[i] = output[i + k],
         \A s \in Service : object'[s] \in Id => object'[s] = object[s],
         \A s \in Service : object'[s] = object[s] \/ object'[s] = 0 \/ object'[s] = Lost,
         \A s \in Service : object'[s] \in Id => object[s] \in DOMAIN imes',
         \A i \in 1..Len(output) : IsMade(i) => output[i].value \in DOMAIN imes',
         DOMAIN imes' \subseteq Id, output \in Seq(Letter), output' \in Seq(Letter)
  PROVE  Owned'
<1>1. 0 \notin Id /\ Lost \notin Id BY ServerAssumption DEF Id, Lost
<1>2. \A s \in Service : object'[s] \in Id => handles' = PipeEnd /\ object'[s] \in DOMAIN imes'
  BY DEF Owned
<1>3. \A s, t \in Service : object'[s] \in Id /\ object'[s] = object'[t] => s = t
  BY DEF Owned
<1>4. Len(output) \in Nat /\ Len(output') \in Nat BY LenProperties
<1>5. ASSUME NEW i \in 1..Len(output'), IsMade(i)'
      PROVE  /\ output'[i].value \in DOMAIN imes'
             /\ \A s \in Service : object'[s] # output'[i].value
             /\ \A j \in 1..Len(output') : IsMade(j)' /\ output'[i].value = output'[j].value => i = j
  <2>1. i + k \in 1..Len(output) /\ output'[i] = output[i + k] /\ IsMade(i + k)
    BY <1>5 DEF IsMade
  <2>2. output'[i].value \in DOMAIN imes' BY <2>1
  <2>3. \A s \in Service : object'[s] # output'[i].value BY <1>1, <2>1, <2>2 DEF Owned
  <2>4. ASSUME NEW j \in 1..Len(output'), IsMade(j)', output'[i].value = output'[j].value
        PROVE  i = j
    <3>1. j + k \in 1..Len(output) /\ output'[j] = output[j + k] /\ IsMade(j + k)
      BY <2>4 DEF IsMade
    <3>2. i + k = j + k BY <2>1, <2>4, <3>1 DEF Owned
    <3> QED BY <1>4, <3>2
  <2> QED BY <2>2, <2>3, <2>4
<1> QED BY <1>2, <1>3, <1>5 DEF Owned

-----------------------------------------------------------------------------
(* Keys and the language bar.                                              *)

LEMMA Types ==
  ASSUME IInv
  PROVE  /\ ServerTypeOK /\ LifeTypeOK /\ HostSound /\ Owned /\ Locked /\ AnswersHeard
         /\ \A s \in Service : Sound(s) /\ Iconic(s)
         /\ DOMAIN imes \subseteq Id /\ \A id \in DOMAIN imes : imes[id] \in Mode
         /\ imeCount \in 0..MaxImes /\ DOMAIN imes \subseteq 1..imeCount
         /\ output \in Seq(Letter)
BY ServerAssumption DEF IInv, TypeOK, ServerTypeOK, HostSound, Id

LEMMA Asking ==
  ASSUME IInv, NEW s \in Service, NEW op \in {"key", "toggle", "mode"},
         NEW found \in Answers(s, op), Ask(s, op, found, TRUE), object' = object,
         imeCount' = imeCount, DOMAIN imes' = DOMAIN imes,
         \A id \in DOMAIN imes' : imes'[id] \in Mode
  PROVE  /\ ServerTypeOK' /\ HostSound' /\ Owned' /\ AnswersHeard'
         /\ UNCHANGED <<host, handles, process, locks>> /\ faults \subseteq faults'
         /\ heard' \in {"none", "own", "other"}
         /\ object[s] \in Id /\ "noise" \notin faults' =>
              Heard(found) = Line(s, op, IF op = "mode" THEN imes[object[s]] ELSE "DIRECT")
<1>1. CASE object[s] \notin Id
  <2>1. UNCHANGED serverVars /\ heard' = "none" BY <1>1 DEF Ask
  <2>2. ServerTypeOK' /\ HostSound' BY <2>1, Types DEF serverVars, ServerTypeOK, HostSound
  <2>3. Owned' BY <2>1, Types DEF serverVars, Owned, IsMade
  <2> QED BY <1>1, <2>1, <2>2, <2>3 DEF serverVars, AnswersHeard
<1>2. CASE object[s] \in Id
  <2> DEFINE given == Line(s, op, IF op = "mode" THEN imes[object[s]] ELSE "DIRECT")
  <2>1. handles = PipeEnd /\ object[s] \in DOMAIN imes BY <1>2, Types DEF Owned
  <2>2. (IF op = "mode" THEN imes[object[s]] ELSE "DIRECT") \in Mode BY <2>1, Types DEF Mode
  <2>3. given \in Letter /\ given.op = op /\ given.service = s BY <2>2, LineTypes
  <2>4. found \in Found(Current, given) BY <1>2 DEF Answers
  <2>5. HandleRequest(found, TRUE) BY <1>2 DEF Ask
  <2>6. heard' = IF Heard(found).service = s /\ Heard(found).op = op THEN "own" ELSE "other"
    BY <1>2 DEF Ask
  <2> HIDE DEF given
  <2>7. /\ ServerTypeOK' /\ HostSound'
        /\ UNCHANGED <<host, handles, process, locks>> /\ faults \subseteq faults'
        /\ \E k \in Nat : \A i \in 1..Len(output') : output'[i].op = "make" =>
             i + k \in 1..Len(output) /\ output'[i] = output[i + k]
        /\ "noise" \notin faults' => Heard(found) = given /\ process = "running"
    BY <2>1, <2>3, <2>4, <2>5, Types, Requested
  <2>8. Owned'
    <3>1. output' \in Seq(Letter) BY <2>7 DEF HostSound
    <3>2. \A i \in 1..Len(output) : IsMade(i) => output[i].value \in DOMAIN imes'
      BY Types DEF Owned
    <3>3. \A t \in Service : object'[t] \in Id => object[t] \in DOMAIN imes' BY Types DEF Owned
    <3> QED BY <2>7, <3>1, <3>2, <3>3, Types, OwnedStays
  <2>9. AnswersHeard' BY <2>3, <2>6, <2>7 DEF AnswersHeard
  <2> QED BY <2>6, <2>7, <2>8, <2>9 DEF given
<1> QED BY <1>1, <1>2

\* Nobody has come to hold a class factory.
LEMMA LockedStays ==
  ASSUME Locked, locks \in Nat, locks' = locks,
         \A s \in Service : pc'[s] = "class" => pc[s] = "class"
  PROVE  Locked'
<1>1. Holders' \subseteq Holders BY DEF Holders
<1>2. IsFiniteSet(Holders') /\ Cardinality(Holders') =< Cardinality(Holders)
  BY <1>1, FS_Subset DEF Locked
<1>3. Cardinality(Holders) \in Nat /\ Cardinality(Holders') \in Nat
  BY <1>2, FS_CardinalityType DEF Locked
<1> QED BY <1>2, <1>3 DEF Locked

LEMMA KeyStep == ASSUME IInv, NEW s \in Service, Key(s) PROVE IInv'
<1>1. /\ Alive(s) /\ keySink[s]
      /\ UNCHANGED <<handler, object, keySink, button, item, apartments, iconDue, icon, refused>>
  BY DEF Key
<1>2. CASE handler[s] = "deleted"
  <2>1. pc' = [pc EXCEPT ![s] = "used_deleted"] /\ UNCHANGED serverVars /\ heard' = heard
    BY <1>2 DEF Key, Goes
  <2>2. ServerTypeOK' /\ HostSound' /\ AnswersHeard'
    BY <2>1, Types DEF serverVars, ServerTypeOK, HostSound, AnswersHeard
  <2>3. LifeTypeOK' BY <1>1, <2>1, Types DEF LifeTypeOK, Crash
  <2>4. Owned' BY <1>1, <2>1, Types DEF serverVars, Owned, IsMade
  <2>5. locks \in Nat /\ locks' = locks BY <2>1, Types DEF serverVars, ServerTypeOK
  <2>6. \A t \in Service : pc'[t] = "class" => pc[t] = "class"
    BY <2>1, Types DEF LifeTypeOK
  <2>7. Locked' BY <2>5, <2>6, Types, LockedStays
  <2>8. \A t \in Service : Sound(t)' BY <1>1, <1>2, <2>1, Types DEF LifeTypeOK, Sound
  <2>9. \A t \in Service : Iconic(t)'
    BY <1>1, <2>1, Types DEF serverVars, LifeTypeOK, Iconic
  <2> QED BY <2>2, <2>3, <2>4, <2>7, <2>8, <2>9 DEF IInv, TypeOK
<1>3. CASE handler[s] # "deleted"
  <2>1. PICK found \in Answers(s, "key") : Ask(s, "key", found, SameModes)
    BY <1>3 DEF Key
  <2>2. pc' = pc BY <1>3 DEF Key
  <2>3. Ask(s, "key", found, TRUE) /\ imes' = imes /\ imeCount' = imeCount
    BY <2>1 DEF Ask, HandleRequest, Exchange, SameModes, serverVars
  <2>4. /\ ServerTypeOK' /\ HostSound' /\ Owned' /\ AnswersHeard'
        /\ UNCHANGED <<host, handles, process, locks>> /\ faults \subseteq faults'
        /\ heard' \in {"none", "own", "other"}
    BY <1>1, <2>3, Asking, Types
  <2>5. LifeTypeOK' BY <1>1, <2>2, <2>4, Types DEF LifeTypeOK
  <2>6. Locked' BY <2>2, <2>4, Types, LockedStays DEF ServerTypeOK
  <2>7. \A t \in Service : Sound(t)' BY <1>1, <2>2, Types DEF Sound
  <2>8. \A t \in Service : Iconic(t)' BY <1>1, <2>2, <2>3, <2>4, Types DEF Iconic
  <2> QED BY <2>4, <2>5, <2>6, <2>7, <2>8 DEF IInv, TypeOK
<1> QED BY <1>2, <1>3

LEMMA ToggleStep == ASSUME IInv, NEW s \in Service, Toggle(s) PROVE IInv'
<1>1. /\ Alive(s) /\ (keySink[s] \/ item[s] # "none")
      /\ UNCHANGED <<handler, object, keySink, button, item, apartments, icon, refused>>
  BY DEF Toggle
<1>2. CASE handler[s] = "deleted"
  <2>1. /\ pc' = [pc EXCEPT ![s] = "used_deleted"]
        /\ UNCHANGED serverVars /\ heard' = heard /\ iconDue' = iconDue
    BY <1>2 DEF Toggle, Goes
  <2>2. ServerTypeOK' /\ HostSound' /\ AnswersHeard'
    BY <2>1, Types DEF serverVars, ServerTypeOK, HostSound, AnswersHeard
  <2>3. LifeTypeOK' BY <1>1, <2>1, Types DEF LifeTypeOK, Crash
  <2>4. Owned' BY <1>1, <2>1, Types DEF serverVars, Owned, IsMade
  <2>5. locks \in Nat /\ locks' = locks BY <2>1, Types DEF serverVars, ServerTypeOK
  <2>6. \A t \in Service : pc'[t] = "class" => pc[t] = "class"
    BY <2>1, Types DEF LifeTypeOK
  <2>7. Locked' BY <2>5, <2>6, Types, LockedStays
  <2>8. \A t \in Service : Sound(t)' BY <1>1, <1>2, <2>1, Types DEF LifeTypeOK, Sound
  <2>9. \A t \in Service : Iconic(t)'
    BY <1>1, <2>1, Types DEF serverVars, LifeTypeOK, Iconic
  <2> QED BY <2>2, <2>3, <2>4, <2>7, <2>8, <2>9 DEF IInv, TypeOK
<1>3. CASE handler[s] # "deleted"
  <2>1. PICK found \in Answers(s, "toggle") : Ask(s, "toggle", found, ToggleMode(object[s]))
    BY <1>3 DEF Toggle
  <2>2. \/ pc' = [pc EXCEPT ![s] = "toggled_early"] /\ iconDue' = iconDue
        \/ pc' = [pc EXCEPT ![s] = "no_item_sink"] /\ iconDue' = iconDue
        \/ pc' = pc /\ iconDue' = [iconDue EXCEPT ![s] = TRUE]
    BY <1>3 DEF Toggle, Goes, UpdateIcon
  <2>3. /\ Ask(s, "toggle", found, TRUE) /\ imeCount' = imeCount
        /\ \/ imes' = imes
           \/ object[s] \in Id /\ \E mode \in Mode : imes' = [imes EXCEPT ![object[s]] = mode]
    BY <2>1 DEF Ask, HandleRequest, Exchange, ToggleMode, serverVars
  <2>4. /\ DOMAIN imes' = DOMAIN imes /\ \A id \in DOMAIN imes' : imes'[id] \in Mode
        /\ \A id \in DOMAIN imes : id # object[s] => imes'[id] = imes[id]
    BY <2>3, Types
  <2>5. /\ ServerTypeOK' /\ HostSound' /\ Owned' /\ AnswersHeard'
        /\ UNCHANGED <<host, handles, process, locks>> /\ faults \subseteq faults'
        /\ heard' \in {"none", "own", "other"}
    BY <1>1, <2>3, <2>4, Asking
  <2>6. LifeTypeOK' BY <1>1, <2>2, <2>5, Types DEF LifeTypeOK, Crash
  <2>7. \A t \in Service : pc'[t] = "class" => pc[t] = "class"
    BY <2>2, Types DEF LifeTypeOK
  <2>8. Locked' BY <2>5, <2>7, Types, LockedStays DEF ServerTypeOK
  <2>9. \A t \in Service : Sound(t)' BY <1>1, <2>2, Types DEF LifeTypeOK, Sound
  <2>10. ASSUME NEW t \in Service PROVE Iconic(t)'
    <3>1. CASE t = s BY <1>1, <2>2, <3>1, Types DEF LifeTypeOK, Iconic
    <3>2. CASE t # s
      <4>1. pc'[t] = pc[t] /\ iconDue'[t] = iconDue[t] BY <2>2, <3>2, Types DEF LifeTypeOK
      <4>2. object[t] \in Id => imes'[object[t]] = imes[object[t]]
        BY <2>4, <3>2, Types DEF Owned
      <4> QED BY <1>1, <2>5, <4>1, <4>2, Types DEF Iconic
    <3> QED BY <3>1, <3>2
  <2> QED BY <2>5, <2>6, <2>8, <2>9, <2>10 DEF IInv, TypeOK
<1> QED BY <1>2, <1>3

LEMMA AdviseItemStep == ASSUME IInv, NEW s \in Service, AdviseItem(s) PROVE IInv'
<1>1. /\ item[s] = "listed" /\ item' = [item EXCEPT ![s] = "attached"]
      /\ iconDue' = [iconDue EXCEPT ![s] = TRUE]
      /\ UNCHANGED <<serverVars, pc, handler, object, keySink, button, apartments, icon, heard, refused>>
  BY DEF AdviseItem
<1>2. ServerTypeOK' /\ HostSound' /\ AnswersHeard'
  BY <1>1, Types DEF serverVars, ServerTypeOK, HostSound, AnswersHeard
<1>3. LifeTypeOK' BY <1>1, Types DEF LifeTypeOK
<1>4. Owned' BY <1>1, Types DEF serverVars, Owned, IsMade
<1>5. Locked' BY <1>1, Types, LockedStays DEF serverVars, ServerTypeOK
<1>6. \A t \in Service : Sound(t)' BY <1>1, Types DEF LifeTypeOK, Sound
<1>7. \A t \in Service : Iconic(t)' BY <1>1, Types DEF serverVars, LifeTypeOK, Iconic
<1> QED BY <1>2, <1>3, <1>4, <1>5, <1>6, <1>7 DEF IInv, TypeOK

LEMMA GetIconStep == ASSUME IInv, NEW s \in Service, GetIcon(s) PROVE IInv'
<1>1. /\ iconDue' = [iconDue EXCEPT ![s] = FALSE]
      /\ UNCHANGED <<pc, handler, object, keySink, button, item, apartments, refused>>
  BY DEF GetIcon
<1>2. PICK found \in Answers(s, "mode") :
        /\ Ask(s, "mode", found, SameModes)
        /\ icon' = [icon EXCEPT ![s] =
             IF Heard(found).op = "mode" /\ Heard(found).value = "DIRECT" THEN "DIRECT" ELSE "HIRAGANA"]
  BY DEF GetIcon
<1>3. Ask(s, "mode", found, TRUE) /\ imes' = imes /\ imeCount' = imeCount
  BY <1>2 DEF Ask, HandleRequest, Exchange, SameModes, serverVars
<1>4. /\ ServerTypeOK' /\ HostSound' /\ Owned' /\ AnswersHeard'
      /\ UNCHANGED <<host, handles, process, locks>> /\ faults \subseteq faults'
      /\ heard' \in {"none", "own", "other"}
      /\ object[s] \in Id /\ "noise" \notin faults' => Heard(found) = Line(s, "mode", imes[object[s]])
  BY <1>1, <1>3, Asking, Types
<1>5. LifeTypeOK' BY <1>1, <1>2, <1>4, Types DEF LifeTypeOK, Mode
<1>6. Locked' BY <1>1, <1>4, Types, LockedStays DEF ServerTypeOK
<1>7. \A t \in Service : Sound(t)' BY <1>1, Types DEF Sound
<1>8. ASSUME NEW t \in Service PROVE Iconic(t)'
  <2>1. CASE t # s
    <3>1. icon'[t] = icon[t] /\ iconDue'[t] = iconDue[t] BY <1>1, <1>2, <2>1, Types DEF LifeTypeOK
    <3> QED BY <1>1, <1>3, <1>4, <3>1, Types DEF Iconic
  <2>2. CASE t = s
    <3> SUFFICES ASSUME object[s] \in Id, "noise" \notin faults' PROVE icon'[s] = imes[object[s]]
      BY <1>1, <1>3, <2>2 DEF Iconic
    <3>1. imes[object[s]] \in Mode BY Types DEF Owned
    <3>2. Heard(found).op = "mode" /\ Heard(found).value = imes[object[s]]
      BY <1>4, <3>1, LineTypes
    <3>3. icon'[s] = IF imes[object[s]] = "DIRECT" THEN "DIRECT" ELSE "HIRAGANA"
      BY <1>2, <3>2, Types DEF LifeTypeOK
    <3> QED BY <3>1, <3>3 DEF Mode
  <2> QED BY <2>1, <2>2
<1> QED BY <1>4, <1>5, <1>6, <1>7, <1>8 DEF IInv, TypeOK

-----------------------------------------------------------------------------
(* Activate.                                                               *)

LEMMA InitGood == Init => IInv
<1> SUFFICES ASSUME Init PROVE IInv OBVIOUS
<1>1. ServerTypeOK BY ServerAssumption DEF Init, ServerInit, ServerTypeOK
<1>2. LifeTypeOK BY ServerAssumption, LifeAssumption DEF Init, LifeTypeOK, Lost, Mode
<1>3. HostSound
  <2>1. output = <<>> /\ Len(output) = 0 /\ output \in Seq(Letter) BY DEF Init, ServerInit
  <2>2. DOMAIN imes = {} BY DEF Init, ServerInit
  <2> QED BY <2>1, <2>2 DEF Init, ServerInit, HostSound, PipeEnd
<1>4. Owned BY ServerAssumption DEF Init, ServerInit, Owned, Id
<1>5. Locked
  <2>1. Holders = {} BY DEF Init, Holders
  <2> QED BY <2>1, FS_EmptySet DEF Locked, Init, ServerInit
<1>6. AnswersHeard BY DEF Init, AnswersHeard
<1>7. \A s \in Service : Sound(s) /\ Iconic(s) BY DEF Init, Sound, Iconic
<1> QED BY <1>1, <1>2, <1>3, <1>4, <1>5, <1>6, <1>7 DEF IInv, TypeOK

LEMMA SameServer ==
  ASSUME IInv, UNCHANGED serverVars
  PROVE  ServerTypeOK' /\ HostSound' /\ (object' = object => Owned')
<1>1. ServerTypeOK' /\ HostSound' BY Types DEF serverVars, ServerTypeOK, HostSound
<1>2. object' = object => Owned' BY Types DEF serverVars, Owned, IsMade
<1> QED BY <1>1, <1>2

LEMMA ActivateBeginStep == ASSUME IInv, NEW s \in Service, ActivateBegin(s) PROVE IInv'
<1>1. /\ pc[s] = "off" /\ apartments[s] < MaxApartments
      /\ heard' = IF host' = host THEN heard ELSE "none"
      /\ UNCHANGED <<handler, object, keySink, button, item, iconDue, icon>>
  BY DEF ActivateBegin
<1>2. CASE \/ /\ \E call \in {"category", "apartment"} : Refuse(s, call)
              /\ Goes(s, "undo")
              /\ UNCHANGED <<serverVars, apartments>>
           \/ /\ Refuse(s, "class")
              /\ apartments' = [apartments EXCEPT ![s] = @ + 1]
              /\ Goes(s, "undo")
              /\ UNCHANGED serverVars
  <2>1. PICK call \in {"category", "apartment", "class"} :
          refused' = [refused EXCEPT ![s] = @ \cup {call}]
    BY <1>2 DEF Refuse
  <2>2. /\ pc' = [pc EXCEPT ![s] = "undo"] /\ UNCHANGED serverVars
        /\ \/ apartments' = apartments
           \/ apartments' = [apartments EXCEPT ![s] = @ + 1]
    BY <1>2 DEF Goes
  <2>3. heard' = heard /\ locks' = locks /\ locks \in Nat
    BY <1>1, <2>2, Types DEF serverVars, ServerTypeOK
  <2>4. ServerTypeOK' /\ HostSound' /\ Owned' BY <1>1, <2>2, SameServer
  <2>5. AnswersHeard' BY <2>2, <2>3, Types DEF serverVars, AnswersHeard
  <2>6. apartments' \in [Service -> 0..MaxApartments]
    <3>1. apartments \in [Service -> 0..MaxApartments] BY Types DEF LifeTypeOK
    <3>2. apartments[s] + 1 \in 0..MaxApartments BY <1>1, <3>1, LifeAssumption
    <3> QED BY <2>2, <3>1, <3>2
  <2>7. refused' \in [Service -> SUBSET Refusal] BY <2>1, Types DEF LifeTypeOK, Refusal
  <2>8. LifeTypeOK' BY <1>1, <2>2, <2>3, <2>6, <2>7, Types DEF LifeTypeOK
  <2>9. \A t \in Service : pc'[t] = "class" => pc[t] = "class" BY <2>2, Types DEF LifeTypeOK
  <2>10. Locked' BY <2>3, <2>9, Types, LockedStays
  <2>11. ASSUME NEW t \in Service PROVE Sound(t)'
    <3>1. CASE t = s
      <4>1. /\ pc'[s] = "undo" /\ refused'[s] = refused[s] \cup {call}
            /\ apartments'[s] >= apartments[s] /\ apartments[s] \in Nat
        BY <2>1, <2>2, Types DEF LifeTypeOK
      <4>2. Sound(s) BY Types
      <4> QED BY <1>1, <3>1, <4>1, <4>2 DEF Sound, NotActivated
    <3>2. CASE t # s
      <4>1. pc'[t] = pc[t] /\ refused'[t] = refused[t] /\ apartments'[t] = apartments[t]
        BY <2>1, <2>2, <3>2, Types DEF LifeTypeOK
      <4> QED BY <1>1, <4>1, Types DEF Sound
    <3> QED BY <3>1, <3>2
  <2>12. \A t \in Service : Iconic(t)' BY <1>1, <2>2, Types DEF serverVars, LifeTypeOK, Iconic
  <2> QED BY <2>4, <2>5, <2>8, <2>10, <2>11, <2>12 DEF IInv, TypeOK
<1>3. CASE /\ GetClassObject
           /\ apartments' = [apartments EXCEPT ![s] = @ + 1]
           /\ Goes(s, "class")
           /\ UNCHANGED refused
  <2>1. /\ pc' = [pc EXCEPT ![s] = "class"] /\ apartments' = [apartments EXCEPT ![s] = @ + 1]
        /\ refused' = refused
    BY <1>3 DEF Goes
  <2>2. /\ host # "hung" /\ host' = "up" /\ faults' = IF host = "gone" THEN {} ELSE faults
        /\ UNCHANGED <<handles, process, imes, imeCount, output, noise>>
    BY <1>3 DEF GetClassObject
  <2>3. PICK pairs \in 0..1 : locks + LocksTaken(pairs) =< MaxLocks /\ locks' = locks + LocksTaken(pairs)
    BY <1>3 DEF GetClassObject
  <2>4. locks \in Nat /\ locks' \in 0..MaxLocks /\ locks' >= locks + 1
    BY <2>3, Types, ServerAssumption DEF ServerTypeOK, LocksTaken
  <2>5. ServerTypeOK' BY <2>2, <2>4, Types DEF ServerTypeOK
  <2>6. host = "gone" => handles # PipeEnd /\ noise = 0 BY Types DEF HostSound, PipeEnd
  <2>7. host # "gone" => host = "up" BY <2>2, Types DEF ServerTypeOK
  <2>8. HostSound' BY <2>2, <2>6, Types DEF HostSound
  <2>9. Owned' BY <1>1, <2>2, Types DEF Owned, IsMade
  <2>10. LifeTypeOK'
    BY <1>1, <2>1, Types, LifeAssumption DEF LifeTypeOK
  <2>11. Locked'
    <3>1. Holders' = Holders \cup {s} /\ s \notin Holders
      BY <1>1, <2>1, Types DEF LifeTypeOK, Holders
    <3>2. IsFiniteSet(Holders') /\ Cardinality(Holders') = Cardinality(Holders) + 1
      BY <3>1, Types, FS_AddElement DEF Locked
    <3>3. Cardinality(Holders) \in Nat /\ Cardinality(Holders) =< locks
      BY Types, FS_CardinalityType DEF Locked
    <3> QED BY <2>4, <3>2, <3>3 DEF Locked
  <2>12. AnswersHeard' BY <1>1, <2>2, <2>7, Types DEF AnswersHeard
  <2>13. ASSUME NEW t \in Service PROVE Sound(t)'
    <3>1. CASE t = s
      <4>1. pc'[s] = "class" /\ apartments'[s] > 0 BY <2>1, Types DEF LifeTypeOK
      <4>2. Sound(s) BY Types
      <4> QED BY <1>1, <2>1, <3>1, <4>1, <4>2 DEF Sound
    <3>2. CASE t # s
      <4>1. pc'[t] = pc[t] /\ apartments'[t] = apartments[t] BY <2>1, <3>2, Types DEF LifeTypeOK
      <4> QED BY <1>1, <2>1, <4>1, Types DEF Sound
    <3> QED BY <3>1, <3>2
  <2>14. ASSUME NEW t \in Service PROVE Iconic(t)'
    <3>1. object[t] \in Id => host = "up" BY <2>6, <2>7, Types DEF Owned
    <3>2. pc'[t] = "on" => pc[t] = "on" BY <2>1, Types DEF LifeTypeOK
    <3> QED BY <1>1, <2>2, <3>1, <3>2, Types DEF Iconic
  <2> QED BY <2>5, <2>8, <2>9, <2>10, <2>11, <2>12, <2>13, <2>14 DEF IInv, TypeOK
<1> QED BY <1>2, <1>3 DEF ActivateBegin

\* What a new input method finds: the answers in the pipe name input methods
\* of nobody, each another one, and the new one is none of them.
LEMMA MakeDone ==
  ASSUME IInv, NEW s \in Service, NEW found \in Made(s), CreateInstance(found),
         locks > 0, locks' = locks - 1
  PROVE  /\ ServerTypeOK' /\ HostSound' /\ host = "up" /\ host' = host /\ handles' = PipeEnd
         /\ faults \subseteq faults' /\ (handles = PipeEnd => process' = process)
         /\ \A id \in DOMAIN imes : id \in DOMAIN imes' /\ imes'[id] = imes[id]
         /\ DOMAIN imes' \subseteq Id
         /\ Heard(found).op = "make" =>
              /\ Heard(found).value \in DOMAIN imes'
              /\ \A t \in Service : object[t] # Heard(found).value
         /\ \A i \in 1..Len(output') : IsMade(i)' =>
              /\ output'[i].value \in DOMAIN imes'
              /\ \A t \in Service : object[t] # output'[i].value
              /\ Heard(found).op = "make" => output'[i].value # Heard(found).value
              /\ \A j \in 1..Len(output') : IsMade(j)' /\ output'[i].value = output'[j].value => i = j
<1> DEFINE new == imeCount + 1
           given == Line(s, "make", new)
<1>1. handles # PipeEnd => DOMAIN imes = {} /\ imeCount = 0 /\ output = <<>> /\ noise = 0
  BY Types DEF HostSound
<1>2. Ids = imeCount /\ imeCount < MaxImes BY <1>1 DEF Ids, Created, CreateInstance
<1>3. /\ Ensured.output = output /\ Ensured.noise = noise
      /\ Ensured.process = IF handles = PipeEnd THEN process ELSE "running"
  BY <1>1 DEF Ensured, Created, Current, Fresh
<1>4. /\ host = "up" /\ host' = host /\ handles' = PipeEnd
      /\ process' = Ensured.process /\ noise' = Ensured.noise + found.printed
      /\ faults' = IF found.printed > 0 THEN faults \cup {"noise"} ELSE faults
      /\ ReadFrom(found.lines)
      /\ IF Ensured.process = "running" THEN Make(IF Created THEN imes ELSE <<>>, Ids)
         ELSE UNCHANGED <<imes, imeCount>>
  BY DEF CreateInstance, MakeIme, Exchange
<1>5. /\ imeCount \in Nat /\ imeCount' \in 0..MaxImes /\ new \in Id
      /\ DOMAIN imes' \subseteq 1..imeCount' /\ \A id \in DOMAIN imes' : imes'[id] \in Mode
      /\ \A id \in DOMAIN imes : id \in DOMAIN imes' /\ imes'[id] = imes[id]
      /\ Ensured.process = "running" => new \in DOMAIN imes'
      /\ new \notin DOMAIN imes
  <2> DEFINE table == IF Created THEN imes ELSE <<>>
  <2>1. imeCount \in Nat /\ new \in Id /\ new \notin DOMAIN imes
    BY <1>2, Types, ServerAssumption DEF Id
  <2>2. DOMAIN table = DOMAIN imes /\ \A id \in DOMAIN imes : table[id] = imes[id]
    BY <1>1 DEF Created
  <2>3. CASE Ensured.process = "running"
    <3>1. /\ imeCount' = new
          /\ imes' = [id \in DOMAIN table \cup {new} |-> IF id \in DOMAIN table THEN table[id] ELSE "DIRECT"]
      BY <1>2, <1>4, <2>3 DEF Make
    <3> HIDE DEF table
    <3>2. /\ DOMAIN imes' = DOMAIN imes \cup {new}
          /\ \A id \in DOMAIN imes : imes'[id] = imes[id]
          /\ imes'[new] = "DIRECT"
      BY <2>1, <2>2, <3>1
    <3>3. imeCount' \in 0..MaxImes BY <1>2, <2>1, <3>1, ServerAssumption
    <3>4. DOMAIN imes \subseteq 1..imeCount BY Types
    <3>5. DOMAIN imes' \subseteq 1..imeCount' BY <2>1, <3>1, <3>2, <3>4
    <3>6. \A id \in DOMAIN imes' : imes'[id] \in Mode
      <4>1. \A id \in DOMAIN imes : imes[id] \in Mode BY Types
      <4>2. "DIRECT" \in Mode BY DEF Mode
      <4> QED BY <3>2, <4>1, <4>2
    <3> QED BY <2>1, <3>2, <3>3, <3>5, <3>6
  <2>4. CASE Ensured.process # "running"
    <3>1. imes' = imes /\ imeCount' = imeCount BY <1>4, <2>4
    <3> QED BY <2>1, <2>4, <3>1, Types
  <2> QED BY <2>3, <2>4
<1>6. given \in Letter /\ given.op = "make" /\ given.value = new BY <1>5, LineTypes
<1>7. found \in Found(Ensured, given) BY <1>2 DEF Made
<1> HIDE DEF given, new
<1>8. /\ found.lines \in Seq(Letter) /\ found.lines # <<>> /\ found.printed \in {0, 1}
      /\ Len(found.lines) =< Len(output) + 1 + found.printed
      /\ found.printed > 0 => noise # MaxNoise /\ "noise" \in ServerFaults
      /\ \A i \in 1..Len(found.lines) :
           \/ i =< Len(output) /\ found.lines[i] = output[i]
           \/ found.lines[i] = Message
           \/ Ensured.process = "running" /\ found.lines[i] = given /\ i = Len(found.lines)
  <2> DEFINE pipe == Ensured
  <2>1. pipe.output \in Seq(Letter) BY <1>3, Types
  <2>2. found \in Found(pipe, given) BY <1>7
  <2>3. pipe.output = output /\ pipe.noise = noise /\ pipe.process = Ensured.process BY <1>3
  <2> HIDE DEF pipe
  <2> QED BY <1>6, <2>1, <2>2, <2>3, FoundLines
<1>9. PICK k \in 1..Len(found.lines) :
        /\ output' \in Seq(Letter) /\ Len(output') = Len(found.lines) - k
        /\ \A i \in 1..Len(output') : i + k \in 1..Len(found.lines) /\ output'[i] = found.lines[i + k]
  BY <1>4, <1>8, ReadLines
<1>10. Len(found.lines) \in Nat /\ Len(output') \in Nat /\ Len(output) \in Nat
  BY <1>8, <1>9, Types, LenProperties
\* The claims of the lines found.
<1>11. ASSUME NEW i \in 1..Len(found.lines), found.lines[i].op = "make"
       PROVE  /\ found.lines[i].value \in DOMAIN imes'
              /\ \A t \in Service : object[t] # found.lines[i].value
              /\ \/ /\ i \in 1..Len(output) /\ IsMade(i) /\ found.lines[i] = output[i]
                    /\ found.lines[i].value # new
                 \/ i = Len(found.lines) /\ found.lines[i].value = new
  <2>1. CASE i =< Len(output) /\ found.lines[i] = output[i]
    <3>1. i \in 1..Len(output) /\ IsMade(i) BY <1>10, <1>11, <2>1 DEF IsMade
    <3> QED BY <1>5, <2>1, <3>1, Types DEF Owned
  <2>2. CASE Ensured.process = "running" /\ found.lines[i] = given /\ i = Len(found.lines)
    <3>1. found.lines[i].value = new /\ new \in DOMAIN imes' BY <1>5, <1>6, <2>2
    <3>2. \A t \in Service : object[t] # new BY <1>5, Types DEF Owned
    <3> QED BY <2>2, <3>1, <3>2
  <2> QED BY <1>8, <1>11, <2>1, <2>2, LineTypes
<1>12. ASSUME NEW i \in 1..Len(found.lines), NEW j \in 1..Len(found.lines),
              found.lines[i].op = "make", found.lines[j].op = "make",
              found.lines[i].value = found.lines[j].value
       PROVE  i = j
  <2>1. CASE found.lines[i].value = new BY <1>11, <1>12, <2>1
  <2>2. CASE found.lines[i].value # new
    <3>1. /\ i \in 1..Len(output) /\ IsMade(i) /\ found.lines[i] = output[i]
          /\ j \in 1..Len(output) /\ IsMade(j) /\ found.lines[j] = output[j]
      BY <1>11, <1>12, <2>2
    <3> QED BY <1>12, <3>1, Types DEF Owned
  <2> QED BY <2>1, <2>2
<1>13. Heard(found) = found.lines[1] /\ 1 \in 1..Len(found.lines)
  <2>1. Len(found.lines) # 0 BY <1>8, EmptySeq
  <2> QED BY <1>8, <1>10, <2>1 DEF Heard
<1>14. ASSUME NEW i \in 1..Len(output'), IsMade(i)'
       PROVE  /\ output'[i].value \in DOMAIN imes'
              /\ \A t \in Service : object[t] # output'[i].value
              /\ Heard(found).op = "make" => output'[i].value # Heard(found).value
              /\ \A j \in 1..Len(output') : IsMade(j)' /\ output'[i].value = output'[j].value => i = j
  <2>1. i + k \in 1..Len(found.lines) /\ output'[i] = found.lines[i + k] /\ output'[i].op = "make"
    BY <1>9, <1>14 DEF IsMade
  <2>2. i + k # 1 BY <1>10
  <2>3. Heard(found).op = "make" => output'[i].value # Heard(found).value
    BY <1>12, <1>13, <2>1, <2>2
  <2>4. ASSUME NEW j \in 1..Len(output'), IsMade(j)', output'[i].value = output'[j].value
        PROVE  i = j
    <3>1. j + k \in 1..Len(found.lines) /\ output'[j] = found.lines[j + k] /\ output'[j].op = "make"
      BY <1>9, <2>4 DEF IsMade
    <3>2. i + k = j + k BY <1>12, <2>1, <2>4, <3>1
    <3> QED BY <1>10, <3>2
  <2> QED BY <1>11, <2>1, <2>3, <2>4
<1>15. Heard(found).op = "make" =>
         Heard(found).value \in DOMAIN imes' /\ \A t \in Service : object[t] # Heard(found).value
  BY <1>11, <1>13
<1>16. /\ noise \in 0..MaxNoise /\ MaxNoise \in Nat /\ Len(output) =< noise
       /\ noise > 0 => "noise" \in faults
  BY Types, ServerAssumption DEF HostSound, ServerTypeOK
<1>17. noise' \in 0..MaxNoise /\ (noise' > 0 => "noise" \in faults') /\ Len(output') =< noise'
  <2>1. noise' = noise + found.printed BY <1>3, <1>4
  <2>2. found.printed > 0 => "noise" \in faults' BY <1>4, <1>8
  <2>3. faults \subseteq faults' BY <1>4
  <2>4. Len(output') =< Len(output) + found.printed BY <1>8, <1>9, <1>10
  <2> QED BY <1>8, <1>16, <2>1, <2>2, <2>3, <2>4
<1>18. faults' \subseteq ServerFaults /\ faults \subseteq faults'
  BY <1>4, <1>8, Types DEF ServerTypeOK
<1>19. process' \in {"none", "running", "ended"} /\ (handles = PipeEnd => process' = process)
       /\ (handles # PipeEnd => process' = "running")
  BY <1>3, <1>4, Types DEF ServerTypeOK
<1>20. \A i \in 1..Len(output') : output'[i].service \in Service \cup {"nobody"}
  <2>1. \A i \in 1..Len(output') : output'[i] \in Letter BY <1>9, ElementOfSeq
  <2> QED BY <2>1 DEF Letter
<1>21. locks' \in 0..MaxLocks BY Types, ServerAssumption DEF ServerTypeOK
<1>22. ServerTypeOK' BY <1>4, <1>5, <1>17, <1>18, <1>19, <1>20, <1>21, Types DEF ServerTypeOK
<1>23. HostSound' BY <1>4, <1>9, <1>17, <1>18, <1>19, Types DEF HostSound
<1>24. DOMAIN imes' \subseteq Id BY <1>5, ServerAssumption DEF Id
<1> QED BY <1>4, <1>5, <1>14, <1>15, <1>18, <1>19, <1>22, <1>23, <1>24

\* A holder gives its class factory back.
LEMMA HolderLeaves ==
  ASSUME IInv, NEW s \in Service, pc[s] = "class", locks' = locks - 1,
         \A t \in Service : pc'[t] = "class" => t # s /\ pc[t] = "class"
  PROVE  locks > 0 /\ Locked'
<1>1. Locked /\ locks \in Nat BY Types DEF ServerTypeOK
<1>2. s \in Holders /\ Holders' \subseteq Holders \ {s} BY DEF Holders
<1>3. IsFiniteSet(Holders \ {s}) /\ Cardinality(Holders \ {s}) = Cardinality(Holders) - 1
  BY <1>1, <1>2, FS_RemoveElement DEF Locked
<1>4. IsFiniteSet(Holders') /\ Cardinality(Holders') =< Cardinality(Holders \ {s})
  BY <1>2, <1>3, FS_Subset
<1>5. /\ Cardinality(Holders) \in Nat /\ Cardinality(Holders') \in Nat
      /\ Cardinality(Holders \ {s}) \in Nat
  BY <1>1, <1>3, <1>4, FS_CardinalityType DEF Locked
<1> QED BY <1>1, <1>3, <1>4, <1>5 DEF Locked

LEMMA CreateStep == ASSUME IInv, NEW s \in Service, Create(s) PROVE IInv'
<1>1. /\ pc[s] = "class" /\ locks' = locks - 1
      /\ UNCHANGED <<button, item, apartments, iconDue, icon, heard>>
  BY DEF Create, FactoryRelease
<1>2. PICK found \in Made(s) :
        /\ CreateInstance(found)
        /\ IF Heard(found).op = "make"
           THEN /\ object' = [object EXCEPT ![s] = Heard(found).value]
                /\ handler' = [handler EXCEPT ![s] = "live"]
                /\ \/ /\ keySink' = [keySink EXCEPT ![s] = TRUE]
                      /\ Goes(s, "advised")
                      /\ UNCHANGED refused
                   \/ Refuse(s, "keystrokes") /\ Goes(s, "undo") /\ UNCHANGED keySink
           ELSE /\ refused' = [refused EXCEPT ![s] = @ \cup {"instance"}]
                /\ Goes(s, "undo")
                /\ UNCHANGED <<object, handler, keySink>>
  BY DEF Create
<1>3. \E to \in {"advised", "undo"} : pc' = [pc EXCEPT ![s] = to] BY <1>2 DEF Goes
<1>4. \A t \in Service : /\ pc'[t] = "class" => t # s /\ pc[t] = "class"
                         /\ t # s => pc'[t] = pc[t]
  BY <1>3, Types DEF LifeTypeOK
<1>5. locks > 0 /\ Locked' BY <1>1, <1>4, HolderLeaves
<1>6. /\ ServerTypeOK' /\ HostSound' /\ host = "up" /\ host' = host /\ handles' = PipeEnd
      /\ faults \subseteq faults' /\ (handles = PipeEnd => process' = process)
      /\ \A id \in DOMAIN imes : id \in DOMAIN imes' /\ imes'[id] = imes[id]
      /\ DOMAIN imes' \subseteq Id
      /\ Heard(found).op = "make" =>
           /\ Heard(found).value \in DOMAIN imes'
           /\ \A t \in Service : object[t] # Heard(found).value
      /\ \A i \in 1..Len(output') : IsMade(i)' =>
           /\ output'[i].value \in DOMAIN imes'
           /\ \A t \in Service : object[t] # output'[i].value
           /\ Heard(found).op = "make" => output'[i].value # Heard(found).value
           /\ \A j \in 1..Len(output') : IsMade(j)' /\ output'[i].value = output'[j].value => i = j
  BY <1>1, <1>2, <1>5, MakeDone
<1>7. AnswersHeard' BY <1>1, <1>6, Types DEF AnswersHeard
<1>8. object[s] = 0 /\ 0 \notin Id /\ Id \subseteq 0..Lost
  BY <1>1, Types, ServerAssumption DEF Sound, Id, Lost
<1>9. CASE Heard(found).op = "make"
  <2>1. /\ object' = [object EXCEPT ![s] = Heard(found).value]
        /\ handler' = [handler EXCEPT ![s] = "live"]
        /\ \/ keySink' = [keySink EXCEPT ![s] = TRUE] /\ pc' = [pc EXCEPT ![s] = "advised"]
             /\ refused' = refused
           \/ keySink' = keySink /\ pc' = [pc EXCEPT ![s] = "undo"]
             /\ refused' = [refused EXCEPT ![s] = @ \cup {"keystrokes"}]
    BY <1>2, <1>9 DEF Goes, Refuse
  <2>2. Heard(found).value \in Id BY <1>6, <1>9
  <2>3. object' \in [Service -> 0..Lost] BY <1>8, <2>1, <2>2, Types DEF LifeTypeOK
  <2>4. refused' \in [Service -> SUBSET Refusal]
    <3>1. refused \in [Service -> SUBSET Refusal] BY Types DEF LifeTypeOK
    <3>2. refused[s] \cup {"keystrokes"} \subseteq Refusal BY <3>1 DEF Refusal
    <3> QED BY <2>1, <3>1, <3>2
  <2>5. LifeTypeOK' BY <1>1, <2>1, <2>3, <2>4, Types DEF LifeTypeOK
  <2>6. \A t \in Service : object'[t] = IF t = s THEN Heard(found).value ELSE object[t]
    BY <2>1, Types DEF LifeTypeOK
  <2>7. Owned'
    <3>1. \A t \in Service : object'[t] \in Id => handles' = PipeEnd /\ object'[t] \in DOMAIN imes'
      BY <1>6, <1>9, <2>6, Types DEF Owned
    <3>2. \A t, u \in Service : object'[t] \in Id /\ object'[t] = object'[u] => t = u
      BY <1>6, <1>9, <2>6, Types DEF Owned
    <3>3. \A i \in 1..Len(output') : IsMade(i)' => \A t \in Service : object'[t] # output'[i].value
      BY <1>6, <1>9, <2>6
    <3> QED BY <1>6, <3>1, <3>2, <3>3 DEF Owned
  <2>8. ASSUME NEW t \in Service PROVE Sound(t)'
    <3>1. CASE t = s
      <4>1. /\ pc'[s] \in {"advised", "undo"} /\ handler'[s] = "live"
        BY <2>1, Types DEF LifeTypeOK
      <4>2. Sound(s) BY Types
      <4> QED BY <1>1, <3>1, <4>1, <4>2 DEF Sound
    <3>2. CASE t # s
      <4>1. /\ pc'[t] = pc[t] /\ handler'[t] = handler[t] /\ keySink'[t] = keySink[t]
            /\ refused'[t] = refused[t] /\ object'[t] = object[t]
        BY <2>1, <3>2, Types DEF LifeTypeOK
      <4> QED BY <1>1, <4>1, Types DEF Sound
    <3> QED BY <3>1, <3>2
  <2>9. ASSUME NEW t \in Service PROVE Iconic(t)'
    <3>1. CASE t = s BY <1>3, <3>1, Types DEF LifeTypeOK, Iconic
    <3>2. CASE t # s
      <4>1. object'[t] = object[t] /\ pc'[t] = pc[t] BY <1>4, <2>6, <3>2
      <4>2. object[t] \in Id => handles = PipeEnd /\ imes'[object[t]] = imes[object[t]]
        BY <1>6, Types DEF Owned
      <4> QED BY <1>1, <1>6, <4>1, <4>2, Types DEF Iconic
    <3> QED BY <3>1, <3>2
  <2> QED BY <1>5, <1>6, <1>7, <2>5, <2>7, <2>8, <2>9 DEF IInv, TypeOK
<1>10. CASE Heard(found).op # "make"
  <2>1. /\ refused' = [refused EXCEPT ![s] = @ \cup {"instance"}]
        /\ pc' = [pc EXCEPT ![s] = "undo"] /\ UNCHANGED <<object, handler, keySink>>
    BY <1>2, <1>10 DEF Goes
  <2>2. refused' \in [Service -> SUBSET Refusal] BY <2>1, Types DEF LifeTypeOK, Refusal
  <2>3. LifeTypeOK' BY <1>1, <2>1, <2>2, Types DEF LifeTypeOK
  <2>4. Owned' BY <1>6, <2>1, Types DEF Owned
  <2>5. ASSUME NEW t \in Service PROVE Sound(t)'
    <3>1. CASE t = s
      <4>1. pc'[s] = "undo" /\ refused'[s] = refused[s] \cup {"instance"}
        BY <2>1, Types DEF LifeTypeOK
      <4>2. Sound(s) BY Types
      <4> QED BY <1>1, <2>1, <3>1, <4>1, <4>2 DEF Sound, NotActivated
    <3>2. CASE t # s
      <4>1. pc'[t] = pc[t] /\ refused'[t] = refused[t] BY <2>1, <3>2, Types DEF LifeTypeOK
      <4> QED BY <1>1, <2>1, <4>1, Types DEF Sound
    <3> QED BY <3>1, <3>2
  <2>6. ASSUME NEW t \in Service PROVE Iconic(t)'
    <3>1. CASE t = s BY <1>3, <3>1, Types DEF LifeTypeOK, Iconic
    <3>2. CASE t # s
      <4>1. object[t] \in Id => handles = PipeEnd /\ imes'[object[t]] = imes[object[t]]
        BY <1>6, Types DEF Owned
      <4> QED BY <1>1, <1>4, <1>6, <2>1, <3>2, <4>1, Types DEF Iconic
    <3> QED BY <3>1, <3>2
  <2> QED BY <1>5, <1>6, <1>7, <2>3, <2>4, <2>5, <2>6 DEF IInv, TypeOK
<1> QED BY <1>9, <1>10

LEMMA NotCreatedStep == ASSUME IInv, NEW s \in Service, NotCreated(s) PROVE IInv'
<1>1. /\ pc[s] = "class" /\ host = "up"
      /\ refused' = [t \in Service |->
           IF pc[t] = "class" /\ pc'[t] = "undo" THEN refused[t] \cup {"instance"} ELSE refused[t]]
      /\ UNCHANGED <<handler, keySink, button, item, apartments, iconDue, icon, heard>>
  BY DEF NotCreated
<1>2. handles # PipeEnd BY DEF NotCreated, PipeFails, SpawnFails, Created
<1>3. \A t \in Service : object[t] \notin Id BY <1>2, Types DEF Owned
<1>4. refused' \in [Service -> SUBSET Refusal] BY <1>1, Types DEF LifeTypeOK, Refusal
<1>5. output = <<>> /\ noise = 0 /\ process = "none" /\ DOMAIN imes = {} /\ imeCount = 0
      /\ handles \in {{}, {"stdout_read", "stdout_write"}}
  BY <1>2, Types DEF HostSound
<1>6. CASE PipeFails /\ FactoryRelease /\ Goes(s, "undo") /\ UNCHANGED object
  <2>1. /\ pc' = [pc EXCEPT ![s] = "undo"] /\ object' = object /\ locks' = locks - 1
        /\ UNCHANGED <<host, process, imes, imeCount, output, noise>>
    BY <1>6 DEF Goes, FactoryRelease, PipeFails
  <2>2. \/ /\ faults' = faults \cup {"pipe"} /\ "pipe" \in ServerFaults
           /\ handles' \in {handles, handles \cup {"stdout_read", "stdout_write"}}
        \/ /\ faults' = faults \cup {"inherit"} /\ "inherit" \in ServerFaults
           /\ handles' \in {handles \cup {"stdout_read", "stdout_write"}, PipeEnd}
    BY <1>6 DEF PipeFails, Happens
  <2>3. \A t \in Service : /\ pc'[t] = "class" => t # s /\ pc[t] = "class"
                           /\ t # s => pc'[t] = pc[t]
    BY <2>1, Types DEF LifeTypeOK
  <2>4. locks > 0 /\ Locked' BY <1>1, <2>1, <2>3, HolderLeaves
  <2>5. faults \subseteq faults' /\ faults' \subseteq ServerFaults BY <2>2, Types DEF ServerTypeOK
  <2>6. handles' \in {{}, {"stdout_read", "stdout_write"}, PipeEnd} /\ handles' \subseteq PipeEnd
        /\ (handles' = PipeEnd => "inherit" \in faults')
    <3>1. {"stdout_read", "stdout_write"} # PipeEnd /\ {} # PipeEnd
          /\ {"stdout_read", "stdout_write"} \subseteq PipeEnd
      BY DEF PipeEnd
    <3>2. handles \cup {"stdout_read", "stdout_write"} = {"stdout_read", "stdout_write"} BY <1>5
    <3> QED BY <1>5, <2>2, <3>1, <3>2
  <2>7. ServerTypeOK'
    BY <2>1, <2>4, <2>5, <2>6, Types, ServerAssumption DEF ServerTypeOK
  <2>8. HostSound' BY <1>1, <1>5, <2>1, <2>5, <2>6, Types DEF HostSound
  <2>9. Owned' BY <1>3, <1>5, <2>1 DEF Owned
  <2>10. LifeTypeOK' BY <1>1, <1>4, <2>1, Types DEF LifeTypeOK
  <2>11. AnswersHeard' BY <1>1, <2>5, Types DEF AnswersHeard
  <2>12. ASSUME NEW t \in Service PROVE Sound(t)'
    <3>1. Sound(t) /\ refused[t] \subseteq refused'[t] /\ (t # s => pc'[t] = pc[t])
      BY <1>1, <2>3, Types
    <3>2. pc'[s] = "undo" /\ "instance" \in refused'[s] BY <1>1, <2>1, Types DEF LifeTypeOK
    <3> QED BY <1>1, <2>1, <3>1, <3>2 DEF Sound, NotActivated
  <2>13. \A t \in Service : Iconic(t)' BY <1>3, <2>1 DEF Iconic
  <2> QED BY <2>4, <2>7, <2>8, <2>9, <2>10, <2>11, <2>12, <2>13 DEF IInv, TypeOK
<1>7. CASE SpawnFails /\ HostLost
  <2>1. /\ host' \in {"gone", "hung"} /\ handles' = {} /\ process' = "none" /\ imes' = <<>>
        /\ imeCount' = 0 /\ output' = <<>> /\ noise' = 0 /\ locks' = 0
        /\ faults' = faults \cup {"spawn"} /\ "spawn" \in ServerFaults
    BY <1>7 DEF SpawnFails, CloseServerProcessHandles, HostWith, Happens
  <2>2. /\ object' = object
        /\ pc' = [t \in Service |-> IF pc[t] = "class" THEN "undo" ELSE pc[t]]
    BY <1>3, <1>7, Types DEF HostLost, LifeTypeOK
  <2>3. DOMAIN imes' = {} /\ Len(output') = 0 /\ output' \in Seq(Letter) BY <2>1
  <2>4. ServerTypeOK' BY <2>1, <2>3, Types, ServerAssumption DEF ServerTypeOK
  <2>5. HostSound' BY <2>1, <2>3 DEF HostSound, PipeEnd
  <2>6. Owned' BY <1>3, <2>2, <2>3 DEF Owned
  <2>7. LifeTypeOK' BY <1>1, <1>4, <2>2, Types DEF LifeTypeOK
  <2>8. Locked'
    <3>1. Holders' = {} BY <2>2 DEF Holders
    <3> QED BY <2>1, <3>1, FS_EmptySet DEF Locked
  <2>9. AnswersHeard' BY <1>1, <2>1, Types DEF AnswersHeard
  <2>10. ASSUME NEW t \in Service PROVE Sound(t)'
    <3>1. Sound(t) /\ refused[t] \subseteq refused'[t]
      BY <1>1, Types
    <3>2. /\ pc[t] = "class" => pc'[t] = "undo" /\ "instance" \in refused'[t]
          /\ pc[t] # "class" => pc'[t] = pc[t]
      BY <1>1, <2>2
    <3> QED BY <1>1, <2>2, <3>1, <3>2 DEF Sound, NotActivated
  <2>11. \A t \in Service : Iconic(t)' BY <1>3, <2>2 DEF Iconic
  <2> QED BY <2>4, <2>5, <2>6, <2>7, <2>8, <2>9, <2>10, <2>11 DEF IInv, TypeOK
<1> QED BY <1>6, <1>7 DEF NotCreated

LEMMA AddButtonStep == ASSUME IInv, NEW s \in Service, AddButton(s) PROVE IInv'
<1>1. /\ pc[s] = "advised"
      /\ UNCHANGED <<serverVars, handler, object, keySink, apartments, iconDue, icon, heard>>
  BY DEF AddButton
<1>2. \/ /\ pc' = [pc EXCEPT ![s] = "undo"] /\ UNCHANGED <<button, item>>
         /\ refused' = [refused EXCEPT ![s] = @ \cup {"button"}]
      \/ /\ button' = [button EXCEPT ![s] = TRUE] /\ pc' = [pc EXCEPT ![s] = "on"]
         /\ \/ item' = [item EXCEPT ![s] = "listed"] /\ refused' = refused
            \/ /\ item' = [item EXCEPT ![s] = IF item[s] = "none" THEN item[s] ELSE "left"]
               /\ refused' = [refused EXCEPT ![s] = @ \cup {"item"}]
  BY DEF AddButton, Goes, Refuse
<1>3. refused' \in [Service -> SUBSET Refusal]
  <2>1. refused \in [Service -> SUBSET Refusal] BY Types DEF LifeTypeOK
  <2>2. refused[s] \cup {"button"} \subseteq Refusal /\ refused[s] \cup {"item"} \subseteq Refusal
    BY <2>1 DEF Refusal
  <2> QED BY <1>2, <2>1, <2>2
<1>4. item' \in [Service -> {"none", "listed", "attached", "left"}]
  <2>1. item \in [Service -> {"none", "listed", "attached", "left"}] BY Types DEF LifeTypeOK
  <2> QED BY <1>2, <2>1
<1>5. LifeTypeOK' BY <1>1, <1>2, <1>3, <1>4, Types DEF LifeTypeOK
<1>6. ServerTypeOK' /\ HostSound' /\ Owned' BY <1>1, SameServer
<1>7. \A t \in Service : /\ t # s => pc'[t] = pc[t] /\ item'[t] = item[t]
                         /\ pc'[t] = "class" => pc[t] = "class"
                         /\ refused[t] \subseteq refused'[t]
  BY <1>2, Types DEF LifeTypeOK
<1>8. Locked' BY <1>1, <1>7, Types, LockedStays DEF serverVars, ServerTypeOK
<1>9. AnswersHeard' BY <1>1, Types DEF serverVars, AnswersHeard
<1>10. pc'[s] \in {"undo", "on"} /\ (pc'[s] = "on" => item'[s] # "attached")
  BY <1>2, Types DEF LifeTypeOK
<1>11. ASSUME NEW t \in Service PROVE Sound(t)'
  <2>1. Sound(t) BY Types
  <2>2. CASE t = s BY <1>1, <1>10, <2>1, <2>2 DEF Sound
  <2>3. CASE t # s BY <1>1, <1>7, <2>1, <2>3 DEF Sound
  <2> QED BY <2>2, <2>3
<1>12. ASSUME NEW t \in Service PROVE Iconic(t)'
  <2>1. CASE t = s BY <1>10, <2>1 DEF Iconic
  <2>2. CASE t # s BY <1>1, <1>7, <2>2, Types DEF serverVars, Iconic
  <2> QED BY <2>1, <2>2
<1> QED BY <1>5, <1>6, <1>8, <1>9, <1>11, <1>12 DEF IInv, TypeOK

-----------------------------------------------------------------------------
(* Deactivate.                                                             *)

LEMMA DeactivateStep == ASSUME IInv, NEW s \in Service, Deactivate(s) PROVE IInv'
<1>1. /\ pc[s] \in {"on", "undo"}
      /\ iconDue' = [iconDue EXCEPT ![s] = FALSE]
      /\ UNCHANGED <<serverVars, object, apartments, icon, heard>>
  BY DEF Deactivate
<1>2. PICK calls \in SUBSET (Refusals \cap {"bar_query", "key_query"}) :
        /\ refused' = [refused EXCEPT ![s] = @ \cup calls]
        /\ IF "bar_query" \in calls THEN UNCHANGED <<button, item>> ELSE RemoveItem(s)
        /\ UnadviseKeys(s, "key_query" \notin calls)
  BY DEF Deactivate
<1> DEFINE to == IF handler[s] = "deleted" THEN "deleted_twice"
                 ELSE IF object[s] # 0 THEN "close" ELSE "off"
           gone == IF handler[s] = "null" THEN "null" ELSE "deleted"
<1>3. pc' = [pc EXCEPT ![s] = to] /\ handler' = [handler EXCEPT ![s] = gone]
  BY Types DEF Deactivate, Goes, DeleteHandler, LifeTypeOK
<1>4. keySink' = [keySink EXCEPT ![s] = keySink[s] /\ "key_query" \in calls]
  BY <1>2 DEF UnadviseKeys
<1>5. \/ "bar_query" \in calls /\ button' = button /\ item' = item
      \/ button' = [button EXCEPT ![s] = FALSE] /\ item' = [item EXCEPT ![s] = "none"]
  BY <1>2 DEF RemoveItem
<1>6. refused' \in [Service -> SUBSET Refusal]
  <2>1. refused \in [Service -> SUBSET Refusal] BY Types DEF LifeTypeOK
  <2>2. refused[s] \cup calls \subseteq Refusal BY <2>1 DEF Refusal
  <2> QED BY <1>2, <2>1, <2>2
<1>7. keySink' \in [Service -> BOOLEAN] BY <1>4, Types DEF LifeTypeOK
<1>8. to \in {"off", "close"} \cup Crash /\ gone \in {"null", "deleted"} BY DEF Crash
<1>9. /\ pc' \in [Service -> {"off", "class", "advised", "on", "undo", "close"} \cup Crash]
      /\ handler' \in [Service -> {"null", "live", "deleted"}]
  BY <1>3, <1>8, Types DEF LifeTypeOK
<1>10. /\ button' \in [Service -> BOOLEAN] /\ iconDue' \in [Service -> BOOLEAN]
       /\ item' \in [Service -> {"none", "listed", "attached", "left"}]
  BY <1>1, <1>5, Types DEF LifeTypeOK
<1>11. LifeTypeOK' BY <1>1, <1>6, <1>7, <1>9, <1>10, Types DEF LifeTypeOK
<1>12. ServerTypeOK' /\ HostSound' /\ Owned' BY <1>1, SameServer
<1>13. pc'[s] = to /\ handler'[s] = gone /\ \A t \in Service : t # s => pc'[t] = pc[t]
  BY <1>3, Types DEF LifeTypeOK
<1>14. \A t \in Service : pc'[t] = "class" => pc[t] = "class" BY <1>13
<1>15. Locked' BY <1>1, <1>14, Types, LockedStays DEF serverVars, ServerTypeOK
<1>16. AnswersHeard' BY <1>1, Types DEF serverVars, AnswersHeard
<1>17. Sound(s)'
  <2>1. Sound(s) /\ handler[s] \in {"null", "live", "deleted"} BY Types DEF LifeTypeOK
  <2>2. keySink'[s] => keySink[s] /\ "key_query" \in refused'[s]
    BY <1>2, <1>4, Types DEF LifeTypeOK
  <2>3. item'[s] # "none" => item[s] # "none" /\ "bar_query" \in refused'[s]
    BY <1>2, <1>5, Types DEF LifeTypeOK
  <2>4. refused[s] \subseteq refused'[s] BY <1>2, Types DEF LifeTypeOK
  <2>5. handler[s] = "deleted" => refused[s] \cap NotActivated # {} BY <1>1, <2>1 DEF Sound
  <2> QED BY <1>1, <1>13, <2>1, <2>2, <2>3, <2>4, <2>5 DEF Sound
<1>18. ASSUME NEW t \in Service, t # s PROVE Sound(t)'
  <2>1. /\ keySink'[t] = keySink[t] /\ item'[t] = item[t] /\ refused'[t] = refused[t]
        /\ handler'[t] = handler[t]
    BY <1>2, <1>3, <1>4, <1>5, <1>18, Types DEF LifeTypeOK
  <2> QED BY <1>1, <1>13, <1>18, <2>1, Types DEF Sound
<1>19. ASSUME NEW t \in Service PROVE Iconic(t)'
  <2>1. CASE t = s BY <1>13, <2>1 DEF Iconic
  <2>2. CASE t # s
    <3>1. item'[t] = item[t] /\ iconDue'[t] = iconDue[t] BY <1>1, <1>5, <2>2, Types DEF LifeTypeOK
    <3> QED BY <1>1, <1>13, <2>2, <3>1, Types DEF serverVars, Iconic
  <2> QED BY <2>1, <2>2
<1> QED BY <1>11, <1>12, <1>15, <1>16, <1>17, <1>18, <1>19 DEF IInv, TypeOK

LEMMA CloseObjectStep == ASSUME IInv, NEW s \in Service, CloseObject(s) PROVE IInv'
<1>1. /\ pc[s] = "close" /\ object' = [object EXCEPT ![s] = 0] /\ pc' = [pc EXCEPT ![s] = "off"]
      /\ apartments' = [apartments EXCEPT ![s] = apartments[s] - 1]
      /\ UNCHANGED <<handler, keySink, button, item, iconDue, icon, heard, refused>>
  BY DEF CloseObject, Uninitialize, Goes
<1>2. Sound(s) /\ object[s] # 0 /\ apartments[s] > 0 BY <1>1, Types DEF Sound
<1>3. 0 \notin Id /\ 0 \in 0..Lost /\ Lost \notin Id
  BY ServerAssumption DEF Id, Lost
<1>4. \A t \in Service : object'[t] = IF t = s THEN 0 ELSE object[t]
  BY <1>1, Types DEF LifeTypeOK
<1>5. LifeTypeOK'
  <2>1. apartments \in [Service -> 0..MaxApartments] BY Types DEF LifeTypeOK
  <2>2. apartments[s] - 1 \in 0..MaxApartments BY <1>2, <2>1, LifeAssumption
  <2>3. apartments' \in [Service -> 0..MaxApartments] BY <1>1, <2>1, <2>2
  <2>4. object' \in [Service -> 0..Lost] BY <1>1, <1>3, Types DEF LifeTypeOK
  <2> QED BY <1>1, <2>3, <2>4, Types DEF LifeTypeOK
<1>6. \A t \in Service : Sound(t)'
  <2> TAKE t \in Service
  <2>1. CASE t = s
    <3>1. pc'[s] = "off" /\ object'[s] = 0 BY <1>1, <1>4, Types DEF LifeTypeOK
    <3> QED BY <1>1, <1>2, <2>1, <3>1 DEF Sound
  <2>2. CASE t # s
    <3>1. pc'[t] = pc[t] /\ object'[t] = object[t] /\ apartments'[t] = apartments[t]
      BY <1>1, <2>2, Types DEF LifeTypeOK
    <3> QED BY <1>1, <3>1, Types DEF Sound
  <2> QED BY <2>1, <2>2
<1>7. \A t \in Service : pc'[t] = "class" => pc[t] = "class" BY <1>1, Types DEF LifeTypeOK
<1>8. CASE object[s] = Lost /\ UNCHANGED serverVars
  <2>1. ServerTypeOK' /\ HostSound' BY <1>8, SameServer
  <2>2. Owned' BY <1>3, <1>4, <1>8, Types, ServerAssumption DEF serverVars, Owned, IsMade, Id
  <2>3. Locked' BY <1>7, <1>8, Types, LockedStays DEF serverVars, ServerTypeOK
  <2>4. AnswersHeard' BY <1>1, <1>8, Types DEF serverVars, AnswersHeard
  <2>5. \A t \in Service : Iconic(t)'
    BY <1>1, <1>3, <1>4, <1>8, Types DEF serverVars, LifeTypeOK, Iconic
  <2> QED BY <1>5, <1>6, <2>1, <2>2, <2>3, <2>4, <2>5 DEF IInv, TypeOK
<1>9. CASE object[s] \in Id /\ CloseRequest(s, object[s])
  <2>1. PICK found \in Found(Current, Line(s, "close", 0)) : HandleRequest(found, CloseIme(object[s]))
    BY <1>9 DEF CloseRequest
  <2>2. handles = PipeEnd BY <1>9, Types DEF Owned
  <2> DEFINE given == Line(s, "close", 0)
  <2>3. given \in Letter /\ given.op # "make" BY LineTypes
  <2>4. /\ HandleRequest(found, TRUE) /\ imeCount' = imeCount
        /\ imes' = imes \/ imes' = [i \in DOMAIN imes \ {object[s]} |-> imes[i]]
    BY <2>1 DEF HandleRequest, Exchange, CloseIme
  <2>5. /\ DOMAIN imes' \subseteq DOMAIN imes
        /\ \A id \in DOMAIN imes : id # object[s] => id \in DOMAIN imes' /\ imes'[id] = imes[id]
        /\ \A id \in DOMAIN imes' : imes'[id] \in Mode
    BY <2>4, Types
  <2> HIDE DEF given
  <2>6. found \in Found(Current, given) BY DEF given
  <2>7. /\ ServerTypeOK' /\ HostSound'
        /\ UNCHANGED <<host, handles, process, locks>> /\ faults \subseteq faults'
        /\ \E k \in Nat : \A i \in 1..Len(output') : output'[i].op = "make" =>
             i + k \in 1..Len(output) /\ output'[i] = output[i + k]
    BY <2>2, <2>3, <2>4, <2>5, <2>6, Types, Requested
  <2>8. Owned'
    <3>1. \A i \in 1..Len(output) : IsMade(i) => output[i].value \in DOMAIN imes'
      BY <2>5, Types DEF Owned
    <3>2. \A t \in Service : object'[t] \in Id => object[t] \in DOMAIN imes'
      BY <1>3, <1>4, <2>5, Types DEF Owned
    <3>3. DOMAIN imes' \subseteq Id /\ output' \in Seq(Letter) BY <2>5, <2>7, Types DEF HostSound
    <3>4. /\ \A t \in Service : object'[t] \in Id => object'[t] = object[t]
          /\ \A t \in Service : object'[t] = object[t] \/ object'[t] = 0 \/ object'[t] = Lost
      BY <1>3, <1>4
    <3> QED BY <2>7, <3>1, <3>2, <3>3, <3>4, Types, OwnedStays
  <2>9. Locked' BY <1>7, <2>7, Types, LockedStays DEF ServerTypeOK
  <2>10. AnswersHeard' BY <1>1, <2>7, Types DEF AnswersHeard
  <2>11. ASSUME NEW t \in Service PROVE Iconic(t)'
    <3>1. object'[t] \in Id => t # s /\ object'[t] = object[t] BY <1>3, <1>4
    <3>2. object[t] \in Id /\ t # s => imes'[object[t]] = imes[object[t]]
      BY <2>5, Types DEF Owned
    <3>3. t # s => pc'[t] = pc[t] BY <1>1, Types DEF LifeTypeOK
    <3> QED BY <1>1, <2>7, <3>1, <3>2, <3>3, Types DEF Iconic
  <2> QED BY <1>5, <1>6, <2>7, <2>8, <2>9, <2>10, <2>11 DEF IInv, TypeOK
<1> QED BY <1>8, <1>9 DEF CloseObject

-----------------------------------------------------------------------------
(* The host and the server process.                                        *)

\* Nothing of the services changes.
LEMMA SameLives ==
  ASSUME IInv, UNCHANGED lifeVars, locks' = locks
  PROVE  /\ LifeTypeOK' /\ Locked' /\ \A s \in Service : Sound(s)'
         /\ (faults \subseteq faults' => AnswersHeard')
<1>1. LifeTypeOK' BY Types DEF lifeVars, LifeTypeOK
<1>2. Locked' BY Types, LockedStays DEF lifeVars, ServerTypeOK
<1>3. \A s \in Service : Sound(s)' BY Types DEF lifeVars, Sound
<1>4. faults \subseteq faults' => AnswersHeard' BY Types DEF lifeVars, AnswersHeard
<1> QED BY <1>1, <1>2, <1>3, <1>4

LEMMA CallHangsStep == ASSUME IInv, NEW s \in Service, CallHangs(s) PROVE IInv'
<1>1. /\ UNCHANGED lifeVars /\ host' = "hung" /\ process # "running"
      /\ UNCHANGED <<handles, process, imes, imeCount, output, noise, locks, faults>>
  BY DEF CallHangs, Hang
<1>2. handles = PipeEnd BY Types DEF CallHangs, Created, Owned
<1>3. faults \cap {"inherit", "death"} # {} BY <1>1, <1>2, Types DEF HostSound
<1>4. ServerTypeOK' BY <1>1, Types DEF ServerTypeOK
<1>5. HostSound' BY <1>1, <1>3, Types DEF HostSound
<1>6. Owned' BY <1>1, Types DEF lifeVars, Owned, IsMade
<1>7. \A t \in Service : Iconic(t)' BY <1>1 DEF Iconic
<1> QED BY <1>1, <1>4, <1>5, <1>6, <1>7, SameLives DEF IInv, TypeOK

LEMMA ExitsStep == ASSUME IInv, Exits PROVE IInv'
<1>1. /\ \A s \in Service : pc[s] # "class" /\ object[s] \notin Id
      /\ UNCHANGED lifeVars /\ faults' = faults
      /\ host' = "gone" /\ handles' = {} /\ process' = "none" /\ imes' = <<>> /\ imeCount' = 0
      /\ output' = <<>> /\ noise' = 0 /\ locks' = 0
  BY DEF Exits, HostExits, HostWith
<1>2. DOMAIN imes' = {} /\ Len(output') = 0 /\ output' \in Seq(Letter) BY <1>1
<1>3. ServerTypeOK' BY <1>1, <1>2, Types, ServerAssumption DEF ServerTypeOK
<1>4. HostSound' BY <1>1, <1>2 DEF HostSound, PipeEnd
<1>5. Owned' BY <1>1, <1>2 DEF lifeVars, Owned
<1>6. Locked'
  <2>1. Holders' = {} BY <1>1 DEF lifeVars, Holders
  <2> QED BY <1>1, <2>1, FS_EmptySet DEF Locked
<1>7. LifeTypeOK' /\ \A s \in Service : Sound(s)' /\ Iconic(s)'
  BY <1>1, Types DEF lifeVars, LifeTypeOK, Sound, Iconic
<1>8. AnswersHeard' BY <1>1, Types DEF lifeVars, AnswersHeard
<1> QED BY <1>3, <1>4, <1>5, <1>6, <1>7, <1>8 DEF IInv, TypeOK

LEMMA DiesStep == ASSUME IInv, Dies PROVE IInv'
<1>1. /\ UNCHANGED lifeVars /\ process = "running" /\ process' = "ended"
      /\ faults' = faults \cup {"death"} /\ "death" \in ServerFaults
      /\ UNCHANGED <<host, handles, imes, imeCount, output, noise, locks>>
  BY DEF Dies, ServerEnds, Happens
<1>2. ServerTypeOK' BY <1>1, Types DEF ServerTypeOK
<1>3. HostSound' BY <1>1, Types DEF HostSound
<1>4. Owned' BY <1>1, Types DEF lifeVars, Owned, IsMade
<1>5. \A t \in Service : Iconic(t)' BY <1>1 DEF Iconic
<1> QED BY <1>1, <1>2, <1>3, <1>4, <1>5, SameLives DEF IInv, TypeOK

LEMMA NextGood == ASSUME IInv, [Next]_vars PROVE IInv'
<1>1. CASE UNCHANGED vars
  <2>1. ServerTypeOK' /\ HostSound' /\ Owned'
    BY <1>1, SameServer DEF vars, lifeVars
  <2>2. \A t \in Service : Iconic(t)' BY <1>1, Types DEF vars, serverVars, lifeVars, Iconic
  <2> QED BY <1>1, <2>1, <2>2, SameLives DEF vars, serverVars, IInv, TypeOK
<1>2. CASE Next
  <2>1. ASSUME NEW s \in Service, ActivateBegin(s) PROVE IInv' BY <2>1, ActivateBeginStep
  <2>2. ASSUME NEW s \in Service, Create(s) PROVE IInv' BY <2>2, CreateStep
  <2>3. ASSUME NEW s \in Service, NotCreated(s) PROVE IInv' BY <2>3, NotCreatedStep
  <2>4. ASSUME NEW s \in Service, AddButton(s) PROVE IInv' BY <2>4, AddButtonStep
  <2>5. ASSUME NEW s \in Service, Deactivate(s) PROVE IInv' BY <2>5, DeactivateStep
  <2>6. ASSUME NEW s \in Service, CloseObject(s) PROVE IInv' BY <2>6, CloseObjectStep
  <2>7. ASSUME NEW s \in Service, Key(s) PROVE IInv' BY <2>7, KeyStep
  <2>8. ASSUME NEW s \in Service, Toggle(s) PROVE IInv' BY <2>8, ToggleStep
  <2>9. ASSUME NEW s \in Service, AdviseItem(s) PROVE IInv' BY <2>9, AdviseItemStep
  <2>10. ASSUME NEW s \in Service, GetIcon(s) PROVE IInv' BY <2>10, GetIconStep
  <2>11. ASSUME NEW s \in Service, CallHangs(s) PROVE IInv' BY <2>11, CallHangsStep
  <2>12. CASE Exits BY <2>12, ExitsStep
  <2>13. CASE Dies BY <2>13, DiesStep
  <2> QED BY <1>2, <2>1, <2>2, <2>3, <2>4, <2>5, <2>6, <2>7, <2>8, <2>9, <2>10, <2>11, <2>12,
             <2>13 DEF Next
<1> QED BY <1>1, <1>2

LEMMA Invariance == Spec => []IInv
<1>1. IInv /\ [Next]_vars => IInv' BY NextGood
<1> QED BY <1>1, InitGood, PTL DEF Spec

-----------------------------------------------------------------------------
(* Theorems.                                                               *)

\* However services are activated and deactivated, refused, and left by the
\* host, each variable has a value of its type: no lock and no apartment is
\* given back that was not taken (text_service.cpp, dllmain.cpp).
THEOREM TypeCorrect == Spec => []TypeOK
<1>1. IInv => TypeOK BY DEF IInv
<1> QED BY <1>1, Invariance, PTL

\* A key, or a click on the bar, never finds a service that has had no handler
\* and no input method yet: the assertions of text_service.cpp hold.
THEOREM HandlerWasThere == Spec => []AssertionsHold
<1>1. IInv => AssertionsHold BY DEF IInv, Sound, AssertionsHold
<1> QED BY <1>1, Invariance, PTL

\* A double deletion, a use after deletion and a hung host have no causes but
\* the refusals and faults named, however many there are (Deactivate in
\* text_service.cpp; EnsureServerProcessCreated and SendString in dllmain.cpp).
THEOREM OnlyTheseCauses == Spec => []FailuresHaveCauses
<1>1. IInv => FailuresHaveCauses
  BY DEF IInv, Sound, NotActivated, HostSound, FailuresHaveCauses
<1> QED BY <1>1, Invariance, PTL

\* Whichever answers were delayed, and whichever services came and went, two
\* connections never share an input method, and none has one that the server
\* does not know; a service that is about to be given one keeps the module
\* loaded (handle-request in win-server-stdio.lisp, CreateInstance in dllmain.cpp).
THEOREM EachItsOwn == Spec => []ObjectsOwnImes
<1>1. ASSUME IInv PROVE ObjectsOwnImes
  <2> SUFFICES ASSUME NEW s \in Service
               PROVE  /\ object[s] \in Id =>
                           /\ object[s] \in DOMAIN imes
                           /\ \A t \in Service \ {s} : object[t] # object[s]
                      /\ pc[s] = "class" => ~DllCanUnloadNow
    BY DEF ObjectsOwnImes
  <2>1. Owned /\ Locked BY <1>1 DEF IInv
  <2>2. ASSUME pc[s] = "class" PROVE locks # 0
    <3>1. s \in Holders BY <2>2 DEF Holders
    <3>2. Cardinality(Holders) # 0 BY <2>1, <3>1, FS_EmptySet DEF Locked
    <3>3. Cardinality(Holders) \in Nat BY <2>1, FS_CardinalityType DEF Locked
    <3> QED BY <2>1, <3>2, <3>3 DEF Locked
  <2> QED BY <2>1, <2>2 DEF Owned, DllCanUnloadNow
<1> QED BY <1>1, Invariance, PTL

\* An answer that is another's was caused by a message printed between the
\* answers, however long the server has been asked (SendString in dllmain.cpp).
THEOREM WrongAnswersAreNoise == Spec => []AnswersFit
<1>1. IInv => AnswersFit BY DEF IInv, AnswersHeard, HostSound, AnswersFit
<1> QED BY <1>1, Invariance, PTL

\* The icon shows the mode of its own input method, whatever the modes of
\* others are, once the bar has asked for it (ToggleInputMode and GetIcon in
\* text_service.cpp, toggle-input-mode of the server).
THEOREM IconFollowsMode == Spec => []IconShowsMode
<1>1. IInv => IconShowsMode BY DEF IInv, Iconic, IconShowsMode
<1> QED BY <1>1, Invariance, PTL

(***************************************************************************)
(* The DLL in its application.                                             *)
(***************************************************************************)

-----------------------------------------------------------------------------
(* Lists of steps.                                                         *)

\* The steps of a list after the first p.
After(list, p) == SubSeq(list, p + 1, Len(list))

LEMMA AfterStep ==
  ASSUME NEW S, NEW list \in Seq(S), NEW p \in 0..Len(list), After(list, p) # <<>>
  PROVE  /\ p < Len(list) /\ p + 1 \in 1..Len(list)
         /\ Head(After(list, p)) = list[p + 1]
         /\ Tail(After(list, p)) = After(list, p + 1)
<1>1. Len(list) \in Nat BY LenProperties
<1>2. p + 1 \in 1..(Len(list) + 1) /\ Len(list) \in 0..Len(list) BY <1>1
<1>3. p < Len(list)
  <2>1. SUFFICES ASSUME p = Len(list) PROVE FALSE BY <1>1
  <2>2. Len(list) < p + 1 BY <1>1, <2>1
  <2>3. After(list, p) = <<>> BY <1>1, <1>2, <2>2, SubSeqEmpty DEF After
  <2> QED BY <2>3
<1>4. p + 1 \in 1..Len(list) /\ Len(list) \in (p + 1)..Len(list) BY <1>1, <1>3
<1>5. Head(After(list, p)) = list[p + 1] /\ Tail(After(list, p)) = SubSeq(list, p + 1 + 1, Len(list))
  BY <1>4, HeadTailOfSubSeq DEF After
<1> QED BY <1>3, <1>4, <1>5 DEF After

LEMMA AfterAll ==
  ASSUME NEW S, NEW list \in Seq(S)
  PROVE  After(list, 0) = list /\ Len(list) \in Nat
<1>1. SubSeq(list, 1, Len(list)) = list BY SubSeqFull
<1> QED BY <1>1, LenProperties DEF After

LEMMA AfterEnd ==
  ASSUME NEW S, NEW list \in Seq(S), NEW p \in 0..Len(list)
  PROVE  /\ After(list, p) = <<>> <=> p = Len(list)
         /\ After(list, Len(list)) = <<>>
<1>1. Len(list) \in Nat BY LenProperties
<1>2. After(list, p) \in Seq(S) /\ Len(After(list, p)) = Len(list) - p
      /\ Len(After(list, Len(list))) = 0 /\ After(list, Len(list)) \in Seq(S)
  BY <1>1 DEF After
<1> QED BY <1>1, <1>2, EmptySeq

\* A list that consists of two others; the operator hides a concatenation
\* from the reasoning about positions.
Joins(S, all, s, t) ==
  /\ all \in Seq(S) /\ Len(all) = Len(s) + Len(t)
  /\ \A i \in 1..(Len(s) + Len(t)) : all[i] = IF i <= Len(s) THEN s[i] ELSE t[i - Len(s)]

LEMMA ConcatJoins ==
  ASSUME NEW S, NEW s \in Seq(S), NEW t \in Seq(S)
  PROVE  Joins(S, s \o t, s, t)
BY ConcatProperties, Zenon DEF Joins

LEMMA Joined ==
  ASSUME NEW S, NEW all, NEW s, NEW t, Joins(S, all, s, t),
         NEW m \in Nat, NEW n \in Nat, Len(s) = m, Len(t) = n
  PROVE  /\ all \in Seq(S) /\ Len(all) = m + n
         /\ \A i \in 1..m : all[i] = s[i]
         /\ \A i \in 1..n : all[m + i] = t[i]
<1>1. /\ all \in Seq(S) /\ Len(all) = m + n
      /\ \A i \in 1..(m + n) : all[i] = IF i <= m THEN s[i] ELSE t[i - m]
  BY DEF Joins
<1>2. ASSUME NEW i \in 1..m PROVE all[i] = s[i]
  <2>1. i \in 1..(m + n) /\ i <= m OBVIOUS
  <2> QED BY <1>1, <2>1
<1>3. ASSUME NEW i \in 1..n PROVE all[m + i] = t[i]
  <2>1. m + i \in 1..(m + n) /\ ~(m + i <= m) /\ m + i - m = i OBVIOUS
  <2> QED BY <1>1, <2>1
<1> QED BY <1>1, <1>2, <1>3

LEMMA FiveInSeq ==
  ASSUME NEW S, NEW a \in S, NEW b \in S, NEW c \in S, NEW d \in S, NEW e \in S
  PROVE  LET list == <<a, b, c, d, e>>
         IN  /\ list \in Seq(S) /\ Len(list) = 5
             /\ list[1] = a /\ list[2] = b /\ list[3] = c /\ list[4] = d /\ list[5] = e
OBVIOUS

LEMMA ThreeInSeq ==
  ASSUME NEW S, NEW a \in S, NEW b \in S, NEW c \in S
  PROVE  LET list == <<a, b, c>>
         IN  list \in Seq(S) /\ Len(list) = 3 /\ list[1] = a /\ list[2] = b /\ list[3] = c
OBVIOUS

LEMMA TwoInSeq ==
  ASSUME NEW S, NEW a \in S, NEW b \in S
  PROVE  LET list == <<a, b>>
         IN  list \in Seq(S) /\ Len(list) = 2 /\ list[1] = a /\ list[2] = b
OBVIOUS

\* The names of entries that are not categories.
TipNames == {"clsid", "description", "inproc", "path", "model", "service", "language"}

ServerNames ==
  {"server clsid", "server name", "server app", "server inproc", "server path", "server model",
   "app", "surrogate"}

Name == CategoryNames \cup TipNames \cup ServerNames

Count == Len(Categories)

LEMMA CategoriesApart ==
  /\ Count \in Nat /\ Categories \in Seq(Name)
  /\ \A i \in 1..Count : /\ Categories[i] \in CategoryNames
                          /\ With(Categories[i]) = {Categories[i]}
  /\ \A i, j \in 1..Count : Categories[i] = Categories[j] => i = j
  /\ CategoryNames \cap TipNames = {} /\ CategoryNames \cap ServerNames = {}
<1>1. Count \in Nat /\ Categories \in Seq(Name)
  <2>1. Count \in Nat /\ Categories \in Seq(STRING) BY RegistrationAssumption, LenProperties DEF Count
  <2>2. \A i \in 1..Count : Categories[i] \in Name BY DEF Count, CategoryNames, Name
  <2>3. Categories = [i \in 1..Count |-> Categories[i]] BY <2>1, LenProperties DEF Count
  <2>4. [i \in 1..Count |-> Categories[i]] \in Seq(Name) BY <2>1, <2>2, IsASeq
  <2> QED BY <2>1, <2>3, <2>4
<1>2. ASSUME NEW c \in CategoryNames PROVE c \notin TipNames /\ c \notin ServerNames
  <2>1. PICK i \in 1..Len(Categories) : c = Categories[i] BY <1>2 DEF CategoryNames
  <2> QED BY <2>1, RegistrationAssumption DEF TipNames, ServerNames
<1>3. ASSUME NEW i \in 1..Count
      PROVE  Categories[i] \in CategoryNames /\ With(Categories[i]) = {Categories[i]}
  <2>1. Categories[i] \in CategoryNames BY <1>3 DEF CategoryNames, Count
  <2>2. Categories[i] \notin TipNames /\ Categories[i] \notin ServerNames BY <2>1, <1>2
  <2> QED BY <2>1, <2>2 DEF With, TipNames, ServerNames
<1> QED BY <1>1, <1>2, <1>3, RegistrationAssumption DEF Count

LEMMA NamesApart == TipNames \subseteq Name /\ ServerNames \subseteq Name /\ CategoryNames \subseteq Name
BY DEF Name

LEMMA TipWrites ==
  /\ Writes("tip") \in Seq(Name) /\ Len(Writes("tip")) = 7 + Count
  /\ Writes("tip")[1] = "clsid" /\ Writes("tip")[2] = "description" /\ Writes("tip")[3] = "inproc"
  /\ Writes("tip")[4] = "path" /\ Writes("tip")[5] = "model" /\ Writes("tip")[6] = "service"
  /\ Writes("tip")[7] = "language"
  /\ \A i \in 1..Count : Writes("tip")[7 + i] = Categories[i]
<1>1. /\ "clsid" \in Name /\ "description" \in Name /\ "inproc" \in Name /\ "path" \in Name
      /\ "model" \in Name /\ "service" \in Name /\ "language" \in Name
  BY NamesApart DEF TipNames
<1>2. /\ ComEntries \in Seq(Name) /\ Len(ComEntries) = 5
      /\ ComEntries[1] = "clsid" /\ ComEntries[2] = "description" /\ ComEntries[3] = "inproc"
      /\ ComEntries[4] = "path" /\ ComEntries[5] = "model"
  BY <1>1, FiveInSeq DEF ComEntries
<1>3. /\ ProfileEntries \in Seq(Name) /\ Len(ProfileEntries) = 2
      /\ ProfileEntries[1] = "service" /\ ProfileEntries[2] = "language"
  BY <1>1, TwoInSeq DEF ProfileEntries
<1> DEFINE first == ComEntries \o ProfileEntries
           all == Writes("tip")
<1>4. Joins(Name, first, ComEntries, ProfileEntries) BY <1>2, <1>3, ConcatJoins
<1>5. Categories \in Seq(Name) /\ Count \in Nat /\ Len(Categories) = Count
  BY CategoriesApart DEF Count
<1>6. Joins(Name, all, first, Categories)
  <2>1. first \in Seq(Name) BY <1>4 DEF Joins
  <2>2. all = first \o Categories BY DEF Writes
  <2> HIDE DEF first, all
  <2> QED BY <2>1, <2>2, <1>5, ConcatJoins
<1> HIDE DEF first, all
<1>7. /\ first \in Seq(Name) /\ Len(first) = 5 + 2
      /\ \A i \in 1..5 : first[i] = ComEntries[i]
      /\ \A i \in 1..2 : first[5 + i] = ProfileEntries[i]
  <2>1. Len(ComEntries) = 5 /\ Len(ProfileEntries) = 2 BY <1>2, <1>3, Zenon
  <2>2. /\ first \in Seq(Name) /\ Len(first) = 7
        /\ \A i \in 1..7 : first[i] = IF i <= 5 THEN ComEntries[i] ELSE ProfileEntries[i - 5]
    BY <2>1, <1>4 DEF Joins
  <2>3. 5 + 2 = 7 OBVIOUS
  <2> QED BY <2>2, <2>3
<1>8. /\ all \in Seq(Name) /\ Len(all) = 7 + Count
      /\ \A i \in 1..7 : all[i] = first[i]
      /\ \A i \in 1..Count : all[7 + i] = Categories[i]
  <2>1. Len(first) = 7 BY <1>7
  <2>2. PICK seven \in Nat : seven = 7 OBVIOUS
  <2>3. Len(first) = seven BY <2>1, <2>2
  <2>4. /\ all \in Seq(Name) /\ Len(all) = seven + Count
        /\ \A i \in 1..seven : all[i] = first[i]
        /\ \A i \in 1..Count : all[seven + i] = Categories[i]
    BY <2>3, <1>5, <1>6, Joined
  <2> QED BY <2>2, <2>4
<1>9. first[6] = "service" /\ first[7] = "language"
  <2>1. first[5 + 1] = ProfileEntries[1] /\ first[5 + 2] = ProfileEntries[2] BY <1>7
  <2> QED BY <2>1, <1>3
<1> QED BY <1>2, <1>7, <1>8, <1>9 DEF all

LEMMA TipRemovals ==
  /\ Removals("tip") \in Seq(Name) /\ Len(Removals("tip")) = Count + 3
  /\ \A i \in 1..Count : Removals("tip")[i] = Categories[i]
  /\ Removals("tip")[Count + 1] = "service" /\ Removals("tip")[Count + 2] = "inproc"
  /\ Removals("tip")[Count + 3] = "clsid"
  /\ After(Removals("tip"), Count) = AfterCategories
<1> DEFINE last == AfterCategories
           all == Removals("tip")
<1>1. /\ last \in Seq(Name) /\ Len(last) = 3
      /\ last[1] = "service" /\ last[2] = "inproc" /\ last[3] = "clsid"
  <2>1. "service" \in Name /\ "inproc" \in Name /\ "clsid" \in Name BY NamesApart DEF TipNames
  <2> QED BY <2>1, ThreeInSeq DEF AfterCategories
<1>2. Categories \in Seq(Name) /\ Count \in Nat /\ Len(Categories) = Count
  BY CategoriesApart DEF Count
<1>3. Joins(Name, all, Categories, last)
  <2>1. all = Categories \o last BY DEF Removals
  <2> HIDE DEF last, all
  <2> QED BY <1>1, <1>2, <2>1, ConcatJoins
<1> HIDE DEF last, all
<1>4. /\ all \in Seq(Name) /\ Len(all) = Count + 3
      /\ \A i \in 1..Count : all[i] = Categories[i]
      /\ \A i \in 1..3 : all[Count + i] = last[i]
  <2>1. PICK three \in Nat : three = 3 OBVIOUS
  <2>2. Len(last) = three BY <1>1, <2>1
  <2>3. /\ all \in Seq(Name) /\ Len(all) = Count + three
        /\ \A i \in 1..Count : all[i] = Categories[i]
        /\ \A i \in 1..three : all[Count + i] = last[i]
    BY <2>2, <1>2, <1>3, Joined
  <2> QED BY <2>1, <2>3
<1>5. After(all, Count) = last
  <2>1. \A i \in (Count + 1)..(Count + 3) : all[i] \in Name
    <3> TAKE i \in (Count + 1)..(Count + 3)
    <3>1. i \in 1..Len(all) BY <1>2, <1>4
    <3> QED BY <3>1, <1>4, ElementOfSeq
  <2>2. Count + 1 \in Int /\ Count + 3 \in Int /\ Count + 3 - (Count + 1) + 1 = 3
        /\ Count + 1 <= Count + 3 /\ \A i \in 1..3 : Count + 1 + i - 1 = Count + i
    BY <1>2
  <2> DEFINE rest == SubSeq(all, Count + 1, Count + 3)
  <2>3. /\ rest \in Seq(Name) /\ Len(rest) = 3 /\ \A i \in 1..3 : rest[i] = all[Count + i]
    BY <2>1, <2>2, SubSeqProperties
  <2>4. After(all, Count) = rest BY <1>4 DEF After
  <2> HIDE DEF rest
  <2> QED BY <2>3, <2>4, <1>1, <1>4, SeqEqual
<1>6. all[Count + 1] = last[1] /\ all[Count + 2] = last[2] /\ all[Count + 3] = last[3] BY <1>4
<1> QED BY <1>1, <1>4, <1>5, <1>6 DEF last, all

\* Keys and values of the server, by position.
LEMMA ServerWrites ==
  /\ ServerEntries \in Seq([key : Name, value : Name]) /\ Len(ServerEntries) = 5
  /\ ServerEntries[1].key = "server clsid" /\ ServerEntries[1].value = "server name"
  /\ ServerEntries[2].key = "server clsid" /\ ServerEntries[2].value = "server app"
  /\ ServerEntries[3].key = "server inproc" /\ ServerEntries[3].value = "server path"
  /\ ServerEntries[4].key = "server inproc" /\ ServerEntries[4].value = "server model"
  /\ ServerEntries[5].key = "app" /\ ServerEntries[5].value = "surrogate"
<1> DEFINE Pair(k, v) == [key |-> k, value |-> v]
           Pairs == [key : Name, value : Name]
<1>1. \A k, v \in ServerNames : Pair(k, v) \in Pairs /\ Pair(k, v).key = k /\ Pair(k, v).value = v
  BY NamesApart
<1>2. ServerEntries =
        <<Pair("server clsid", "server name"), Pair("server clsid", "server app"),
          Pair("server inproc", "server path"), Pair("server inproc", "server model"),
          Pair("app", "surrogate")>>
  BY DEF ServerEntries
<1>3. /\ "server clsid" \in ServerNames /\ "server name" \in ServerNames /\ "server app" \in ServerNames
      /\ "server inproc" \in ServerNames /\ "server path" \in ServerNames
      /\ "server model" \in ServerNames /\ "app" \in ServerNames /\ "surrogate" \in ServerNames
  BY DEF ServerNames
<1> HIDE DEF Pair, Pairs
<1>4. /\ ServerEntries \in Seq(Pairs) /\ Len(ServerEntries) = 5
      /\ ServerEntries[1] = Pair("server clsid", "server name")
      /\ ServerEntries[2] = Pair("server clsid", "server app")
      /\ ServerEntries[3] = Pair("server inproc", "server path")
      /\ ServerEntries[4] = Pair("server inproc", "server model")
      /\ ServerEntries[5] = Pair("app", "surrogate")
  BY <1>1, <1>2, <1>3, FiveInSeq
<1>5. Pairs = [key : Name, value : Name] BY DEF Pairs
<1>6. /\ Pair("server clsid", "server name").key = "server clsid"
      /\ Pair("server clsid", "server name").value = "server name"
      /\ Pair("server clsid", "server app").key = "server clsid"
      /\ Pair("server clsid", "server app").value = "server app"
      /\ Pair("server inproc", "server path").key = "server inproc"
      /\ Pair("server inproc", "server path").value = "server path"
      /\ Pair("server inproc", "server model").key = "server inproc"
      /\ Pair("server inproc", "server model").value = "server model"
      /\ Pair("app", "surrogate").key = "app" /\ Pair("app", "surrogate").value = "surrogate"
  BY <1>1, <1>3
<1> QED BY <1>4, <1>5, <1>6, Zenon

LEMMA ServerRemovals ==
  /\ Removals("server") \in Seq(Name) /\ Len(Removals("server")) = 5
  /\ Removals("server")[1] = "app" /\ Removals("server")[2] = "server inproc"
  /\ Removals("server")[3] = "server inproc" /\ Removals("server")[4] = "server clsid"
  /\ Removals("server")[5] = "server clsid"
<1> DEFINE n == 5
           all == Removals("server")
<1>1. all = [k \in 1..n |-> ServerEntries[6 - k].key] /\ n \in Nat
  <2>1. Len(ServerEntries) = 5 BY ServerWrites, Zenon
  <2>2. all = [k \in 1..Len(ServerEntries) |-> ServerEntries[Len(ServerEntries) + 1 - k].key]
    BY DEF Removals
  <2> QED BY <2>1, <2>2
<1>2. \A k \in 1..n : ServerEntries[6 - k].key \in Name
  <2> TAKE k \in 1..n
  <2>1. 6 - k \in 1..5 OBVIOUS
  <2>2. ServerEntries[6 - k] \in [key : Name, value : Name] BY <2>1, ServerWrites, ElementOfSeq
  <2> QED BY <2>2
<1> HIDE DEF n, all
<1>3. all \in Seq(Name) BY <1>1, <1>2, IsASeq
<1>4. Len(all) = n BY <1>1, <1>3, LenProperties
<1>5. \A k \in 1..n : all[k] = ServerEntries[6 - k].key BY <1>1
<1>6. n = 5 BY DEF n
<1>7. /\ all[1] = ServerEntries[5].key /\ all[2] = ServerEntries[4].key
      /\ all[3] = ServerEntries[3].key /\ all[4] = ServerEntries[2].key
      /\ all[5] = ServerEntries[1].key
  BY <1>5, <1>6
<1> QED BY <1>3, <1>4, <1>6, <1>7, ServerWrites DEF all

LEMMA WithNames ==
  /\ With("clsid") = {"clsid", "description"} /\ With("inproc") = {"inproc", "path", "model"}
  /\ With("service") = {"service", "language"}
  /\ With("server clsid") = {"server clsid", "server name", "server app"}
  /\ With("server inproc") = {"server inproc", "server path", "server model"}
  /\ With("app") = {"app", "surrogate"}
BY DEF With

LEMMA EntriesOfTip ==
  /\ Keys("tip") = CategoryNames \cup {"service", "inproc", "clsid"}
  /\ Entries("tip") = CategoryNames \cup TipNames
<1>1. Count \in Nat BY CategoriesApart
<1>2. ASSUME NEW k \in 1..(Count + 3)
      PROVE  Removals("tip")[k] \in CategoryNames \cup {"service", "inproc", "clsid"}
  <2>1. k \in 1..Count \/ k = Count + 1 \/ k = Count + 2 \/ k = Count + 3 BY <1>1
  <2> QED BY <2>1, TipRemovals, CategoriesApart
<1>3. ASSUME NEW c \in CategoryNames PROVE \E k \in 1..(Count + 3) : c = Removals("tip")[k]
  <2>1. PICK k \in 1..Count : c = Categories[k] BY <1>3 DEF CategoryNames, Count
  <2>2. k \in 1..(Count + 3) BY <1>1
  <2> QED BY <2>1, <2>2, TipRemovals
<1>4. Count + 1 \in 1..(Count + 3) /\ Count + 2 \in 1..(Count + 3) /\ Count + 3 \in 1..(Count + 3)
  BY <1>1
<1>5. Len(Removals("tip")) = Count + 3 BY TipRemovals
<1>6. Keys("tip") = CategoryNames \cup {"service", "inproc", "clsid"}
  BY <1>2, <1>3, <1>4, <1>5, TipRemovals DEF Keys
<1>7. \A c \in CategoryNames : With(c) = {c}
  BY CategoriesApart DEF CategoryNames, Count
<1>8. \A e : e \in Entries("tip") <=> \E key \in Keys("tip") : e \in With(key)
  BY DEF Entries
<1>9. ASSUME NEW e PROVE e \in Entries("tip") <=> e \in CategoryNames \cup TipNames
  <2>1. e \in Entries("tip") <=> \/ \E c \in CategoryNames : e \in With(c)
                               \/ e \in With("service") \/ e \in With("inproc") \/ e \in With("clsid")
    BY <1>6, <1>8
  <2>2. (\E c \in CategoryNames : e \in With(c)) <=> e \in CategoryNames BY <1>7
  <2>3. e \in TipNames <=> e \in With("service") \/ e \in With("inproc") \/ e \in With("clsid")
    BY WithNames DEF TipNames
  <2> QED BY <2>1, <2>2, <2>3
<1> QED BY <1>6, <1>9

LEMMA EntriesOfServer ==
  /\ Keys("server") = {"app", "server inproc", "server clsid"}
  /\ Entries("server") = ServerNames
<1>1. Keys("server") = {Removals("server")[k] : k \in 1..5}
  <2>1. Len(Removals("server")) = 5 BY ServerRemovals, Zenon
  <2> QED BY <2>1 DEF Keys
<1>2. Keys("server") = {"app", "server inproc", "server clsid"}
  <2>1. \A k \in 1..5 : k \in {1, 2, 3, 4, 5} OBVIOUS
  <2>2. 1 \in 1..5 /\ 2 \in 1..5 /\ 4 \in 1..5 OBVIOUS
  <2>3. \A key \in Keys("server") : key \in {"app", "server inproc", "server clsid"}
    <3> TAKE key \in Keys("server")
    <3>1. PICK k \in {1, 2, 3, 4, 5} : key = Removals("server")[k] BY <1>1, <2>1, Zenon
    <3> QED BY <3>1, ServerRemovals
  <2>4. /\ "app" \in Keys("server") /\ "server inproc" \in Keys("server")
        /\ "server clsid" \in Keys("server")
    BY <1>1, <2>2, ServerRemovals
  <2> QED BY <2>3, <2>4
<1>3. Entries("server") = With("app") \cup With("server inproc") \cup With("server clsid")
  BY <1>2 DEF Entries
<1> QED BY <1>2, <1>3, WithNames DEF ServerNames

\* The DLLs have no entry in common.
LEMMA EntriesApart ==
  /\ Entries("tip") \cap Entries("server") = {}
  /\ \A d \in Dll : Keys(d) \subseteq Entries(d)
<1>1. TipNames \cap ServerNames = {} BY DEF TipNames, ServerNames
<1>2. Entries("tip") \cap Entries("server") = {}
  BY <1>1, EntriesOfTip, EntriesOfServer, CategoriesApart
<1>3. Keys("tip") \subseteq Entries("tip") BY EntriesOfTip DEF TipNames
<1>4. Keys("server") \subseteq Entries("server") BY EntriesOfServer DEF ServerNames
<1> QED BY <1>2, <1>3, <1>4 DEF Dll

-----------------------------------------------------------------------------
(* The registration.                                                       *)

\* Every entry met could be removed, and no call was cut off.
Clean(d) == d \notin stuck \cup cut

Complete(d) ==
  IF d = "tip" THEN Entries(d) \subseteq entries
  ELSE Keys(d) \subseteq entries /\ Entries(d) \subseteq entries \cup unset

\* An entry of the server has its key, and its value unless that could not be
\* set.
HasEntry(entry) == entry.key \in entries /\ entry.value \in entries \cup unset

\* While no call is made on a DLL, what is registered fits the last answer.
Settled(d) ==
  /\ answer[d] = "S_OK" => Complete(d)
  /\ (Clean(d) /\ answer[d] # "S_OK") => entries \cap Entries(d) = {}

\* What is there of the text service was written in the order of its list.
InOrder ==
  \A i, j \in 1..Len(Writes("tip")) :
    i <= j /\ Writes("tip")[j] \in entries => Writes("tip")[i] \in entries

\* The first p entries of a DLL have been written.
WrittenUpTo(d, p) ==
  /\ \A i \in 1..p : IF d = "tip" THEN Writes("tip")[i] \in entries
                                  ELSE HasEntry(ServerEntries[i])
  /\ d = "tip" /\ Clean(d) => InOrder

\* The first p steps of the removal of a DLL have been made: what is left goes
\* with the steps to come; the categories left are the last ones; and the
\* text service is not offered any more once COM's entries are removed.
Removed(d, p) ==
  /\ Clean(d) => \A e \in entries \cap Entries(d) :
                   \E i \in (p + 1)..Len(Removals(d)) : e \in With(Removals(d)[i])
  /\ d = "tip" /\ Clean(d) =>
       \A i, j \in (p + 1)..Count :
         i <= j /\ Categories[j] \in entries => Categories[i] \in entries
  /\ d = "tip" /\ d \notin stuck /\ p > Count => "service" \notin entries

Registering(d, p) ==
  /\ task.op = "register" /\ task.dll = d
  /\ task = Task("register", d, After(Writes(d), p))
  /\ WrittenUpTo(d, p)

Removing(op, d, p) ==
  /\ task.op = op /\ task.dll = d
  /\ task = Task(op, d, After(Removals(d), p))
  /\ Removed(d, p)

Undoing == {"unregister", "roll back"}

InProgress ==
  \/ task = NoTask
  \/ \E d \in Dll : \E p \in 0..Len(Writes(d)) : Registering(d, p)
  \/ \E op \in Undoing : \E d \in Dll : \E p \in 0..Len(Removals(d)) : Removing(op, d, p)

Untouched(d) == task = NoTask \/ task.dll # d

\* The inductive invariant of the registration.
RInv ==
  /\ answer \in [Dll -> {"none", "S_OK", "removed", "failed"}]
  /\ stuck \in SUBSET Dll /\ cut \in SUBSET Dll
  /\ InProgress
  /\ \A d \in Dll : Untouched(d) => Settled(d)
  /\ AnnouncedIsLoadable

LEMMA TaskFields ==
  ASSUME NEW op, NEW d, NEW rest
  PROVE  Task(op, d, rest).op = op /\ Task(op, d, rest).dll = d /\ Task(op, d, rest).rest = rest
BY DEF Task

LEMMA TaskIsSome ==
  ASSUME NEW op \in {"register"} \cup Undoing, NEW d, NEW rest
  PROVE  Task(op, d, rest) # NoTask
<1>1. Task(op, d, rest).op = op BY TaskFields
<1>2. NoTask.op = "none" BY DEF NoTask
<1> QED BY <1>1, <1>2 DEF Undoing

\* Every entry of the text service is in the list of its writes, once.
LEMMA TipWritesOnce ==
  /\ \A i \in 1..Len(Writes("tip")) : Writes("tip")[i] \in Entries("tip")
  /\ \A e \in Entries("tip") : \E i \in 1..Len(Writes("tip")) : e = Writes("tip")[i]
  /\ \A i, j \in 1..Len(Writes("tip")) : Writes("tip")[i] = Writes("tip")[j] => i = j
<1> DEFINE all == Writes("tip")
           Com == {1, 2, 3, 4, 5, 6, 7}
<1>1. Count \in Nat /\ Len(all) = 7 + Count BY CategoriesApart, TipWrites
<1>2. \A i \in Com : all[i] \in TipNames BY TipWrites DEF TipNames
<1>3. /\ all[1] = "clsid" /\ all[2] = "description" /\ all[3] = "inproc" /\ all[4] = "path"
      /\ all[5] = "model" /\ all[6] = "service" /\ all[7] = "language"
  BY TipWrites
<1> HIDE DEF all
<1>4. /\ \A e \in TipNames : \E i \in Com : e = all[i]
      /\ \A i, j \in Com : all[i] = all[j] => i = j
  BY <1>3 DEF TipNames
<1>5. \A i \in 1..Len(all) : i \in Com \/ \E k \in 1..Count : i = 7 + k
  <2> TAKE i \in 1..Len(all)
  <2>1. i \in Com \/ i - 7 \in 1..Count BY <1>1
  <2>2. i - 7 \in 1..Count => i = 7 + (i - 7) OBVIOUS
  <2> QED BY <2>1, <2>2
<1>6. \A k \in 1..Count : all[7 + k] = Categories[k] /\ Categories[k] \in CategoryNames
  BY TipWrites, CategoriesApart DEF all
<1>7. \A i \in Com : i \in 1..Len(all) BY <1>1
<1>8. \A k \in 1..Count : 7 + k \in 1..Len(all) BY <1>1
<1>9. CategoryNames \cap TipNames = {} BY CategoriesApart
<1>10. ASSUME NEW i \in 1..Len(all), NEW j \in 1..Len(all), all[i] = all[j] PROVE i = j
  <2>1. CASE i \in Com /\ j \in Com BY <2>1, <1>4, <1>10
  <2>2. CASE \E k \in 1..Count : i = 7 + k
    <3>1. PICK k \in 1..Count : i = 7 + k BY <2>2
    <3>2. j \notin Com BY <3>1, <1>2, <1>6, <1>9, <1>10
    <3>3. PICK m \in 1..Count : j = 7 + m BY <3>2, <1>5
    <3>4. Categories[k] = Categories[m] BY <3>1, <3>3, <1>6, <1>10
    <3> QED BY <3>1, <3>3, <3>4, CategoriesApart
  <2>3. CASE i \in Com /\ j \notin Com
    <3>1. PICK m \in 1..Count : j = 7 + m BY <2>3, <1>5
    <3> QED BY <2>3, <3>1, <1>2, <1>6, <1>9, <1>10
  <2> QED BY <2>1, <2>2, <2>3, <1>5
<1>11. \A i \in 1..Len(all) : all[i] \in Entries("tip")
  BY <1>2, <1>5, <1>6, EntriesOfTip
<1>12. ASSUME NEW e \in Entries("tip") PROVE \E i \in 1..Len(all) : e = all[i]
  <2>1. CASE e \in TipNames BY <2>1, <1>4, <1>7
  <2>2. CASE e \in CategoryNames
    <3>1. PICK k \in 1..Count : e = Categories[k] BY <2>2 DEF CategoryNames, Count
    <3> QED BY <3>1, <1>6, <1>8
  <2> QED BY <2>1, <2>2, EntriesOfTip
<1> QED BY <1>10, <1>11, <1>12 DEF all

\* What a step on one DLL leaves to the other.
LEMMA SettledStays ==
  ASSUME NEW d \in Dll, Settled(d), entries' \cap Entries(d) = entries \cap Entries(d),
         answer'[d] = answer[d], d \in stuck' <=> d \in stuck, d \in cut' <=> d \in cut,
         d = "server" => unset' = unset
  PROVE  Settled(d)'
<1>1. Keys(d) \subseteq Entries(d) BY EntriesApart
<1>2. Complete(d) => Complete(d)'
  <2>1. CASE d = "tip" BY <2>1 DEF Complete
  <2>2. CASE d = "server"
    <3>1. unset' = unset /\ d # "tip" BY <2>2
    <3> QED BY <3>1, <1>1 DEF Complete
  <2> QED BY <2>1, <2>2 DEF Dll
<1>3. Clean(d)' <=> Clean(d) BY DEF Clean
<1> QED BY <1>2, <1>3 DEF Settled

LEMMA StepInCall ==
  ASSUME RInv, NEW d \in Dll, task # NoTask, task.dll = d, task'.dll = d,
         task' # NoTask, UNCHANGED <<answer, cut>>, stuck' \in SUBSET Dll, stuck' \ {d} = stuck \ {d},
         entries' \ Entries(d) = entries \ Entries(d), d = "tip" => unset' = unset,
         InProgress', AnnouncedIsLoadable'
  PROVE  RInv'
<1>1. ASSUME NEW x \in Dll, Untouched(x)' PROVE Settled(x)'
  <2>1. x # d BY <1>1 DEF Untouched
  <2>2. Settled(x) BY <2>1 DEF RInv, Untouched
  <2>3. Entries(x) \cap Entries(d) = {} BY <2>1, EntriesApart DEF Dll
  <2>4. entries' \cap Entries(x) = entries \cap Entries(x) BY <2>3
  <2>5. (x \in stuck' <=> x \in stuck) /\ (x \in cut' <=> x \in cut) BY <2>1
  <2>6. x = "server" => unset' = unset BY <2>1 DEF Dll
  <2> QED BY <2>2, <2>4, <2>5, <2>6, SettledStays
<1> QED BY <1>1 DEF RInv

-----------------------------------------------------------------------------
(* A registration.                                                         *)

\* Where a call on tip.dll stands while entries are written.
LEMMA TipWriting ==
  ASSUME NEW p \in 0..Len(Writes("tip")), Registering("tip", p), task.rest # <<>>
  PROVE  /\ p + 1 \in 1..Len(Writes("tip")) /\ p + 1 \in 0..Len(Writes("tip"))
         /\ Head(task.rest) = Writes("tip")[p + 1]
         /\ Tail(task.rest) = After(Writes("tip"), p + 1)
<1>1. Writes("tip") \in Seq(Name) /\ Len(Writes("tip")) \in Nat BY TipWrites, AfterAll
<1>2. task.rest = After(Writes("tip"), p) BY TaskFields DEF Registering
<1>3. p + 1 \in 1..Len(Writes("tip")) BY <1>1, <1>2, AfterStep
<1>4. p + 1 \in 0..Len(Writes("tip")) BY <1>1, <1>3
<1> QED BY <1>1, <1>2, <1>3, <1>4, AfterStep

LEMMA ServerWriting ==
  ASSUME NEW p \in 0..Len(Writes("server")), Registering("server", p), task.rest # <<>>
  PROVE  /\ p + 1 \in 1..5 /\ p + 1 \in 0..Len(Writes("server"))
         /\ Head(task.rest) = ServerEntries[p + 1]
         /\ Tail(task.rest) = After(Writes("server"), p + 1)
<1>1. Writes("server") = ServerEntries BY DEF Writes
<1>2. ServerEntries \in Seq([key : Name, value : Name]) /\ Len(ServerEntries) = 5
  BY ServerWrites, Zenon
<1>3. task.rest = After(ServerEntries, p) BY <1>1, TaskFields DEF Registering
<1>4. /\ p + 1 \in 1..Len(ServerEntries)
      /\ Head(task.rest) = ServerEntries[p + 1]
      /\ Tail(task.rest) = After(ServerEntries, p + 1)
  BY <1>1, <1>2, <1>3, AfterStep
<1>5. p + 1 \in 1..5 /\ p + 1 \in 0..5 BY <1>2, <1>4
<1> QED BY <1>1, <1>2, <1>4, <1>5

\* What is registered of a DLL at the beginning of a call fits the orders of
\* its lists.
LEMMA SettledInOrder ==
  ASSUME Settled("tip"), Clean("tip")
  PROVE  InOrder
<1>1. CASE answer["tip"] = "S_OK"
  <2>1. Entries("tip") \subseteq entries BY <1>1 DEF Settled, Complete
  <2> QED BY <2>1, TipWritesOnce DEF InOrder
<1>2. CASE answer["tip"] # "S_OK"
  <2>1. entries \cap Entries("tip") = {} BY <1>2 DEF Settled
  <2> QED BY <2>1, TipWritesOnce DEF InOrder
<1> QED BY <1>1, <1>2

LEMMA NothingRemovedYet ==
  ASSUME NEW d \in Dll, d = "tip" /\ Clean(d) => InOrder
  PROVE  Removed(d, 0)
<1>1. ASSUME NEW e \in Entries(d)
      PROVE  \E i \in (0 + 1)..Len(Removals(d)) : e \in With(Removals(d)[i])
  BY <1>1 DEF Entries, Keys
<1>2. ASSUME d = "tip", Clean(d), NEW i \in (0 + 1)..Count, NEW j \in (0 + 1)..Count,
             i <= j, Categories[j] \in entries
      PROVE  Categories[i] \in entries
  <2>1. Count \in Nat /\ Len(Writes("tip")) = 7 + Count BY CategoriesApart, TipWrites
  <2>2. 7 + i \in 1..Len(Writes("tip")) /\ 7 + j \in 1..Len(Writes("tip")) /\ 7 + i <= 7 + j
    BY <2>1, <1>2
  <2>3. Writes("tip")[7 + i] = Categories[i] /\ Writes("tip")[7 + j] = Categories[j] BY TipWrites
  <2> QED BY <2>2, <2>3, <1>2 DEF InOrder
<1>3. ~(0 > Count) BY CategoriesApart
<1> QED BY <1>1, <1>2, <1>3 DEF Removed

LEMMA CallStarts ==
  ASSUME NEW d \in Dll, Settled(d)
  PROVE  WrittenUpTo(d, 0) /\ Removed(d, 0)
<1>1. d = "tip" /\ Clean(d) => InOrder BY SettledInOrder
<1>2. Removed(d, 0) BY <1>1, NothingRemovedYet
<1> QED BY <1>1, <1>2 DEF WrittenUpTo

LEMMA RegisterKeeps ==
  ASSUME RInv, NEW d \in Dll, Register(d) \/ Unregister(d)
  PROVE  RInv'
<1>1. task = NoTask /\ UNCHANGED <<entries, answer, stuck, cut, unset>> BY DEF Register, Unregister
<1>2. \A x \in Dll : Settled(x) BY <1>1 DEF RInv, Untouched
<1>3. \A x \in Dll : Settled(x)' BY <1>1, <1>2 DEF Settled, Clean, Complete
<1>4. WrittenUpTo(d, 0)' /\ Removed(d, 0)'
  BY <1>1, <1>2, CallStarts DEF WrittenUpTo, HasEntry, Removed, InOrder, Clean
<1>5. /\ 0 \in 0..Len(Writes(d)) /\ After(Writes(d), 0) = Writes(d)
      /\ 0 \in 0..Len(Removals(d)) /\ After(Removals(d), 0) = Removals(d)
  <2>1. \E S : Writes(d) \in Seq(S)
    <3>1. Writes("server") = ServerEntries BY DEF Writes
    <3> QED BY <3>1, TipWrites, ServerWrites DEF Dll
  <2>2. Removals(d) \in Seq(Name) BY TipRemovals, ServerRemovals DEF Dll
  <2> QED BY <2>1, <2>2, AfterAll
<1>6. InProgress'
  <2>1. CASE Register(d)
    <3>1. task' = Task("register", d, After(Writes(d), 0)) BY <2>1, <1>5 DEF Register
    <3>2. Registering(d, 0)' BY <3>1, <1>4, TaskFields DEF Registering
    <3> QED BY <3>2, <1>5 DEF InProgress
  <2>2. CASE Unregister(d)
    <3>1. task' = Task("unregister", d, After(Removals(d), 0)) BY <2>2, <1>5 DEF Unregister
    <3>2. Removing("unregister", d, 0)' BY <3>1, <1>4, TaskFields DEF Removing
    <3> QED BY <3>2, <1>5 DEF InProgress, Undoing
  <2> QED BY <2>1, <2>2
<1>7. AnnouncedIsLoadable' BY <1>1 DEF RInv, AnnouncedIsLoadable, Loadable
<1> QED BY <1>1, <1>3, <1>6, <1>7 DEF RInv

\* A write that fails begins the removal.
LEMMA RollBackStarts ==
  ASSUME NEW d \in Dll, NEW p, Registering(d, p), RollBack, UNCHANGED <<entries, stuck, cut>>
  PROVE  InProgress' /\ task'.dll = d /\ task' # NoTask
<1>1. Removals(d) \in Seq(Name) BY TipRemovals, ServerRemovals DEF Dll
<1>2. After(Removals(d), 0) = Removals(d) /\ 0 \in 0..Len(Removals(d)) BY <1>1, AfterAll
<1>3. task' = Task("roll back", d, After(Removals(d), 0)) BY <1>2 DEF RollBack, Registering
<1>4. Removed(d, 0) BY NothingRemovedYet DEF Registering, WrittenUpTo
<1>5. Removed(d, 0)' BY <1>4 DEF Removed, Clean
<1> DEFINE op == "roll back"
<1>6. op \in Undoing BY DEF Undoing
<1>7. task' = Task(op, d, After(Removals(d), 0)) BY <1>3
<1> HIDE DEF op
<1>8. task'.op = op /\ task'.dll = d BY <1>7, TaskFields
<1>9. task' # NoTask BY <1>6, <1>7, TaskIsSome
<1>10. Removing(op, d, 0)' BY <1>5, <1>7, <1>8 DEF Removing
<1> QED BY <1>2, <1>6, <1>8, <1>9, <1>10 DEF InProgress

LEMMA TipEntryWritten ==
  ASSUME NEW p \in 0..Len(Writes("tip")), Registering("tip", p), task.rest # <<>>, AnnouncedIsLoadable,
         entries' = entries \cup {Head(task.rest)}, Continue(Tail(task.rest)), UNCHANGED <<stuck, cut>>
  PROVE  /\ Registering("tip", p + 1)' /\ AnnouncedIsLoadable'
         /\ entries' \ Entries("tip") = entries \ Entries("tip")
<1> DEFINE all == Writes("tip")
<1>1. /\ p + 1 \in 1..Len(all) /\ Head(task.rest) = all[p + 1]
      /\ Tail(task.rest) = After(all, p + 1)
  BY TipWriting
<1>2. task.op = "register" /\ task.dll = "tip" BY DEF Registering
<1>3. task' = Task("register", "tip", After(all, p + 1)) BY <1>1, <1>2 DEF Continue
<1>4. all[p + 1] \in Entries("tip") BY <1>1, TipWritesOnce
<1> HIDE DEF all
<1>5. entries' = entries \cup {all[p + 1]} BY <1>1
<1>6. \A i \in 1..p : all[i] \in entries BY DEF Registering, WrittenUpTo, all
<1>7. Len(all) \in Nat /\ p \in Nat BY <1>1, TipWrites, LenProperties DEF all
<1>8. \A i \in 1..(p + 1) : all[i] \in entries'
  <2> TAKE i \in 1..(p + 1)
  <2>1. i \in 1..p \/ i = p + 1 BY <1>7
  <2> QED BY <2>1, <1>5, <1>6
<1>9. ASSUME Clean("tip")' PROVE InOrder'
  <2>1. InOrder BY <1>9 DEF Registering, WrittenUpTo, Clean
  <2>2. ASSUME NEW i \in 1..Len(all), NEW j \in 1..Len(all), i <= j, all[j] \in entries'
        PROVE  all[i] \in entries'
    <3>1. CASE all[j] \in entries BY <3>1, <2>1, <2>2, <1>5 DEF InOrder, all
    <3>2. CASE all[j] = all[p + 1]
      <4>1. j = p + 1 BY <3>2, <1>1, TipWritesOnce DEF all
      <4>2. i \in 1..(p + 1) BY <4>1, <2>2, <1>7
      <4> QED BY <4>2, <1>8
    <3> QED BY <3>1, <3>2, <2>2, <1>5
  <2> QED BY <2>2 DEF InOrder, all
<1>10. WrittenUpTo("tip", p + 1)' BY <1>8, <1>9 DEF WrittenUpTo, all
<1>11. Registering("tip", p + 1)' BY <1>3, <1>10, TaskFields DEF Registering, all
<1>12. AnnouncedIsLoadable'
  <2>1. SUFFICES ASSUME "service" \in entries', "tip" \notin stuck PROVE Loadable'
    BY DEF AnnouncedIsLoadable
  <2>2. CASE "service" \in entries BY <2>1, <2>2, <1>5 DEF AnnouncedIsLoadable, Loadable
  <2>3. CASE "service" \notin entries
    <3>1. all[p + 1] = "service" BY <2>1, <2>3, <1>5
    <3>2. /\ all[6] = "service" /\ all[1] = "clsid" /\ all[3] = "inproc" /\ all[4] = "path"
          /\ Count \in Nat /\ Len(all) = 7 + Count
      BY TipWrites, CategoriesApart DEF all
    <3>3. 6 \in 1..Len(all) BY <3>2
    <3>4. p + 1 = 6 BY <3>1, <3>2, <3>3, <1>1, TipWritesOnce DEF all
    <3>5. 1 \in 1..p /\ 3 \in 1..p /\ 4 \in 1..p BY <3>4, <1>7
    <3> QED BY <3>2, <3>5, <1>5, <1>6 DEF Loadable
  <2> QED BY <2>2, <2>3
<1>13. entries' \ Entries("tip") = entries \ Entries("tip") BY <1>4, <1>5
<1> QED BY <1>11, <1>12, <1>13

LEMMA ServerEntryWritten ==
  ASSUME NEW p \in 0..Len(Writes("server")), Registering("server", p), task.rest # <<>>,
         NEW value, entries' = entries \cup {Head(task.rest).key} \cup value,
         value \subseteq {Head(task.rest).value}, unset \subseteq unset' \cup value,
         Head(task.rest).value \in value \cup unset',
         Continue(Tail(task.rest)), AnnouncedIsLoadable, UNCHANGED stuck
  PROVE  /\ Registering("server", p + 1)' /\ AnnouncedIsLoadable'
         /\ entries' \ Entries("server") = entries \ Entries("server")
<1> DEFINE all == ServerEntries
           rest == After(Writes("server"), p + 1)
<1>1. p + 1 \in 1..5 /\ Head(task.rest) = all[p + 1] /\ Tail(task.rest) = rest
  BY ServerWriting
<1>2. task.op = "register" /\ task.dll = "server" BY DEF Registering
<1>3. task' = Task("register", "server", rest) BY <1>1, <1>2 DEF Continue
<1>4. all[p + 1].key \in Entries("server") /\ all[p + 1].value \in Entries("server")
  <2>1. \A i \in 1..5 : i \in {1, 2, 3, 4, 5} OBVIOUS
  <2>2. \A i \in {1, 2, 3, 4, 5} : all[i].key \in ServerNames /\ all[i].value \in ServerNames
    BY ServerWrites DEF ServerNames
  <2> QED BY <2>1, <2>2, <1>1, EntriesOfServer
<1> HIDE DEF all, rest
<1>5. /\ entries' = entries \cup {all[p + 1].key} \cup value /\ value \subseteq {all[p + 1].value}
      /\ all[p + 1].value \in value \cup unset'
  BY <1>1
<1>6. \A i \in 1..p : HasEntry(all[i]) BY DEF Registering, WrittenUpTo, all
<1>7. \A i \in 1..(p + 1) : HasEntry(all[i])'
  <2> TAKE i \in 1..(p + 1)
  <2>1. CASE i = p + 1
    <3>1. /\ all[i].key \in entries'
          /\ all[i].value \in entries' \cup unset'
      BY <2>1, <1>5
    <3> QED BY <3>1 DEF HasEntry, all
  <2>2. CASE i \in 1..p
    <3>1. all[i].key \in entries /\ all[i].value \in entries \cup unset BY <2>2, <1>6 DEF HasEntry
    <3>2. all[i].key \in entries' /\ all[i].value \in entries' \cup unset' BY <3>1, <1>5
    <3> QED BY <3>2 DEF HasEntry, all
  <2> QED BY <2>1, <2>2, <1>1
<1>8. WrittenUpTo("server", p + 1)' BY <1>7 DEF WrittenUpTo, all
<1>9. Registering("server", p + 1)' BY <1>3, <1>8, TaskFields DEF Registering, rest
<1>10. entries' \ Entries("server") = entries \ Entries("server") BY <1>4, <1>5
<1>11. AnnouncedIsLoadable'
  <2>1. "service" \notin Entries("server") BY EntriesOfServer DEF ServerNames
  <2>2. "service" \in entries' => "service" \in entries BY <2>1, <1>10
  <2>3. entries \subseteq entries' BY <1>5
  <2> QED BY <2>2, <2>3 DEF AnnouncedIsLoadable, Loadable
<1> QED BY <1>9, <1>10, <1>11

LEMMA WriteKeeps ==
  ASSUME RInv, Write
  PROVE  RInv'
<1>1. task.op = "register" /\ task.rest # <<>> /\ UNCHANGED <<answer, stuck, cut>>
  BY DEF Write, WriteTip, WriteServer
<1>2. task # NoTask BY <1>1 DEF NoTask
<1>3. PICK d \in Dll : \E p \in 0..Len(Writes(d)) : Registering(d, p)
  BY <1>1, <1>2 DEF RInv, InProgress, Removing, Undoing
<1>4. PICK p \in 0..Len(Writes(d)) : Registering(d, p) BY <1>3
<1>5. task.dll = d BY <1>4 DEF Registering
<1>6. stuck \in SUBSET Dll /\ AnnouncedIsLoadable BY DEF RInv
<1>7. ASSUME RollBack, UNCHANGED <<entries, unset>> PROVE RInv'
  <2>1. InProgress' /\ task'.dll = d /\ task' # NoTask BY <1>1, <1>4, <1>7, RollBackStarts
  <2>2. AnnouncedIsLoadable' BY <1>1, <1>6, <1>7 DEF AnnouncedIsLoadable, Loadable
  <2> QED BY <2>1, <2>2, <1>1, <1>2, <1>5, <1>6, <1>7, StepInCall
<1>8. ASSUME Registering(d, p + 1)', p + 1 \in 0..Len(Writes(d)), AnnouncedIsLoadable',
             entries' \ Entries(d) = entries \ Entries(d), d = "tip" => unset' = unset
      PROVE  RInv'
  <2>1. InProgress' BY <1>8 DEF InProgress
  <2>2. task'.dll = d /\ task'.op = "register" BY <1>8 DEF Registering
  <2>3. task' # NoTask BY <2>2 DEF NoTask
  <2> QED BY <2>1, <2>2, <2>3, <1>1, <1>2, <1>5, <1>6, <1>8, StepInCall
<1>9. CASE d = "tip"
  <2>1. WriteTip /\ unset' = unset BY <1>5, <1>9 DEF Write, WriteServer, WriteTip
  <2>2. CASE RollBack /\ UNCHANGED entries BY <2>1, <2>2, <1>7
  <2>3. CASE entries' = entries \cup {Head(task.rest)} /\ Continue(Tail(task.rest))
    BY <2>1, <2>3, <1>1, <1>4, <1>6, <1>8, <1>9, TipEntryWritten, TipWriting
  <2> QED BY <2>1, <2>2, <2>3 DEF WriteTip
<1>10. CASE d = "server"
  <2>1. WriteServer BY <1>5, <1>10 DEF Write, WriteTip
  <2>2. CASE RollBack /\ UNCHANGED <<entries, unset>> BY <2>2, <1>7
  <2>3. ASSUME NEW value \in SUBSET {Head(task.rest).value}, unset \subseteq unset' \cup value,
               Head(task.rest).value \in value \cup unset',
               entries' = entries \cup {Head(task.rest).key} \cup value, Continue(Tail(task.rest))
        PROVE  RInv'
    <3>1. /\ Registering("server", p + 1)' /\ AnnouncedIsLoadable'
          /\ entries' \ Entries("server") = entries \ Entries("server")
      BY <2>3, <1>1, <1>4, <1>6, <1>10, ServerEntryWritten
    <3>2. p + 1 \in 0..Len(Writes(d)) BY <1>1, <1>4, <1>10, ServerWriting
    <3> QED BY <3>1, <3>2, <1>8, <1>10
  <2>4. CASE /\ entries' = entries \cup {Head(task.rest).key, Head(task.rest).value}
             /\ unset' = unset \ {Head(task.rest).value} /\ Continue(Tail(task.rest))
    <3>1. entries' = entries \cup {Head(task.rest).key} \cup {Head(task.rest).value} BY <2>4
    <3>2. unset \subseteq unset' \cup {Head(task.rest).value} BY <2>4
    <3> QED BY <3>1, <3>2, <2>3, <2>4
  <2>5. CASE /\ entries' = entries \cup {Head(task.rest).key}
             /\ unset' = unset \cup {Head(task.rest).value} /\ Continue(Tail(task.rest))
    <3>1. PICK value \in SUBSET {Head(task.rest).value} : value = {} OBVIOUS
    <3>2. entries' = entries \cup {Head(task.rest).key} \cup value BY <2>5, <3>1
    <3>3. unset \subseteq unset' \cup value /\ Head(task.rest).value \in value \cup unset' BY <2>5
    <3> QED BY <3>2, <3>3, <2>3, <2>5
  <2> QED BY <2>1, <2>2, <2>4, <2>5 DEF WriteServer
<1> QED BY <1>9, <1>10 DEF Dll

-----------------------------------------------------------------------------
(* A removal.                                                              *)

LEMMA Undo ==
  ASSUME NEW d \in Dll, NEW op, NEW p \in 0..Len(Removals(d)), Removing(op, d, p), task.rest # <<>>
  PROVE  /\ p + 1 \in 1..Len(Removals(d)) /\ p + 1 \in 0..Len(Removals(d))
         /\ Head(task.rest) = Removals(d)[p + 1]
         /\ Tail(task.rest) = After(Removals(d), p + 1)
<1>1. Removals(d) \in Seq(Name) BY TipRemovals, ServerRemovals DEF Dll
<1>2. Len(Removals(d)) \in Nat BY <1>1, LenProperties
<1>3. task.rest = After(Removals(d), p) BY TaskFields DEF Removing
<1>4. p + 1 \in 1..Len(Removals(d)) BY <1>1, <1>3, AfterStep
<1>5. p + 1 \in 0..Len(Removals(d)) BY <1>2, <1>4
<1> QED BY <1>1, <1>3, <1>4, <1>5, AfterStep

\* Which step of the removal of the text service is the next.
LEMMA TipUndo ==
  ASSUME NEW k \in 1..Len(Removals("tip"))
  PROVE  \/ /\ k \in 1..Count /\ Removals("tip")[k] = Categories[k]
            /\ Removals("tip")[k] \in CategoryNames /\ With(Removals("tip")[k]) = {Categories[k]}
         \/ k = Count + 1 /\ Removals("tip")[k] = "service" /\ Removals("tip")[k] \notin CategoryNames
         \/ k = Count + 2 /\ Removals("tip")[k] = "inproc" /\ Removals("tip")[k] \notin CategoryNames
         \/ k = Count + 3 /\ Removals("tip")[k] = "clsid" /\ Removals("tip")[k] \notin CategoryNames
<1>1. Count \in Nat /\ Len(Removals("tip")) = Count + 3 BY CategoriesApart, TipRemovals
<1>2. k \in 1..Count \/ k = Count + 1 \/ k = Count + 2 \/ k = Count + 3 BY <1>1
<1>3. "service" \notin CategoryNames /\ "inproc" \notin CategoryNames /\ "clsid" \notin CategoryNames
  BY CategoriesApart DEF TipNames
<1> QED BY <1>2, <1>3, TipRemovals, CategoriesApart

LEMMA TipEntryRemoved ==
  ASSUME NEW op, NEW p \in 0..Len(Removals("tip")), Removing(op, "tip", p), task.rest # <<>>,
         AnnouncedIsLoadable, entries' = entries \ With(Head(task.rest)), UNCHANGED <<stuck, cut>>
  PROVE  Removed("tip", p + 1)' /\ AnnouncedIsLoadable'
<1> DEFINE all == Removals("tip")
           k == p + 1
<1>1. k \in 1..Len(all) /\ Head(task.rest) = all[k] BY Undo DEF Dll
<1>2. Count \in Nat /\ Len(all) = Count + 3 BY CategoriesApart, TipRemovals
<1>3. Removed("tip", p) BY DEF Removing
<1>4. \A i, j \in 1..Count : Categories[i] = Categories[j] => i = j BY CategoriesApart
<1>5. entries' = entries \ With(all[k]) BY <1>1
<1>6. \/ k \in 1..Count /\ With(all[k]) = {Categories[k]} /\ Categories[k] \in CategoryNames
      \/ k = Count + 1 /\ With(all[k]) = {"service", "language"}
      \/ k = Count + 2 \/ k = Count + 3
  BY <1>1, TipUndo, WithNames
<1> HIDE DEF all
<1>7. ASSUME Clean("tip")', NEW e \in entries' \cap Entries("tip")
      PROVE  \E i \in (k + 1)..Len(all) : e \in With(all[i])
  <2>1. PICK i \in (p + 1)..Len(all) : e \in With(all[i])
    BY <1>3, <1>5, <1>7 DEF Removed, Clean, all
  <2>2. i # p + 1 BY <2>1, <1>5, <1>7
  <2>3. i \in (k + 1)..Len(all) BY <2>1, <2>2, <1>2
  <2> QED BY <2>1, <2>3
<1>8. ASSUME Clean("tip")', NEW i \in (k + 1)..Count, NEW j \in (k + 1)..Count,
             i <= j, Categories[j] \in entries'
      PROVE  Categories[i] \in entries'
  <2>1. i \in (p + 1)..Count /\ j \in (p + 1)..Count /\ k \in 1..Count /\ i \in 1..Count /\ i # k
    BY <1>1, <1>2, <1>8
  <2>2. Categories[i] \in entries BY <2>1, <1>3, <1>5, <1>8 DEF Removed, Clean
  <2>3. With(all[k]) = {Categories[k]} BY <2>1, <1>2, <1>6
  <2> QED BY <2>1, <2>2, <2>3, <1>4, <1>5
<1>9. ASSUME "tip" \notin stuck, k > Count PROVE "service" \notin entries'
  <2>1. CASE p > Count BY <2>1, <1>3, <1>5, <1>9 DEF Removed
  <2>2. CASE p = Count BY <2>2, <1>2, <1>5, <1>6
  <2> QED BY <2>1, <2>2, <1>2, <1>9
<1>10. Removed("tip", k)' BY <1>7, <1>8, <1>9 DEF Removed, all
<1>11. ASSUME "service" \in entries', "tip" \notin stuck PROVE Loadable'
  <2>1. ~(k > Count) BY <1>9, <1>11
  <2>2. k \in 1..Count BY <2>1, <1>1, <1>2
  <2>3. With(all[k]) = {Categories[k]} /\ Categories[k] \notin TipNames
    BY <2>2, <1>2, <1>6, CategoriesApart
  <2>4. "service" \in entries BY <1>5, <1>11
  <2> QED BY <2>3, <2>4, <1>5, <1>11 DEF AnnouncedIsLoadable, Loadable, TipNames
<1> QED BY <1>10, <1>11 DEF AnnouncedIsLoadable

LEMMA ServerEntryRemoved ==
  ASSUME NEW op, NEW p \in 0..Len(Removals("server")), Removing(op, "server", p), task.rest # <<>>,
         AnnouncedIsLoadable, UNCHANGED <<stuck, cut>>,
         \/ entries' = entries \ With(Head(task.rest))
         \/ entries' = entries /\ ~Removable(Head(task.rest))
  PROVE  Removed("server", p + 1)' /\ AnnouncedIsLoadable'
<1> DEFINE all == Removals("server")
           k == p + 1
<1>1. k \in 1..Len(all) /\ Head(task.rest) = all[k] BY Undo DEF Dll
<1>2. Len(all) = 5 BY ServerRemovals, Zenon
<1>3. Removed("server", p) BY DEF Removing
<1>4. k \in {1, 2, 3, 4, 5} BY <1>1, <1>2
<1>5. /\ \A i \in {4, 5} : "server inproc" \notin With(all[i])
      /\ \A i \in {1, 2, 3} : all[i] # "server clsid"
  BY ServerRemovals, WithNames
<1>6. With(all[k]) \subseteq ServerNames
  <2>1. \A i \in {1, 2, 3, 4, 5} : With(all[i]) \subseteq ServerNames
    BY ServerRemovals, WithNames DEF ServerNames
  <2> QED BY <1>4, <2>1
<1> HIDE DEF all
<1>7. ASSUME Clean("server")', NEW e \in entries' \cap Entries("server")
      PROVE  \E i \in (k + 1)..Len(all) : e \in With(all[i])
  <2>1. \A x \in entries \cap Entries("server") : \E i \in (p + 1)..Len(all) : x \in With(all[i])
    BY <1>3, <1>7 DEF Removed, Clean, all
  <2>2. entries' \subseteq entries OBVIOUS
  <2>3. PICK i \in (p + 1)..Len(all) : e \in With(all[i]) BY <2>1, <2>2, <1>7
  <2>4. CASE entries' = entries \ With(all[k])
    <3>1. i # p + 1 BY <2>3, <2>4, <1>7
    <3>2. i \in (k + 1)..Len(all) BY <2>3, <3>1, <1>2
    <3> QED BY <2>3, <3>2
  <2>5. CASE ~Removable(all[k])
    <3>1. all[k] = "server clsid" /\ "server inproc" \in entries BY <2>5 DEF Removable
    <3>2. k \in {4, 5} BY <3>1, <1>4, <1>5
    <3>3. "server inproc" \in Entries("server") BY EntriesOfServer DEF ServerNames
    <3>4. PICK m \in (p + 1)..Len(all) : "server inproc" \in With(all[m]) BY <2>1, <3>1, <3>3
    <3>5. m \in {4, 5}
      <4>1. m \in (p + 1)..5 BY <1>2
      <4>2. p + 1 = 4 \/ p + 1 = 5 BY <3>2
      <4> QED BY <4>1, <4>2
    <3> QED BY <3>4, <3>5, <1>5
  <2> QED BY <2>4, <2>5, <1>1
<1>8. Removed("server", k)' BY <1>7 DEF Removed, all
<1>9. "service" \notin ServerNames /\ "clsid" \notin ServerNames /\ "inproc" \notin ServerNames
      /\ "path" \notin ServerNames
  BY DEF ServerNames
<1>10. AnnouncedIsLoadable'
  BY <1>1, <1>6, <1>9 DEF AnnouncedIsLoadable, Loadable
<1> QED BY <1>8, <1>10

\* An entry that stays is one the removal of the DLL gets stuck at, and what
\* is done next is a later step.
LEMMA StepsSkipped ==
  ASSUME NEW d \in Dll, NEW op, NEW p \in 0..Len(Removals(d)), Removing(op, d, p), task.rest # <<>>
  PROVE  LET entry == Head(task.rest)
         IN  /\ \E q \in 0..Len(Removals(d)) :
                  AfterFailure(entry, Tail(task.rest)) = After(Removals(d), q)
             /\ entry \in CategoryNames =>
                  /\ d = "tip" /\ p + 1 \in 1..Count /\ entry = Categories[p + 1]
                  /\ Count \in 0..Len(Removals(d))
                  /\ AfterFailure(entry, Tail(task.rest)) = After(Removals(d), Count)
<1> DEFINE all == Removals(d)
           entry == Head(task.rest)
           rest == Tail(task.rest)
<1>1. /\ p + 1 \in 1..Len(all) /\ p + 1 \in 0..Len(all)
      /\ entry = all[p + 1] /\ rest = After(all, p + 1)
  BY Undo
<1>2. all \in Seq(Name) /\ Len(all) \in 0..Len(all) /\ After(all, Len(all)) = <<>>
  <2>1. all \in Seq(Name) BY TipRemovals, ServerRemovals DEF Dll
  <2>2. Len(all) \in Nat BY <2>1, LenProperties
  <2>3. Len(all) \in 0..Len(all) BY <2>2
  <2> QED BY <2>1, <2>3, AfterEnd
<1>3. ASSUME entry \in CategoryNames
      PROVE  d = "tip" /\ p + 1 \in 1..Count /\ entry = Categories[p + 1]
  <2>1. d = "tip"
    <3>1. SUFFICES ASSUME d = "server" PROVE FALSE BY DEF Dll
    <3>2. p + 1 \in 1..5
      <4>1. Len(Removals("server")) = 5 BY ServerRemovals, Zenon
      <4> QED BY <4>1, <1>1, <3>1
    <3>3. \A i \in 1..5 : i \in {1, 2, 3, 4, 5} OBVIOUS
    <3>4. \A i \in {1, 2, 3, 4, 5} : Removals("server")[i] \in ServerNames
      BY ServerRemovals DEF ServerNames
    <3> QED BY <3>1, <3>2, <3>3, <3>4, <1>1, <1>3, CategoriesApart
  <2> QED BY <2>1, <1>1, <1>3, TipUndo
<1>4. ASSUME entry \in CategoryNames
      PROVE  AfterFailure(entry, rest) = After(all, Count) /\ Count \in 0..Len(all)
  <2>1. AfterFailure(entry, rest) = AfterCategories
    <3>1. "inproc" \notin CategoryNames BY CategoriesApart DEF TipNames
    <3> QED BY <3>1, <1>4 DEF AfterFailure
  <2>2. d = "tip" BY <1>3, <1>4
  <2>3. Count \in Nat /\ Len(Removals("tip")) = Count + 3 BY CategoriesApart, TipRemovals
  <2>4. Count \in 0..Len(all) BY <2>2, <2>3
  <2> QED BY <2>1, <2>2, <2>4, TipRemovals
<1>5. CASE entry \in CategoryNames BY <1>3, <1>4, <1>5
<1>6. CASE entry \notin CategoryNames /\ entry = "inproc"
  <2>1. AfterFailure(entry, rest) = <<>> BY <1>6 DEF AfterFailure
  <2> QED BY <2>1, <1>2, <1>6
<1>7. CASE entry \notin CategoryNames /\ entry # "inproc"
  <2>1. AfterFailure(entry, rest) = rest BY <1>7 DEF AfterFailure
  <2> QED BY <2>1, <1>1, <1>7
<1> QED BY <1>5, <1>6, <1>7

\* A category that is not there is followed by none that is.
LEMMA CategoriesSkipped ==
  ASSUME NEW op, NEW p \in 0..Len(Removals("tip")), Removing(op, "tip", p), p + 1 \in 1..Count,
         Categories[p + 1] \notin entries, UNCHANGED <<entries, stuck, cut>>
  PROVE  Removed("tip", Count)'
<1> DEFINE all == Removals("tip")
<1>1. Removed("tip", p) BY DEF Removing
<1>2. Count \in Nat /\ Len(all) = Count + 3 BY CategoriesApart, TipRemovals
<1>3. \A i \in 1..Count : all[i] = Categories[i] /\ With(all[i]) = {Categories[i]}
  BY CategoriesApart, TipRemovals
<1> HIDE DEF all
<1>4. ASSUME Clean("tip")', NEW e \in entries' \cap Entries("tip")
      PROVE  \E i \in (Count + 1)..Len(all) : e \in With(all[i])
  <2>1. PICK i \in (p + 1)..Len(all) : e \in With(all[i])
    BY <1>1, <1>4 DEF Removed, Clean, all
  <2>2. SUFFICES ASSUME i <= Count PROVE FALSE BY <2>1, <1>2
  <2>3. i \in (p + 1)..Count /\ i \in 1..Count /\ p + 1 \in (p + 1)..Count /\ p + 1 <= i
    BY <2>2, <1>2
  <2>4. Categories[i] \in entries BY <2>1, <2>3, <1>3, <1>4
  <2>5. Categories[p + 1] \in entries BY <2>3, <2>4, <1>1, <1>4 DEF Removed, Clean
  <2> QED BY <2>5
<1>5. (Count + 1)..Count = {} /\ ~(Count > Count) BY <1>2
<1> QED BY <1>4, <1>5 DEF Removed, all

LEMMA RemoveKeeps ==
  ASSUME RInv, Remove
  PROVE  RInv'
<1> DEFINE entry == Head(task.rest)
           rest == Tail(task.rest)
<1>1. task.op \in Undoing /\ task.rest # <<>> /\ UNCHANGED <<answer, cut, unset>>
  BY DEF Remove, Undoing
<1>2. task # NoTask /\ task.op # "register"
  <2>1. NoTask.op = "none" BY DEF NoTask
  <2>2. task.op # "none" /\ task.op # "register" BY <1>1 DEF Undoing
  <2> QED BY <2>1, <2>2
<1>3. PICK op \in Undoing, d \in Dll : (\E p \in 0..Len(Removals(d)) : Removing(op, d, p))
  <2>1. ASSUME NEW d \in Dll, NEW p \in 0..Len(Writes(d)) PROVE ~Registering(d, p)
    BY <1>2 DEF Registering
  <2>2. InProgress BY DEF RInv
  <2> QED BY <1>2, <2>1, <2>2, Zenon DEF InProgress
<1>4. PICK p \in 0..Len(Removals(d)) : Removing(op, d, p) BY <1>3
<1>5. task.op = op /\ task.dll = d BY <1>4 DEF Removing
<1>6. /\ p + 1 \in 0..Len(Removals(d)) /\ p + 1 \in 1..Len(Removals(d))
      /\ entry = Removals(d)[p + 1] /\ rest = After(Removals(d), p + 1)
  BY <1>1, <1>4, Undo
<1>7. stuck \in SUBSET Dll /\ AnnouncedIsLoadable BY DEF RInv
<1>8. With(entry) \subseteq Entries(d) BY <1>6 DEF Entries, Keys
<1> HIDE DEF entry, rest
\* Whatever step comes next, the invariant holds if what is left fits it.
<1>9. ASSUME NEW q \in 0..Len(Removals(d)), Continue(After(Removals(d), q)), Removed(d, q)',
             AnnouncedIsLoadable', stuck' \in SUBSET Dll, stuck' \ {d} = stuck \ {d},
             entries' \ Entries(d) = entries \ Entries(d)
      PROVE  RInv'
  <2>1. task' = Task(op, d, After(Removals(d), q)) BY <1>5, <1>9 DEF Continue
  <2>2. task'.op = op /\ task'.dll = d BY <2>1, TaskFields
  <2>3. Removing(op, d, q)' BY <1>9, <2>1, <2>2 DEF Removing
  <2>4. InProgress' BY <2>3 DEF InProgress
  <2>5. task' # NoTask BY <2>1, TaskIsSome
  <2> QED BY <2>2, <2>4, <2>5, <1>1, <1>2, <1>5, <1>9, StepInCall
<1>10. CASE /\ entries' = entries \ With(entry) /\ Continue(rest) /\ UNCHANGED stuck
  <2>1. Removed(d, p + 1)' /\ AnnouncedIsLoadable'
    <3>1. CASE d = "tip" BY <3>1, <1>1, <1>4, <1>7, <1>10, TipEntryRemoved DEF entry
    <3>2. CASE d = "server" BY <3>2, <1>1, <1>4, <1>7, <1>10, ServerEntryRemoved DEF entry
    <3> QED BY <3>1, <3>2 DEF Dll
  <2>2. entries' \ Entries(d) = entries \ Entries(d) BY <1>8, <1>10
  <2> QED BY <2>1, <2>2, <1>6, <1>7, <1>9, <1>10
<1>11. CASE ~Removable(entry) /\ Continue(rest) /\ UNCHANGED <<entries, stuck>>
  <2>1. d = "server"
    <3>1. SUFFICES ASSUME d = "tip" PROVE FALSE BY DEF Dll
    <3>2. entry = "server clsid" BY <1>11 DEF Removable
    <3>3. "server clsid" \notin CategoryNames BY CategoriesApart DEF ServerNames
    <3> QED BY <3>1, <3>2, <3>3, <1>6, TipUndo
  <2>2. Removed(d, p + 1)' /\ AnnouncedIsLoadable'
    BY <2>1, <1>1, <1>4, <1>7, <1>11, ServerEntryRemoved DEF entry
  <2> QED BY <2>2, <1>6, <1>7, <1>9, <1>11
<1>12. CASE /\ entry \in CategoryNames \ entries /\ Continue(AfterFailure(entry, rest))
            /\ UNCHANGED <<entries, stuck>>
  <2>1. /\ d = "tip" /\ p + 1 \in 1..Count /\ entry = Categories[p + 1]
        /\ Count \in 0..Len(Removals(d)) /\ AfterFailure(entry, rest) = After(Removals(d), Count)
    BY <1>1, <1>4, <1>12, StepsSkipped DEF entry, rest
  <2>2. Removed("tip", Count)' BY <2>1, <1>1, <1>4, <1>12, CategoriesSkipped
  <2>3. AnnouncedIsLoadable' BY <1>7, <1>12 DEF AnnouncedIsLoadable, Loadable
  <2> QED BY <2>1, <2>2, <2>3, <1>7, <1>9, <1>12
<1>13. CASE /\ stuck' = stuck \cup {task.dll} /\ Continue(AfterFailure(entry, rest))
            /\ UNCHANGED entries
  <2>1. PICK q \in 0..Len(Removals(d)) : AfterFailure(entry, rest) = After(Removals(d), q)
    BY <1>1, <1>4, StepsSkipped DEF entry, rest
  <2>2. d \in stuck' /\ stuck' \in SUBSET Dll /\ stuck' \ {d} = stuck \ {d}
    BY <1>5, <1>7, <1>13
  <2>3. Removed(d, q)' BY <2>2 DEF Removed, Clean
  <2>4. AnnouncedIsLoadable' BY <2>2, <1>7, <1>13 DEF AnnouncedIsLoadable, Loadable
  <2> QED BY <2>1, <2>2, <2>3, <2>4, <1>9, <1>13
<1>14. \/ /\ entries' = entries \ With(entry) /\ Continue(rest) /\ UNCHANGED stuck
       \/ ~Removable(entry) /\ Continue(rest) /\ UNCHANGED <<entries, stuck>>
       \/ /\ entry \in CategoryNames \ entries /\ Continue(AfterFailure(entry, rest))
          /\ UNCHANGED <<entries, stuck>>
       \/ /\ stuck' = stuck \cup {task.dll} /\ Continue(AfterFailure(entry, rest))
          /\ UNCHANGED entries
  BY DEF Remove, entry, rest
<1> QED BY <1>10, <1>11, <1>12, <1>13, <1>14

-----------------------------------------------------------------------------
(* The end of a call.                                                      *)

\* What is registered of a DLL when the last step of a call on it is made.
LEMMA CallEnds ==
  ASSUME RInv, task # NoTask
  PROVE  \E d \in Dll :
           /\ task.dll = d /\ Task(task.op, d, task.rest) = task
           /\ task.op \in {"register"} \cup Undoing
           /\ task.rest = <<>> =>
                IF task.op = "register" THEN Complete(d)
                ELSE (Clean(d) => entries \cap Entries(d) = {})
<1>1. ASSUME NEW d \in Dll, NEW p \in 0..Len(Writes(d)), Registering(d, p), task.rest = <<>>
      PROVE  Complete(d)
  <2>1. task.rest = After(Writes(d), p) BY <1>1, TaskFields DEF Registering
  <2>2. CASE d = "tip"
    <3>1. p = Len(Writes("tip")) BY <2>1, <2>2, <1>1, TipWrites, AfterEnd
    <3>2. \A i \in 1..Len(Writes("tip")) : Writes("tip")[i] \in entries
      BY <3>1, <2>2, <1>1 DEF Registering, WrittenUpTo
    <3> QED BY <3>2, <2>2, TipWritesOnce DEF Complete
  <2>3. CASE d = "server"
    <3>1. Writes("server") = ServerEntries BY DEF Writes
    <3>2. ServerEntries \in Seq([key : Name, value : Name]) /\ Len(ServerEntries) = 5
      BY ServerWrites, Zenon
    <3>3. p = Len(ServerEntries) BY <2>1, <2>3, <1>1, <3>1, <3>2, AfterEnd
    <3>4. \A i \in 1..5 : HasEntry(ServerEntries[i])
      BY <3>2, <3>3, <2>3, <1>1 DEF Registering, WrittenUpTo
    <3>5. 1 \in 1..5 /\ 2 \in 1..5 /\ 3 \in 1..5 /\ 4 \in 1..5 /\ 5 \in 1..5 OBVIOUS
    <3>6. \A i \in 1..5 : /\ ServerEntries[i].key \in entries
                          /\ ServerEntries[i].value \in entries \cup unset
      BY <3>4 DEF HasEntry
    <3>7. Keys("server") \subseteq entries BY <3>5, <3>6, ServerWrites, EntriesOfServer
    <3>8. ServerNames \subseteq entries \cup unset
      BY <3>5, <3>6, ServerWrites DEF ServerNames
    <3> QED BY <3>7, <3>8, <2>3, EntriesOfServer DEF Complete
  <2> QED BY <2>2, <2>3 DEF Dll
<1>2. ASSUME NEW op \in Undoing, NEW d \in Dll, NEW p \in 0..Len(Removals(d)), Removing(op, d, p),
             task.rest = <<>>, Clean(d)
      PROVE  entries \cap Entries(d) = {}
  <2>1. task.rest = After(Removals(d), p) BY <1>2, TaskFields DEF Removing
  <2>2. Removals(d) \in Seq(Name) BY TipRemovals, ServerRemovals DEF Dll
  <2>3. p = Len(Removals(d)) /\ Len(Removals(d)) \in Nat BY <2>1, <2>2, <1>2, AfterEnd, LenProperties
  <2>4. (p + 1)..Len(Removals(d)) = {} BY <2>3
  <2> QED BY <2>4, <1>2 DEF Removing, Removed
<1>3. CASE \E d \in Dll : \E p \in 0..Len(Writes(d)) : Registering(d, p)
  <2>1. PICK d \in Dll : \E p \in 0..Len(Writes(d)) : Registering(d, p) BY <1>3
  <2>2. PICK p \in 0..Len(Writes(d)) : Registering(d, p) BY <2>1
  <2>3. task.op = "register" /\ task.dll = d /\ task = Task("register", d, task.rest)
    BY <2>2, TaskFields DEF Registering
  <2> QED BY <2>2, <2>3, <1>1
<1>4. CASE \E op \in Undoing : \E d \in Dll : \E p \in 0..Len(Removals(d)) : Removing(op, d, p)
  <2>1. PICK op \in Undoing, d \in Dll : (\E p \in 0..Len(Removals(d)) : Removing(op, d, p)) BY <1>4
  <2>2. PICK p \in 0..Len(Removals(d)) : Removing(op, d, p) BY <2>1
  <2>3. task.op = op /\ task.dll = d /\ task = Task(op, d, task.rest)
    BY <2>2, TaskFields DEF Removing
  <2>4. op # "register" BY DEF Undoing
  <2> QED BY <2>2, <2>3, <2>4, <1>2
<1> QED BY <1>3, <1>4 DEF RInv, InProgress

LEMMA ReturnKeeps ==
  ASSUME RInv, Return
  PROVE  RInv'
<1>1. task # NoTask /\ task.rest = <<>> /\ task' = NoTask /\ UNCHANGED <<entries, unset>> BY DEF Return
<1>2. PICK d \in Dll :
        /\ task.dll = d /\ task.op \in {"register"} \cup Undoing
        /\ IF task.op = "register" THEN Complete(d)
           ELSE (Clean(d) => entries \cap Entries(d) = {})
  BY <1>1, CallEnds
<1>3. answer \in [Dll -> {"none", "S_OK", "removed", "failed"}]
      /\ stuck \in SUBSET Dll /\ cut \in SUBSET Dll /\ AnnouncedIsLoadable
  BY DEF RInv
<1> DEFINE result == CASE task.op = "register" -> "S_OK" [] task.op = "unregister" -> "removed"
                       [] OTHER -> "failed"
<1>4. /\ result \in {"none", "S_OK", "removed", "failed"}
      /\ result = "S_OK" <=> task.op = "register"
  BY <1>2 DEF Undoing
<1>5. /\ answer' = [answer EXCEPT ![d] = result]
      /\ stuck' = IF task.op = "register" THEN stuck \ {d} ELSE stuck
      /\ cut' = IF task.op = "register" THEN cut \ {d} ELSE cut
  BY <1>2 DEF Return
<1> HIDE DEF result
<1>6. /\ answer' \in [Dll -> {"none", "S_OK", "removed", "failed"}]
      /\ stuck' \in SUBSET Dll /\ cut' \in SUBSET Dll
  BY <1>3, <1>4, <1>5
<1>7. answer'[d] = result /\ \A x \in Dll \ {d} : answer'[x] = answer[x] BY <1>3, <1>5
<1>8. Settled(d)'
  <2>1. CASE task.op = "register"
    <3>1. Complete(d)' BY <2>1, <1>1, <1>2 DEF Complete
    <3> QED BY <3>1, <2>1, <1>4, <1>7 DEF Settled
  <2>2. CASE task.op # "register"
    <3>1. stuck' = stuck /\ cut' = cut BY <2>2, <1>5
    <3> QED BY <3>1, <2>2, <1>1, <1>2, <1>4, <1>7 DEF Settled, Clean
  <2> QED BY <2>1, <2>2
<1>9. ASSUME NEW x \in Dll, x # d PROVE Settled(x)'
  <2>1. Settled(x) BY <1>2, <1>9 DEF RInv, Untouched
  <2>2. (x \in stuck' <=> x \in stuck) /\ (x \in cut' <=> x \in cut) BY <1>5, <1>9
  <2> QED BY <2>1, <2>2, <1>1, <1>7, <1>9, SettledStays
<1>10. AnnouncedIsLoadable'
  <2>1. CASE task.op = "register" /\ d = "tip"
    <3>1. Entries("tip") \subseteq entries BY <2>1, <1>2 DEF Complete
    <3> QED BY <3>1, <1>1, EntriesOfTip DEF AnnouncedIsLoadable, Loadable, TipNames
  <2>2. CASE ~(task.op = "register" /\ d = "tip")
    <3>1. "tip" \in stuck' <=> "tip" \in stuck BY <2>2, <1>5
    <3> QED BY <3>1, <1>1, <1>3 DEF AnnouncedIsLoadable, Loadable
  <2> QED BY <2>1, <2>2
<1> QED BY <1>1, <1>6, <1>8, <1>9, <1>10 DEF RInv, InProgress

LEMMA KilledKeeps ==
  ASSUME RInv, Killed
  PROVE  RInv'
<1>1. task # NoTask /\ task' = NoTask /\ UNCHANGED <<entries, stuck, unset>> BY DEF Killed
<1>2. PICK d \in Dll : task.dll = d BY <1>1, CallEnds
<1>3. answer' = [answer EXCEPT ![d] = "none"] /\ cut' = cut \cup {d} BY <1>2 DEF Killed
<1>4. answer \in [Dll -> {"none", "S_OK", "removed", "failed"}]
      /\ stuck \in SUBSET Dll /\ cut \in SUBSET Dll /\ AnnouncedIsLoadable
  BY DEF RInv
<1>5. /\ answer' \in [Dll -> {"none", "S_OK", "removed", "failed"}]
      /\ stuck' \in SUBSET Dll /\ cut' \in SUBSET Dll
  BY <1>1, <1>3, <1>4
<1>6. answer'[d] = "none" /\ \A x \in Dll \ {d} : answer'[x] = answer[x] BY <1>3, <1>4
<1>7. Settled(d)' BY <1>3, <1>6 DEF Settled, Clean
<1>8. ASSUME NEW x \in Dll, x # d PROVE Settled(x)'
  <2>1. Settled(x) BY <1>2, <1>8 DEF RInv, Untouched
  <2> QED BY <2>1, <1>1, <1>3, <1>6, <1>8, SettledStays
<1>9. AnnouncedIsLoadable' BY <1>1, <1>4 DEF AnnouncedIsLoadable, Loadable
<1> QED BY <1>1, <1>5, <1>7, <1>8, <1>9 DEF RInv, InProgress

LEMMA RegistrationStarts ==
  ASSUME RegistrationInit
  PROVE  RInv
<1>1. \A d \in Dll : Settled(d) BY DEF RegistrationInit, Settled
<1>2. AnnouncedIsLoadable BY DEF RegistrationInit, AnnouncedIsLoadable
<1> QED BY <1>1, <1>2 DEF RegistrationInit, RInv, InProgress

\* What is promised follows.
LEMMA AnswersFollow ==
  ASSUME RInv
  PROVE  AnswersTrue
<1> SUFFICES ASSUME NEW d \in Dll, Untouched(d)
             PROVE  /\ answer[d] = "S_OK" =>
                         IF d = "tip" THEN Entries(d) \subseteq entries
                         ELSE Keys(d) \subseteq entries /\ Entries(d) \subseteq entries \cup unset
                    /\ answer[d] \in {"removed", "failed"} /\ d \notin stuck \cup cut =>
                         entries \cap Entries(d) = {}
  BY DEF AnswersTrue, Untouched
<1>1. Settled(d) BY DEF RInv
<1> QED BY <1>1 DEF Settled, Complete, Clean

-----------------------------------------------------------------------------
(* The parts of the invariant of tip.dll in an application.                *)

Place == {"idle", "enter", "inside", "make", "leave", "look", "holds", "adding", "releasing"}

\* Between its DllGetClassObject and its last Release.
Holds(t) == at[t] \in {"holds", "adding", "releasing"}

InSection(t) == at[t] \in {"inside", "make", "leave"}

LockingThreads == {t \in Thread : locked[t]}

\* What a thread has, where it is.
Has(t) ==
  /\ Holds(t) => held[t] \in 1..made
  /\ at[t] = "releasing" => read[t] \in 1..MaxRefs /\ ~locked[t]
  /\ at[t] \in {"leave", "look"} => factory # 0
  /\ locked[t] => Holds(t)
  /\ at[t] # "idle" => loaded

Local == \A t \in Thread : Has(t)

\* One thread is in an undisturbed section, and makes the first factory.
Guarded ==
  ~disturbed =>
    /\ made <= 1
    /\ \A t \in Thread : (InSection(t) => section.owner = t) /\ (at[t] = "make" => factory = 0)

\* The uses of the DLL are more than the locks as long as a thread has the
\* factory.
Counted ==
  /\ IsFiniteSet(LockingThreads) /\ Cardinality(LockingThreads) <= uses
  /\ \A t \in Thread : Holds(t) => Cardinality(LockingThreads) < uses

\* Without a reference nothing is counted, and nothing is deleted.
Unshared ==
  ~shared =>
    /\ \A f \in Factory : refs[f] = 0
    /\ \A t \in Thread : at[t] \notin {"adding", "releasing"}
    /\ live = 1..made
    /\ ~disturbed => ~crashed

\* The inductive invariant of the application.
DInv == TipTypeOK /\ factory = made /\ Local /\ Guarded /\ Counted /\ Unshared

\* A thread goes to its next step, and the others stay where they are.
LEMMA Moved ==
  ASSUME TipTypeOK, NEW t \in Thread, NEW to \in Place, ThreadGoes(t, to)
  PROVE  /\ at' \in [Thread -> Place] /\ at'[t] = to
         /\ \A u \in Thread : u # t => at'[u] = at[u]
<1>1. at \in [Thread -> Place] BY DEF TipTypeOK, Place
<1> QED BY <1>1 DEF ThreadGoes

LEMMA TipTypes ==
  ASSUME TipTypeOK
  PROVE  /\ at \in [Thread -> Place] /\ held \in [Thread -> 0..made]
         /\ read \in [Thread -> 0..MaxRefs] /\ refs \in [Factory -> 0..MaxRefs]
         /\ own \in [Thread -> BOOLEAN] /\ locked \in [Thread -> BOOLEAN]
         /\ loaded \in BOOLEAN /\ disturbed \in BOOLEAN /\ shared \in BOOLEAN /\ crashed \in BOOLEAN
         /\ section \in [valid : BOOLEAN, owner : Thread \cup {Nobody}]
         /\ made \in 0..MaxFactories /\ factory \in 0..made /\ live \in SUBSET (1..made)
         /\ uses \in 0..MaxUses /\ made \in Nat /\ uses \in Nat
         /\ MaxFactories \in Nat \ {0} /\ MaxUses \in Nat \ {0} /\ MaxRefs \in Nat \ {0}
BY TipAssumption DEF TipTypeOK, Place

LEMMA HasElsewhere ==
  ASSUME Local, NEW t \in Thread, factory # 0 => factory' # 0, UNCHANGED <<made, loaded>>,
         \A u \in Thread : u # t => at'[u] = at[u],
         \A u \in Thread : u # t => held'[u] = held[u] /\ read'[u] = read[u] /\ locked'[u] = locked[u],
         Has(t)'
  PROVE  Local'
<1> SUFFICES ASSUME NEW u \in Thread, u # t PROVE Has(u)' BY DEF Local
<1>1. Has(u) BY DEF Local
<1>2. at'[u] = at[u] /\ held'[u] = held[u] /\ read'[u] = read[u] /\ locked'[u] = locked[u] OBVIOUS
<1> QED BY <1>1, <1>2 DEF Has, Holds

LEMMA StaysGuarded ==
  ASSUME Guarded, UNCHANGED <<disturbed, factory, made, section>>,
         \A u \in Thread : at'[u] = at[u] \/ at'[u] \notin {"inside", "make", "leave"}
  PROVE  Guarded'
BY DEF Guarded, InSection

LEMMA StaysCounted ==
  ASSUME Counted, UNCHANGED <<uses, locked>>, \A u \in Thread : Holds(u)' => Holds(u)
  PROVE  Counted'
BY DEF Counted, LockingThreads

LEMMA StaysUnshared ==
  ASSUME Unshared, UNCHANGED <<shared, refs, live, made, disturbed, crashed>>,
         \A u \in Thread : at'[u] = at[u] \/ at'[u] \notin {"adding", "releasing"}
  PROVE  Unshared'
<1>1. \A u \in Thread : at'[u] \in {"adding", "releasing"} => at[u] \in {"adding", "releasing"}
  OBVIOUS
<1> QED BY <1>1 DEF Unshared

Section == [valid : BOOLEAN, owner : Thread \cup {Nobody}]

LEMMA SectionIs ==
  ASSUME NEW v \in BOOLEAN, NEW o \in Thread \cup {Nobody}
  PROVE  [valid |-> v, owner |-> o] \in Section
BY DEF Section

LEMMA SectionOwned ==
  ASSUME NEW s \in Section, NEW o \in Thread \cup {Nobody}
  PROVE  /\ [s EXCEPT !.owner = o] \in Section
         /\ [s EXCEPT !.owner = o].owner = o
BY DEF Section

-----------------------------------------------------------------------------
(* DllMain and DllGetClassObject.                                          *)

LEMMA DllMainKeeps ==
  ASSUME DInv, Load \/ OtherThreadStarts \/ OtherThreadEnds
  PROVE  DInv'
<1>1. UNCHANGED <<factory, made, live, refs, uses, threadVars, shared, crashed>>
  BY DEF Load, OtherThreadStarts, OtherThreadEnds
<1>2. section' \in Section
  <2>1. TRUE \in BOOLEAN /\ FALSE \in BOOLEAN /\ Nobody \in Thread \cup {Nobody} OBVIOUS
  <2>2. FreshSection \in Section /\ [valid |-> FALSE, owner |-> Nobody] \in Section
    BY <2>1, SectionIs DEF FreshSection
  <2> QED BY <2>2, Zenon DEF Load, OtherThreadStarts, OtherThreadEnds
<1>3. disturbed \in BOOLEAN /\ loaded \in BOOLEAN BY TipTypes DEF DInv
<1>4. ASSUME disturbed' = (disturbed \/ InUse)
      PROVE  disturbed' \in BOOLEAN /\ (disturbed => disturbed')
  <2>1. disturbed \/ InUse \in BOOLEAN BY <1>3 DEF InUse
  <2>2. CASE disturbed \/ InUse BY <1>4, <2>2, Zenon
  <2>3. CASE ~(disturbed \/ InUse) BY <1>4, <2>3, Zenon
  <2> QED BY <2>2, <2>3
<1>5. loaded' \in BOOLEAN /\ disturbed' \in BOOLEAN /\ (disturbed => disturbed') /\ (loaded => loaded')
  <2>1. CASE Load BY <2>1, <1>3 DEF Load
  <2>2. CASE OtherThreadStarts BY <2>2, <1>3, <1>4 DEF OtherThreadStarts
  <2>3. CASE OtherThreadEnds BY <2>3, <1>3, <1>4 DEF OtherThreadEnds
  <2> QED BY <2>1, <2>2, <2>3
<1>6. TipTypeOK' BY <1>1, <1>2, <1>5 DEF DInv, TipTypeOK, threadVars, Factory, Section
<1>7. Local' BY <1>1, <1>5 DEF DInv, Local, Has, Holds, threadVars
<1>8. Counted' BY <1>1 DEF DInv, Counted, LockingThreads, Holds, threadVars
<1>9. Unshared' BY <1>1, <1>5 DEF DInv, Unshared, threadVars
<1>10. Guarded'
  <2>1. CASE OtherThreadStarts \/ OtherThreadEnds
    <3>1. disturbed' = (disturbed \/ InUse) BY <2>1 DEF OtherThreadStarts, OtherThreadEnds
    <3>2. SUFFICES ASSUME ~disturbed' PROVE Guarded' BY DEF Guarded
    <3>3. ~disturbed /\ ~InUse BY <3>1, <3>2, Zenon
    <3> QED BY <3>3, <1>1 DEF DInv, Guarded, InSection, InUse, threadVars
  <2>2. CASE Load
    <3>1. ~loaded /\ UNCHANGED disturbed BY <2>2 DEF Load
    <3>2. \A t \in Thread : at[t] = "idle" BY <3>1 DEF DInv, Local, Has
    <3> QED BY <3>1, <3>2, <1>1 DEF DInv, Guarded, InSection, threadVars
  <2> QED BY <2>1, <2>2
<1> QED BY <1>1, <1>6, <1>7, <1>8, <1>9, <1>10 DEF DInv

\* Only where the thread is changes.
LEMMA OnlyMoves ==
  ASSUME DInv, NEW t \in Thread, NEW to \in Place, ThreadGoes(t, to), loaded,
         UNCHANGED <<loaded, section, disturbed, factory, made, live, refs, uses, held, read, own, locked, shared, crashed>>
  PROVE  TipTypeOK' /\ UNCHANGED <<factory, made, uses, locked, disturbed>>
<1>1. at' \in [Thread -> Place] BY Moved DEF DInv
<1> QED BY <1>1 DEF DInv, TipTypeOK, Factory, Place

LEMMA GetClassObjectKeeps ==
  ASSUME DInv, NEW t \in Thread, DllGetClassObject(t)
  PROVE  DInv'
<1> DEFINE to == IF factory = 0 THEN "enter" ELSE "look"
<1>1. /\ loaded /\ at[t] = "idle" /\ ThreadGoes(t, to) /\ to \in {"enter", "look"}
      /\ UNCHANGED <<loaded, section, disturbed, factory, made, live, refs, uses, held, read, own, locked, shared, crashed>>
      /\ to = "look" => factory # 0
  BY DEF DllGetClassObject
<1> HIDE DEF to
<1>2. to \in Place BY <1>1 DEF Place
<1>3. TipTypeOK' BY <1>1, <1>2, OnlyMoves
<1>4. at'[t] = to /\ \A u \in Thread : u # t => at'[u] = at[u] BY <1>1, <1>2, Moved DEF DInv
<1>5. Has(t)' BY <1>1, <1>4 DEF DInv, Local, Has, Holds
<1>6. Local' BY <1>1, <1>4, <1>5, HasElsewhere DEF DInv
<1>7. Guarded' BY <1>1, <1>4, StaysGuarded DEF DInv
<1>8. Counted' BY <1>1, <1>4, StaysCounted DEF DInv, Holds
<1>9. Unshared' BY <1>1, <1>4, StaysUnshared DEF DInv
<1> QED BY <1>1, <1>3, <1>6, <1>7, <1>8, <1>9 DEF DInv

LEMMA EnterSectionKeeps ==
  ASSUME DInv, NEW t \in Thread, EnterSection(t)
  PROVE  DInv'
<1>1. /\ at[t] = "enter" /\ ThreadGoes(t, "inside")
      /\ UNCHANGED <<loaded, factory, made, live, refs, uses, held, read, own, locked, shared>>
  BY DEF EnterSection
<1>2. "inside" \in Place BY DEF Place
<1>3. at' \in [Thread -> Place] /\ at'[t] = "inside" /\ \A u \in Thread : u # t => at'[u] = at[u]
  BY <1>1, <1>2, Moved DEF DInv
<1>4. section \in Section /\ disturbed \in BOOLEAN /\ crashed \in BOOLEAN
  BY TipTypes DEF DInv, Section
<1>5. ASSUME section.owner = Nobody, section' = [section EXCEPT !.owner = t],
             UNCHANGED <<disturbed, crashed>>
      PROVE  TipTypeOK' /\ Guarded' /\ Unshared'
  <2>1. section' \in Section /\ section'.owner = t BY <1>4, <1>5, SectionOwned
  <2>2. TipTypeOK' BY <1>1, <1>3, <1>5, <2>1 DEF DInv, TipTypeOK, Place, Factory, Section
  <2>3. Guarded'
    <3>1. SUFFICES ASSUME ~disturbed PROVE Guarded' BY <1>5 DEF Guarded
    <3>2. \A u \in Thread : ~InSection(u) BY <3>1, <1>5, TipAssumption DEF DInv, Guarded
    <3> QED BY <3>1, <3>2, <2>1, <1>1, <1>3, <1>5 DEF DInv, Guarded, InSection
  <2>4. Unshared' BY <1>1, <1>3, <1>5, StaysUnshared DEF DInv
  <2> QED BY <2>2, <2>3, <2>4
<1>6. ASSUME disturbed' = TRUE, crashed' \in BOOLEAN, UNCHANGED section
      PROVE  TipTypeOK' /\ Guarded' /\ Unshared'
  <2>1. TipTypeOK' BY <1>1, <1>3, <1>6 DEF DInv, TipTypeOK, Place, Factory
  <2>2. Guarded' BY <1>6 DEF Guarded
  <2>3. Unshared' BY <1>1, <1>3, <1>6 DEF DInv, Unshared
  <2> QED BY <2>1, <2>2, <2>3
<1>7. TipTypeOK' /\ Guarded' /\ Unshared' BY <1>5, <1>6 DEF EnterSection
<1>8. Has(t)' BY <1>1, <1>3 DEF DInv, Local, Has, Holds
<1>9. Local' BY <1>1, <1>3, <1>8, HasElsewhere DEF DInv
<1>10. Counted' BY <1>1, <1>3, StaysCounted DEF DInv, Holds
<1> QED BY <1>1, <1>7, <1>9, <1>10 DEF DInv

LEMMA CheckAgainKeeps ==
  ASSUME DInv, NEW t \in Thread, CheckAgain(t)
  PROVE  DInv'
<1> DEFINE to == IF factory = 0 THEN "make" ELSE "leave"
<1>1. /\ at[t] = "inside" /\ ThreadGoes(t, to) /\ to \in {"make", "leave"}
      /\ UNCHANGED <<loaded, section, disturbed, factory, made, live, refs, uses, held, read, own, locked, shared, crashed>>
      /\ (to = "leave" => factory # 0) /\ (to = "make" => factory = 0)
  BY DEF CheckAgain
<1> HIDE DEF to
<1>2. to \in Place /\ loaded BY <1>1 DEF Place, DInv, Local, Has
<1>3. TipTypeOK' BY <1>1, <1>2, OnlyMoves
<1>4. at'[t] = to /\ \A u \in Thread : u # t => at'[u] = at[u] BY <1>1, <1>2, Moved DEF DInv
<1>5. Has(t)' BY <1>1, <1>2, <1>4 DEF DInv, Local, Has, Holds
<1>6. Local' BY <1>1, <1>4, <1>5, HasElsewhere DEF DInv
<1>7. Guarded' BY <1>1, <1>4 DEF DInv, Guarded, InSection
<1>8. Counted' BY <1>1, <1>4, StaysCounted DEF DInv, Holds
<1>9. Unshared' BY <1>1, <1>4, StaysUnshared DEF DInv
<1> QED BY <1>1, <1>3, <1>6, <1>7, <1>8, <1>9 DEF DInv

\* The first factory of an undisturbed section: nobody else is about to make
\* one.
LEMMA MakeFactoryKeeps ==
  ASSUME DInv, NEW t \in Thread, MakeFactory(t)
  PROVE  DInv'
<1>1. /\ at[t] = "make" /\ ThreadGoes(t, "leave") /\ made < MaxFactories
      /\ factory' = made + 1 /\ made' = made + 1 /\ live' = live \cup {made + 1}
      /\ UNCHANGED <<loaded, section, disturbed, refs, uses, held, read, own, locked, shared, crashed>>
  BY DEF MakeFactory
<1>2. "leave" \in Place BY DEF Place
<1>3. at' \in [Thread -> Place] /\ at'[t] = "leave" /\ \A u \in Thread : u # t => at'[u] = at[u]
  BY <1>1, <1>2, Moved DEF DInv
<1>4. /\ made \in Nat /\ MaxFactories \in Nat /\ live \in SUBSET (1..made)
      /\ held \in [Thread -> 0..made] /\ factory = made
  BY TipTypes DEF DInv
<1>5. TipTypeOK'
  <2>1. made' \in 0..MaxFactories /\ factory' \in 0..made' /\ live' \subseteq 1..made' BY <1>1, <1>4
  <2>2. held' \in [Thread -> 0..made'] BY <1>1, <1>4
  <2> QED BY <2>1, <2>2, <1>1, <1>3 DEF DInv, TipTypeOK, Place, Factory
<1>6. Local'
  <2> SUFFICES ASSUME NEW u \in Thread PROVE Has(u)' BY DEF Local
  <2>1. Has(u) /\ Has(t) BY DEF DInv, Local
  <2>2. \A x \in 1..made : x \in 1..made' BY <1>1, <1>4
  <2>3. factory' # 0 BY <1>1, <1>4
  <2> QED BY <2>1, <2>2, <2>3, <1>1, <1>3 DEF Has, Holds
<1>7. Guarded'
  <2>1. SUFFICES ASSUME ~disturbed PROVE Guarded' BY <1>1 DEF Guarded
  <2>2. /\ factory = 0 /\ section.owner = t
        /\ \A u \in Thread : InSection(u) => u = t
    BY <2>1, <1>1 DEF DInv, Guarded, InSection
  <2>3. made' <= 1 BY <2>2, <1>1, <1>4
  <2>4. ASSUME NEW u \in Thread, InSection(u)' PROVE section'.owner = u /\ at'[u] # "make"
    BY <2>2, <2>4, <1>1, <1>3 DEF InSection
  <2> QED BY <2>3, <2>4 DEF Guarded, InSection
<1>8. Counted' BY <1>1, <1>3, StaysCounted DEF DInv, Holds
<1>9. Unshared'
  <2>1. SUFFICES ASSUME ~shared PROVE Unshared' BY <1>1 DEF Unshared
  <2>2. live = 1..made BY <2>1 DEF DInv, Unshared
  <2>3. live' = 1..made' BY <2>2, <1>1, <1>4
  <2> QED BY <2>1, <2>3, <1>1, <1>3 DEF DInv, Unshared
<1> QED BY <1>1, <1>5, <1>6, <1>7, <1>8, <1>9 DEF DInv

LEMMA LeaveSectionKeeps ==
  ASSUME DInv, NEW t \in Thread, LeaveSection(t)
  PROVE  DInv'
<1>1. /\ at[t] = "leave" /\ ThreadGoes(t, "look")
      /\ section' = IF section.owner = t THEN [section EXCEPT !.owner = Nobody] ELSE section
      /\ UNCHANGED <<loaded, disturbed, factory, made, live, refs, uses, held, read, own, locked, shared, crashed>>
  BY DEF LeaveSection
<1>2. "look" \in Place /\ Nobody \in Thread \cup {Nobody} BY DEF Place
<1>3. at' \in [Thread -> Place] /\ at'[t] = "look" /\ \A u \in Thread : u # t => at'[u] = at[u]
  BY <1>1, <1>2, Moved DEF DInv
<1>4. section' \in Section BY <1>1, <1>2, TipTypes, SectionOwned DEF DInv, Section
<1>5. TipTypeOK' BY <1>1, <1>3, <1>4 DEF DInv, TipTypeOK, Place, Factory, Section
<1>6. Has(t) BY DEF DInv, Local
<1>7. Has(t)' BY <1>1, <1>3, <1>6 DEF Has, Holds
<1>8. Local' BY <1>1, <1>3, <1>7, HasElsewhere DEF DInv
<1>9. Guarded'
  <2>1. SUFFICES ASSUME ~disturbed PROVE Guarded' BY <1>1 DEF Guarded
  <2>2. \A u \in Thread : InSection(u) => u = t BY <2>1, <1>1 DEF DInv, Guarded, InSection
  <2>3. \A u \in Thread : at'[u] \notin {"inside", "make", "leave"}
    BY <2>2, <1>3 DEF InSection
  <2> QED BY <2>1, <2>3, <1>1 DEF DInv, Guarded, InSection
<1>10. Counted' BY <1>1, <1>3, StaysCounted DEF DInv, Holds
<1>11. Unshared' BY <1>1, <1>3, StaysUnshared DEF DInv
<1> QED BY <1>1, <1>5, <1>8, <1>9, <1>10, <1>11 DEF DInv

LEMMA GivePointerKeeps ==
  ASSUME DInv, NEW t \in Thread, GivePointer(t)
  PROVE  DInv'
<1>1. /\ at[t] = "look" /\ uses < MaxUses /\ ThreadGoes(t, "holds")
      /\ held' = [held EXCEPT ![t] = factory] /\ uses' = uses + 1
      /\ crashed' \in (IF factory \in live THEN {FALSE} ELSE BOOLEAN)
      /\ UNCHANGED <<loaded, section, disturbed, factory, made, live, refs, read, own, locked, shared>>
  BY DEF GivePointer
<1>2. "holds" \in Place BY DEF Place
<1>3. at' \in [Thread -> Place] /\ at'[t] = "holds" /\ \A u \in Thread : u # t => at'[u] = at[u]
  BY <1>1, <1>2, Moved DEF DInv
<1>4. /\ held \in [Thread -> 0..made] /\ factory = made /\ made \in Nat
      /\ uses \in Nat /\ MaxUses \in Nat \ {0}
  BY TipTypes DEF DInv
<1>5. Has(t) BY DEF DInv, Local
<1>6. factory \in 1..made BY <1>1, <1>4, <1>5 DEF Has
<1>7. /\ held' \in [Thread -> 0..made] /\ held'[t] = factory
      /\ \A u \in Thread : u # t => held'[u] = held[u]
  BY <1>1, <1>4
<1>8. uses' \in 0..MaxUses /\ crashed' \in BOOLEAN
  <2>1. CASE factory \in live
    <3>1. crashed' \in {FALSE} BY <2>1, <1>1
    <3>2. crashed' \in BOOLEAN BY <3>1, Zenon
    <3> QED BY <3>2, <1>1, <1>4
  <2>2. CASE factory \notin live BY <2>2, <1>1, <1>4
  <2> QED BY <2>1, <2>2
<1>9. TipTypeOK' BY <1>1, <1>3, <1>7, <1>8 DEF DInv, TipTypeOK, Place, Factory
<1>10. Has(t)' BY <1>1, <1>3, <1>5, <1>6, <1>7 DEF Has, Holds
<1>11. Local' BY <1>1, <1>3, <1>7, <1>10, HasElsewhere DEF DInv
<1>12. Guarded' BY <1>1, <1>3, StaysGuarded DEF DInv
<1>13. Counted'
  <2>1. LockingThreads' = LockingThreads BY <1>1 DEF LockingThreads
  <2>2. IsFiniteSet(LockingThreads) /\ Cardinality(LockingThreads) <= uses BY DEF DInv, Counted
  <2>3. Cardinality(LockingThreads) \in Nat BY <2>2, FS_CardinalityType
  <2> QED BY <2>1, <2>2, <2>3, <1>1, <1>4 DEF Counted
<1>14. Unshared'
  <2>1. SUFFICES ASSUME ~shared PROVE Unshared' BY <1>1 DEF Unshared
  <2>2. factory \in live BY <2>1, <1>6 DEF DInv, Unshared
  <2>3. ~crashed' BY <2>2, <1>1
  <2> QED BY <2>1, <2>3, <1>1, <1>3 DEF DInv, Unshared
<1> QED BY <1>1, <1>4, <1>9, <1>11, <1>12, <1>13, <1>14 DEF DInv

-----------------------------------------------------------------------------
(* What COM does with the factory.                                         *)

\* A thread that has the factory calls one that is there, as long as nobody
\* has taken a reference.
LEMMA Called ==
  ASSUME DInv, NEW t \in Thread, Holds(t), Calls(t)
  PROVE  /\ held[t] \in 1..made /\ held[t] \in Factory /\ loaded
         /\ crashed' \in BOOLEAN /\ (~shared => ~crashed')
<1>1. held[t] \in 1..made BY DEF DInv, Local, Has
<1>2. held[t] \in Factory BY <1>1, TipTypes DEF DInv, Factory
<1>3. crashed' = (held[t] \notin live) /\ loaded BY DEF Calls
<1>4. crashed' \in BOOLEAN /\ (held[t] \in live => ~crashed')
  <2>1. CASE held[t] \in live BY <2>1, <1>3, Zenon
  <2>2. CASE held[t] \notin live BY <2>2, <1>3, Zenon
  <2> QED BY <2>1, <2>2
<1>5. ~shared => held[t] \in live BY <1>1 DEF DInv, Unshared
<1> QED BY <1>1, <1>2, <1>3, <1>4, <1>5

LEMMA AddRefReadKeeps ==
  ASSUME DInv, NEW t \in Thread, AddRefRead(t)
  PROVE  DInv'
<1>1. /\ at[t] = "holds" /\ Calls(t) /\ ThreadGoes(t, "adding") /\ shared' = TRUE
      /\ read' = [read EXCEPT ![t] = refs[held[t]]]
      /\ UNCHANGED <<loaded, section, disturbed, factory, made, live, refs, uses, held, own, locked>>
  BY DEF AddRefRead
<1>2. "adding" \in Place BY DEF Place
<1>3. at' \in [Thread -> Place] /\ at'[t] = "adding" /\ \A u \in Thread : u # t => at'[u] = at[u]
  BY <1>1, <1>2, Moved DEF DInv
<1>4. held[t] \in 1..made /\ held[t] \in Factory /\ loaded /\ crashed' \in BOOLEAN
  BY <1>1, Called DEF Holds
<1>5. read \in [Thread -> 0..MaxRefs] /\ refs \in [Factory -> 0..MaxRefs] BY TipTypes DEF DInv
<1>6. /\ read' \in [Thread -> 0..MaxRefs]
      /\ \A u \in Thread : u # t => read'[u] = read[u]
  BY <1>1, <1>4, <1>5
<1>7. TipTypeOK' BY <1>1, <1>3, <1>4, <1>6 DEF DInv, TipTypeOK, Place, Factory
<1>8. Has(t)' BY <1>1, <1>3, <1>4 DEF Has, Holds
<1>9. Local' BY <1>1, <1>3, <1>6, <1>8, HasElsewhere DEF DInv
<1>10. Guarded' BY <1>1, <1>3, StaysGuarded DEF DInv
<1>11. Counted' BY <1>1, <1>3, StaysCounted DEF DInv, Holds
<1>12. Unshared' BY <1>1 DEF Unshared
<1> QED BY <1>1, <1>7, <1>9, <1>10, <1>11, <1>12 DEF DInv

\* Once a reference was taken nothing more is promised of the counts.
LEMMA OnceShared ==
  ASSUME DInv, NEW t \in Thread, at[t] \in {"adding", "releasing"}, UNCHANGED shared
  PROVE  Unshared'
<1>1. shared BY DEF DInv, Unshared
<1> QED BY <1>1 DEF Unshared

LEMMA AddRefWriteKeeps ==
  ASSUME DInv, NEW t \in Thread, AddRefWrite(t)
  PROVE  DInv'
<1>1. /\ at[t] = "adding" /\ Calls(t) /\ ThreadGoes(t, "holds") /\ read[t] < MaxRefs
      /\ refs' = [refs EXCEPT ![held[t]] = read[t] + 1]
      /\ own' = [own EXCEPT ![t] = TRUE]
      /\ read' = [read EXCEPT ![t] = 0]
      /\ UNCHANGED <<loaded, section, disturbed, factory, made, live, uses, held, locked, shared>>
  BY DEF AddRefWrite
<1>2. "holds" \in Place BY DEF Place
<1>3. at' \in [Thread -> Place] /\ at'[t] = "holds" /\ \A u \in Thread : u # t => at'[u] = at[u]
  BY <1>1, <1>2, Moved DEF DInv
<1>4. held[t] \in 1..made /\ held[t] \in Factory /\ loaded /\ crashed' \in BOOLEAN
  BY <1>1, Called DEF Holds
<1>5. /\ read \in [Thread -> 0..MaxRefs] /\ refs \in [Factory -> 0..MaxRefs]
      /\ own \in [Thread -> BOOLEAN] /\ MaxRefs \in Nat \ {0}
  BY TipTypes DEF DInv
<1>6. read' \in [Thread -> 0..MaxRefs] /\ \A u \in Thread : u # t => read'[u] = read[u]
  BY <1>1, <1>5
<1>7. read[t] + 1 \in 0..MaxRefs BY <1>1, <1>5
<1>8. refs' \in [Factory -> 0..MaxRefs] BY <1>1, <1>5, <1>7
<1>9. own' \in [Thread -> BOOLEAN] BY <1>1, <1>5
<1>10. TipTypeOK' BY <1>1, <1>3, <1>4, <1>6, <1>8, <1>9 DEF DInv, TipTypeOK, Place, Factory
<1>11. Has(t)' BY <1>1, <1>3, <1>4 DEF Has, Holds
<1>12. Local' BY <1>1, <1>3, <1>6, <1>11, HasElsewhere DEF DInv
<1>13. Guarded' BY <1>1, <1>3, StaysGuarded DEF DInv
<1>14. Counted' BY <1>1, <1>3, StaysCounted DEF DInv, Holds
<1>15. Unshared' BY <1>1, OnceShared
<1> QED BY <1>1, <1>10, <1>12, <1>13, <1>14, <1>15 DEF DInv

LEMMA ReleaseReadKeeps ==
  ASSUME DInv, NEW t \in Thread, ReleaseRead(t)
  PROVE  DInv'
<1>1. /\ at[t] = "holds" /\ ~locked[t] /\ Calls(t)
      /\ UNCHANGED <<loaded, section, disturbed, factory, made, live, refs, uses, locked, shared>>
  BY DEF ReleaseRead
<1>2. /\ held[t] \in 1..made /\ held[t] \in Factory /\ loaded /\ crashed' \in BOOLEAN
      /\ ~shared => ~crashed'
  BY <1>1, Called DEF Holds
<1>3. /\ read \in [Thread -> 0..MaxRefs] /\ refs \in [Factory -> 0..MaxRefs]
      /\ own \in [Thread -> BOOLEAN] /\ held \in [Thread -> 0..made] /\ MaxRefs \in Nat \ {0}
      /\ made \in Nat
  BY TipTypes DEF DInv
\* What either branch leaves is enough.
<1>4. ASSUME NEW to \in {"holds", "idle", "releasing"}, ThreadGoes(t, to), own' \in [Thread -> BOOLEAN],
             held' \in [Thread -> 0..made], \A u \in Thread : u # t => held'[u] = held[u],
             read' \in [Thread -> 0..MaxRefs], \A u \in Thread : u # t => read'[u] = read[u],
             to \in {"holds", "releasing"} => held'[t] = held[t],
             to = "releasing" => read'[t] \in 1..MaxRefs /\ shared
      PROVE  DInv'
  <2>1. to \in Place BY <1>4 DEF Place
  <2>2. at' \in [Thread -> Place] /\ at'[t] = to /\ \A u \in Thread : u # t => at'[u] = at[u]
    BY <2>1, <1>4, Moved DEF DInv
  <2>3. TipTypeOK' BY <2>2, <1>1, <1>2, <1>4 DEF DInv, TipTypeOK, Place, Factory
  <2>4. Has(t)' BY <2>2, <1>1, <1>2, <1>4 DEF Has, Holds
  <2>5. Local' BY <2>2, <2>4, <1>1, <1>4, HasElsewhere DEF DInv
  <2>6. Guarded' BY <2>2, <1>1, <1>4, StaysGuarded DEF DInv
  <2>7. Counted' BY <2>2, <1>1, StaysCounted DEF DInv, Holds
  <2>8. Unshared'
    <3>1. SUFFICES ASSUME ~shared PROVE Unshared' BY <1>1 DEF Unshared
    <3> QED BY <3>1, <2>2, <1>1, <1>2, <1>4 DEF DInv, Unshared
  <2> QED BY <2>3, <2>5, <2>6, <2>7, <2>8, <1>1 DEF DInv
<1>5. CASE refs[held[t]] = 0
  <2>1. /\ own' = [own EXCEPT ![t] = FALSE]
        /\ held' = IF own[t] THEN held ELSE [held EXCEPT ![t] = 0]
        /\ ThreadGoes(t, IF own[t] THEN "holds" ELSE "idle") /\ UNCHANGED read
    BY <1>5 DEF ReleaseRead
  <2>2. own' \in [Thread -> BOOLEAN] BY <2>1, <1>3
  <2>3. CASE own[t] BY <2>1, <2>2, <2>3, <1>3, <1>4
  <2>4. CASE ~own[t]
    <3>1. held' \in [Thread -> 0..made] /\ \A u \in Thread : u # t => held'[u] = held[u]
      BY <2>1, <2>4, <1>3
    <3>2. ThreadGoes(t, "idle") BY <2>1, <2>4
    <3> QED BY <3>1, <3>2, <2>1, <2>2, <1>3, <1>4
  <2> QED BY <2>3, <2>4
<1>6. CASE refs[held[t]] # 0
  <2>1. /\ read' = [read EXCEPT ![t] = refs[held[t]]] /\ ThreadGoes(t, "releasing") /\ UNCHANGED <<held, own>>
    BY <1>6 DEF ReleaseRead
  <2>2. refs[held[t]] \in 1..MaxRefs BY <1>2, <1>3, <1>6
  <2>3. read' \in [Thread -> 0..MaxRefs] /\ read'[t] \in 1..MaxRefs
        /\ \A u \in Thread : u # t => read'[u] = read[u]
    BY <2>1, <2>2, <1>3
  <2>4. shared BY <2>2, <1>2 DEF DInv, Unshared
  <2> QED BY <2>1, <2>3, <2>4, <1>3, <1>4
<1> QED BY <1>5, <1>6

LEMMA ReleaseWriteKeeps ==
  ASSUME DInv, NEW t \in Thread, ReleaseWrite(t)
  PROVE  DInv'
<1> DEFINE to == IF own[t] THEN "holds" ELSE "idle"
<1>1. /\ at[t] = "releasing" /\ Calls(t) /\ ThreadGoes(t, to) /\ to \in {"holds", "idle"}
      /\ refs' = [refs EXCEPT ![held[t]] = read[t] - 1]
      /\ live' = IF read[t] = 1 THEN live \ {held[t]} ELSE live
      /\ read' = [read EXCEPT ![t] = 0]
      /\ own' = [own EXCEPT ![t] = FALSE]
      /\ held' = IF to = "holds" THEN held ELSE [held EXCEPT ![t] = 0]
      /\ UNCHANGED <<loaded, section, disturbed, factory, made, uses, locked, shared>>
  BY DEF ReleaseWrite
<1> HIDE DEF to
<1>2. to \in Place BY <1>1 DEF Place
<1>3. at' \in [Thread -> Place] /\ at'[t] = to /\ \A u \in Thread : u # t => at'[u] = at[u]
  BY <1>1, <1>2, Moved DEF DInv
<1>4. held[t] \in 1..made /\ held[t] \in Factory /\ loaded /\ crashed' \in BOOLEAN
  BY <1>1, Called DEF Holds
<1>5. /\ read \in [Thread -> 0..MaxRefs] /\ refs \in [Factory -> 0..MaxRefs]
      /\ own \in [Thread -> BOOLEAN] /\ held \in [Thread -> 0..made] /\ MaxRefs \in Nat \ {0}
      /\ made \in Nat /\ live \in SUBSET (1..made)
  BY TipTypes DEF DInv
<1>6. Has(t) BY DEF DInv, Local
<1>7. read' \in [Thread -> 0..MaxRefs] /\ \A u \in Thread : u # t => read'[u] = read[u]
  BY <1>1, <1>5
<1>8. refs' \in [Factory -> 0..MaxRefs]
  <2>1. read[t] - 1 \in 0..MaxRefs BY <1>1, <1>5, <1>6 DEF Has
  <2> QED BY <2>1, <1>1, <1>5
<1>9. own' \in [Thread -> BOOLEAN] /\ live' \in SUBSET (1..made) BY <1>1, <1>5
<1>10. /\ held' \in [Thread -> 0..made] /\ \A u \in Thread : u # t => held'[u] = held[u]
       /\ to = "holds" => held'[t] = held[t]
  BY <1>1, <1>5
<1>11. TipTypeOK' BY <1>1, <1>3, <1>4, <1>7, <1>8, <1>9, <1>10 DEF DInv, TipTypeOK, Place, Factory
<1>12. Has(t)'
  <2>1. ~locked'[t] BY <1>1, <1>6 DEF Has
  <2> QED BY <2>1, <1>1, <1>3, <1>4, <1>10 DEF Has, Holds
<1>13. Local' BY <1>1, <1>3, <1>7, <1>10, <1>12, HasElsewhere DEF DInv
<1>14. Guarded' BY <1>1, <1>3, StaysGuarded DEF DInv
<1>15. Counted' BY <1>1, <1>3, StaysCounted DEF DInv, Holds
<1>16. Unshared' BY <1>1, OnceShared
<1> QED BY <1>1, <1>11, <1>13, <1>14, <1>15, <1>16 DEF DInv

LEMMA LockKeeps ==
  ASSUME DInv, NEW t \in Thread, Lock(t)
  PROVE  DInv'
<1>1. /\ at[t] = "holds" /\ ~locked[t] /\ Calls(t) /\ uses < MaxUses /\ uses' = uses + 1
      /\ locked' = [locked EXCEPT ![t] = TRUE]
      /\ UNCHANGED <<loaded, section, disturbed, factory, made, live, refs, at, held, read, own, shared>>
  BY DEF Lock
<1>2. loaded /\ crashed' \in BOOLEAN /\ (~shared => ~crashed') BY <1>1, Called DEF Holds
<1>3. locked \in [Thread -> BOOLEAN] /\ uses \in Nat /\ MaxUses \in Nat \ {0} BY TipTypes DEF DInv
<1>4. locked' \in [Thread -> BOOLEAN] /\ uses' \in 0..MaxUses BY <1>1, <1>3
<1>5. TipTypeOK' BY <1>1, <1>2, <1>4 DEF DInv, TipTypeOK, Factory
<1>6. Has(t)' BY <1>1 DEF DInv, Local, Has, Holds
<1>7. \A u \in Thread : u # t => locked'[u] = locked[u] BY <1>1, <1>3
<1>8. Local' BY <1>1, <1>6, <1>7, HasElsewhere DEF DInv
<1>9. Guarded' BY <1>1, StaysGuarded DEF DInv
<1>10. Counted'
  <2>1. LockingThreads' = LockingThreads \cup {t} /\ t \notin LockingThreads BY <1>1, <1>3 DEF LockingThreads
  <2>2. IsFiniteSet(LockingThreads) /\ Cardinality(LockingThreads) < uses BY <1>1 DEF DInv, Counted, Holds
  <2>3. /\ IsFiniteSet(LockingThreads') /\ Cardinality(LockingThreads') = Cardinality(LockingThreads) + 1
        /\ Cardinality(LockingThreads) \in Nat
    BY <2>1, <2>2, FS_AddElement, FS_CardinalityType
  <2>4. Cardinality(LockingThreads') < uses' BY <2>2, <2>3, <1>1, <1>3
  <2>5. Cardinality(LockingThreads') <= uses' BY <2>3, <2>4, <1>4
  <2> QED BY <2>3, <2>4, <2>5 DEF Counted
<1>11. Unshared' BY <1>1, <1>2 DEF DInv, Unshared
<1> QED BY <1>1, <1>5, <1>8, <1>9, <1>10, <1>11 DEF DInv

\* The last unlock leaves the uses that were counted with the pointers.
LEMMA UnlockKeeps ==
  ASSUME DInv, NEW t \in Thread, Unlock(t)
  PROVE  DInv'
<1>1. /\ at[t] = "holds" /\ locked[t] /\ Calls(t) /\ uses' = uses - 1
      /\ live' = IF uses' <= 0 THEN live \ {factory} ELSE live
      /\ locked' = [locked EXCEPT ![t] = FALSE]
      /\ UNCHANGED <<loaded, section, disturbed, factory, made, refs, at, held, read, own, shared>>
  BY DEF Unlock
<1>2. loaded /\ crashed' \in BOOLEAN /\ (~shared => ~crashed') BY <1>1, Called DEF Holds
<1>3. locked \in [Thread -> BOOLEAN] /\ uses \in 0..MaxUses /\ MaxUses \in Nat \ {0}
  BY TipTypes DEF DInv
<1>4. LockingThreads' = LockingThreads \ {t} /\ t \in LockingThreads BY <1>1, <1>3 DEF LockingThreads
<1>5. IsFiniteSet(LockingThreads) /\ Cardinality(LockingThreads) < uses BY <1>1 DEF DInv, Counted, Holds
<1>6. /\ IsFiniteSet(LockingThreads') /\ Cardinality(LockingThreads') = Cardinality(LockingThreads) - 1
      /\ Cardinality(LockingThreads) \in Nat /\ Cardinality(LockingThreads') \in Nat
  BY <1>4, <1>5, FS_RemoveElement, FS_CardinalityType
<1>7. 0 < uses' /\ uses' \in 0..MaxUses /\ Cardinality(LockingThreads') < uses' BY <1>1, <1>3, <1>5, <1>6
<1>8. live' = live
  <2>1. ~(uses' <= 0) BY <1>7, <1>3
  <2> QED BY <2>1, <1>1
<1>9. locked' \in [Thread -> BOOLEAN] /\ \A u \in Thread : u # t => locked'[u] = locked[u]
  BY <1>1, <1>3
<1>10. TipTypeOK' BY <1>1, <1>2, <1>7, <1>8, <1>9 DEF DInv, TipTypeOK, Factory
<1>11. Has(t)' BY <1>1 DEF DInv, Local, Has, Holds
<1>12. Local' BY <1>1, <1>9, <1>11, HasElsewhere DEF DInv
<1>13. Guarded' BY <1>1, StaysGuarded DEF DInv
<1>14. Counted'
  <2>1. Cardinality(LockingThreads') <= uses' BY <1>6, <1>7, <1>3
  <2> QED BY <2>1, <1>6, <1>7 DEF Counted
<1>15. Unshared' BY <1>1, <1>2, <1>8 DEF DInv, Unshared
<1> QED BY <1>1, <1>10, <1>12, <1>13, <1>14, <1>15 DEF DInv

-----------------------------------------------------------------------------
(* The invariant of both, and what follows from it.                        *)

ThreadStep(t) ==
  \/ DllGetClassObject(t) \/ EnterSection(t) \/ CheckAgain(t) \/ MakeFactory(t) \/ LeaveSection(t)
  \/ GivePointer(t) \/ AddRefRead(t) \/ AddRefWrite(t) \/ ReleaseRead(t) \/ ReleaseWrite(t)
  \/ Lock(t) \/ Unlock(t)

LEMMA ThreadStepKeeps ==
  ASSUME DInv, NEW t \in Thread, ThreadStep(t)
  PROVE  DInv'
BY GetClassObjectKeeps, EnterSectionKeeps, CheckAgainKeeps, MakeFactoryKeeps, LeaveSectionKeeps,
   GivePointerKeeps, AddRefReadKeeps, AddRefWriteKeeps, ReleaseReadKeeps, ReleaseWriteKeeps,
   LockKeeps, UnlockKeeps, Zenon DEF ThreadStep

LEMMA NothingInstalled ==
  ASSUME Load \/ OtherThreadStarts \/ OtherThreadEnds \/ \E t \in Thread : ThreadStep(t)
  PROVE  UNCHANGED registrationVars
<1>1. ASSUME NEW t \in Thread, ThreadStep(t) PROVE UNCHANGED registrationVars
  BY <1>1, Zenon DEF ThreadStep, DllGetClassObject, EnterSection, CheckAgain, MakeFactory, LeaveSection,
     GivePointer, AddRefRead, AddRefWrite, ReleaseRead, ReleaseWrite, Lock, Unlock
<1> QED BY <1>1, Zenon DEF Load, OtherThreadStarts, OtherThreadEnds

LEMMA RegistrationStays ==
  ASSUME RInv, UNCHANGED registrationVars
  PROVE  RInv'
<1>1. UNCHANGED <<entries, task, answer, stuck, cut, unset>> BY DEF registrationVars
<1>2. \A d : (Clean(d)' <=> Clean(d)) /\ (Complete(d)' <=> Complete(d)) /\ (Settled(d)' <=> Settled(d))
  BY <1>1 DEF Clean, Complete, Settled
<1>3. \A d, p : (Registering(d, p)' <=> Registering(d, p))
  BY <1>1, <1>2 DEF Registering, WrittenUpTo, HasEntry, InOrder
<1>4. \A op, d, p : (Removing(op, d, p)' <=> Removing(op, d, p))
  BY <1>1, <1>2 DEF Removing, Removed
<1>5. InProgress' <=> InProgress BY <1>1, <1>3, <1>4, Zenon DEF InProgress
<1> QED BY <1>1, <1>2, <1>5 DEF RInv, Untouched, AnnouncedIsLoadable, Loadable

LEMMA TipStays ==
  ASSUME DInv, UNCHANGED tipVars
  PROVE  DInv'
<1>1. UNCHANGED <<loaded, section, disturbed, factory, made, live, refs, uses, at, held, read, own, locked, shared, crashed>>
  BY DEF tipVars, threadVars
<1>2. TipTypeOK' BY <1>1 DEF DInv, TipTypeOK, Factory
<1>3. Local' BY <1>1 DEF DInv, Local, Has, Holds
<1>4. Guarded' BY <1>1 DEF DInv, Guarded, InSection
<1>5. Counted' BY <1>1, StaysCounted DEF DInv, Holds
<1>6. Unshared' BY <1>1 DEF DInv, Unshared
<1> QED BY <1>1, <1>2, <1>3, <1>4, <1>5, <1>6 DEF DInv

LEMMA TipStarts ==
  ASSUME TipInit
  PROVE  DInv
<1>1. /\ loaded = FALSE /\ section = [valid |-> FALSE, owner |-> Nobody]
      /\ disturbed = FALSE /\ factory = 0 /\ made = 0 /\ live = {} /\ uses = 0
      /\ refs = [f \in Factory |-> 0]
      /\ at = [t \in Thread |-> "idle"] /\ held = [t \in Thread |-> 0] /\ read = [t \in Thread |-> 0]
      /\ own = [t \in Thread |-> FALSE] /\ locked = [t \in Thread |-> FALSE]
      /\ shared = FALSE /\ crashed = FALSE
  BY DEF TipInit
<1>2. MaxFactories \in Nat /\ MaxUses \in Nat /\ MaxRefs \in Nat BY TipAssumption
<1>3. section \in Section
  <2>1. FALSE \in BOOLEAN /\ Nobody \in Thread \cup {Nobody} OBVIOUS
  <2> QED BY <2>1, <1>1, SectionIs
<1>4. /\ at \in [Thread -> Place] /\ held \in [Thread -> 0..made] /\ read \in [Thread -> 0..MaxRefs]
      /\ refs \in [Factory -> 0..MaxRefs]
      /\ own \in [Thread -> BOOLEAN] /\ locked \in [Thread -> BOOLEAN]
  BY <1>1, <1>2 DEF Place
<1>5. made \in 0..MaxFactories /\ factory \in 0..made /\ live \subseteq 1..made /\ uses \in 0..MaxUses
  BY <1>1, <1>2
<1>6. TipTypeOK BY <1>1, <1>3, <1>4, <1>5 DEF TipTypeOK, Place, Section
<1>7. Local BY <1>1 DEF Local, Has, Holds
<1>8. Guarded BY <1>1 DEF Guarded, InSection
<1>9. Counted
  <2>1. LockingThreads = {} BY <1>1 DEF LockingThreads
  <2>2. \A t \in Thread : ~Holds(t) BY <1>1 DEF Holds
  <2> QED BY <2>1, <2>2, <1>1, FS_EmptySet DEF Counted
<1>10. Unshared
  <2>1. live = 1..made BY <1>1
  <2> QED BY <2>1, <1>1 DEF Unshared
<1> QED BY <1>1, <1>6, <1>7, <1>8, <1>9, <1>10 DEF DInv

\* At every step, whichever call of the system fails, wherever the process of
\* an installation ends and however the threads of an application interleave,
\* both parts of the invariant hold.
THEOREM TipInvariance == TipSpec => [](RInv /\ DInv)
<1>1. TipInit => RInv /\ DInv BY RegistrationStarts, TipStarts DEF TipInit
<1>2. RInv /\ DInv /\ [TipNext]_dllVars => (RInv /\ DInv)'
  <2> SUFFICES ASSUME RInv, DInv, [TipNext]_dllVars PROVE RInv' /\ DInv' OBVIOUS
  <2>1. CASE UNCHANGED dllVars BY <2>1, RegistrationStays, TipStays DEF dllVars
  <2>2. ASSUME NEW dll \in Dll, (Register(dll) \/ Unregister(dll)) /\ Installing
        PROVE  RInv' /\ DInv'
    BY <2>2, RegisterKeeps, TipStays DEF Installing
  <2>3. CASE (Write \/ Remove \/ Return \/ Killed) /\ Installing
    BY <2>3, WriteKeeps, RemoveKeeps, ReturnKeeps, KilledKeeps, TipStays DEF Installing
  <2>4. CASE Load \/ OtherThreadStarts \/ OtherThreadEnds
    BY <2>4, NothingInstalled, RegistrationStays, DllMainKeeps
  <2>5. ASSUME NEW t \in Thread, ThreadStep(t) PROVE RInv' /\ DInv'
    BY <2>5, NothingInstalled, RegistrationStays, ThreadStepKeeps
  <2> QED BY <2>1, <2>2, <2>3, <2>4, <2>5, Zenon DEF TipNext, ThreadStep
<1> QED BY <1>1, <1>2, PTL DEF TipSpec

\* What DllRegisterServer and DllUnregisterServer answer is so, for every list
\* of categories and every number of failures.  S_OK of com-ime-server.dll
\* promises its keys, and its values except those that could not be set; a
\* failure or a removal promises nothing when an entry could not be removed or
\* a call was cut off.
THEOREM AnswersAreTrue == TipSpec => []AnswersTrue
<1>1. RInv => AnswersTrue BY AnswersFollow
<1> QED BY <1>1, TipInvariance, PTL

\* The framework is never told of a text service that COM cannot load.
THEOREM NeverAnnouncedUnloadable == TipSpec => []AnnouncedIsLoadable
<1>1. RInv => AnnouncedIsLoadable BY DEF RInv
<1> QED BY <1>1, TipInvariance, PTL

\* However many threads ask for the class, one factory is made, unless the
\* section was disturbed.
THEOREM ThreadsShareOneFactory == TipSpec => []OneFactory
<1>1. DInv => OneFactory BY DEF DInv, Guarded, OneFactory
<1> QED BY <1>1, TipInvariance, PTL

\* However many threads lock and release it, the factory stays until one takes
\* a reference of its own.
THEOREM FactoryStays == TipSpec => []FactoryKept
<1>1. DInv => FactoryKept BY DEF DInv, Unshared, FactoryKept
<1> QED BY <1>1, TipInvariance, PTL

\* The state of tip.dll has its type: no count goes below zero, and the
\* factory a thread has is one that was made.
THEOREM TipTypeCorrect == TipSpec => []TipTypeOK
<1>1. DInv => TipTypeOK BY DEF DInv
<1> QED BY <1>1, TipInvariance, PTL
=============================================================================
