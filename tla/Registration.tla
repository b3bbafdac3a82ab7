---------------------------- MODULE Registration ----------------------------
(***************************************************************************)
(* What DllRegisterServer and DllUnregisterServer of tip.dll and of        *)
(* com-ime-server.dll do to the system, entry by entry: the keys and       *)
(* values that let COM load a DLL, and the profile and the categories that *)
(* let the text services framework offer the text service.  regsvr32 runs  *)
(* one of them at a time; each call may fail, and the process may end.     *)
(***************************************************************************)
EXTENDS Integers, Sequences

CONSTANTS
  Categories,  \* kCategories, the categories of the text service
  MaxFailures  \* bound of the model: the calls of the system that fail

Dll == {"tip", "server"}

\* The keys and values of the text service's CLSID, and its threading model.
ComEntries == <<"clsid", "description", "inproc", "path", "model">>

\* The text service and its language profile.
ProfileEntries == <<"service", "language">>

\* Categories have names of their own.
ASSUME RegistrationAssumption ==
  /\ MaxFailures \in Nat
  /\ Categories \in Seq(STRING)
  /\ \A i, j \in 1..Len(Categories) : Categories[i] = Categories[j] => i = j
  /\ \A i \in 1..Len(Categories) :
       Categories[i] \notin {"clsid", "description", "inproc", "path", "model", "service", "language",
                            "server clsid", "server name", "server app", "server inproc",
                            "server path", "server model", "app", "surrogate"}

VARIABLES
  entries,   \* what is registered
  task,      \* the call in progress, with the steps left
  answer,    \* of each DLL, what the last call on it came to
  stuck,     \* the DLLs of which an entry could not be removed since they were complete
  cut,       \* the DLLs a call on which was cut off since they were complete
  unset,     \* the values of the server that could not be set when they were last written
  failures   \* the calls of the system that failed

registrationVars == <<entries, task, answer, stuck, cut, unset, failures>>

-----------------------------------------------------------------------------
CategoryNames == {Categories[k] : k \in 1..Len(Categories)}

\* g_entries: a key and a value each.
ServerEntries ==
  <<[key |-> "server clsid", value |-> "server name"],
    [key |-> "server clsid", value |-> "server app"],
    [key |-> "server inproc", value |-> "server path"],
    [key |-> "server inproc", value |-> "server model"],
    [key |-> "app", value |-> "surrogate"]>>

\* The entries written for a DLL, in order: COM's before the framework's.
Writes(dll) ==
  IF dll = "tip" THEN ComEntries \o ProfileEntries \o Categories ELSE ServerEntries

Removals_ComFirst(dll) ==
  IF dll = "tip" THEN <<"inproc", "clsid">> \o Categories \o <<"service">>
  ELSE [k \in 1..Len(ServerEntries) |-> ServerEntries[Len(ServerEntries) + 1 - k].key]

Removals_InOrder(dll) ==
  IF dll = "tip" THEN Categories \o <<"service", "inproc", "clsid">>
  ELSE [k \in 1..Len(ServerEntries) |-> ServerEntries[k].key]

\* What UnregisterCategories is followed by: the framework's entry before
\* COM's, a subkey before its key.
AfterCategories == <<"service", "inproc", "clsid">>

\* The entries removed, in order.  Those of the server are the keys of
\* g_entries backwards.
Removals(dll) ==
  IF dll = "tip" THEN Categories \o AfterCategories
  ELSE [k \in 1..Len(ServerEntries) |-> ServerEntries[Len(ServerEntries) + 1 - k].key]

\* What goes with an entry: the values with their key, the language profiles
\* with the text service.
With(entry) ==
  CASE entry = "clsid" -> {"clsid", "description"}
    [] entry = "inproc" -> {"inproc", "path", "model"}
    [] entry = "service" -> {"service", "language"}
    [] entry = "server clsid" -> {"server clsid", "server name", "server app"}
    [] entry = "server inproc" -> {"server inproc", "server path", "server model"}
    [] entry = "app" -> {"app", "surrogate"}
    [] OTHER -> {entry}

Keys(dll) == {Removals(dll)[k] : k \in 1..Len(Removals(dll))}

Entries(dll) == UNION {With(key) : key \in Keys(dll)}

NoTask == [op |-> "none"]

Task(op, dll, rest) == [op |-> op, dll |-> dll, rest |-> rest]

\* COM finds the DLL of the text service.
Loadable == {"clsid", "inproc", "path"} \subseteq entries

RegistrationInit ==
  /\ entries = {}
  /\ task = NoTask
  /\ answer = [d \in Dll |-> "none"]
  /\ stuck = {} /\ cut = {} /\ unset = {}
  /\ failures = 0

-----------------------------------------------------------------------------
Fails == failures < MaxFailures /\ failures' = failures + 1

Works == UNCHANGED failures

\* DllRegisterServer.
Register(dll) ==
  /\ task = NoTask
  /\ task' = Task("register", dll, Writes(dll))
  /\ UNCHANGED <<entries, answer, stuck, cut, unset, failures>>

\* DllUnregisterServer.
Unregister(dll) ==
  /\ task = NoTask
  /\ task' = Task("unregister", dll, Removals(dll))
  /\ UNCHANGED <<entries, answer, stuck, cut, unset, failures>>

\* The steps left of the call.
Continue(rest) == task' = Task(task.op, task.dll, rest)

\* A failed registration removes everything, also what was there before.
RollBack == task' = Task("roll back", task.dll, Removals(task.dll))

\* An entry of tip.dll is written, or what is there is removed.
WriteTip ==
  /\ task.dll = "tip" /\ UNCHANGED <<cut, unset>>
  /\ \/ Works /\ entries' = entries \cup {Head(task.rest)} /\ Continue(Tail(task.rest))
     \/ Fails /\ UNCHANGED entries /\ RollBack

\* The server's key is created or there already; whether its value could be
\* set is not looked at.
WriteServer ==
  LET entry == Head(task.rest)
  IN  /\ task.dll = "server" /\ UNCHANGED cut
      /\ \/ /\ Works /\ Continue(Tail(task.rest))
            /\ entries' = entries \cup {entry.key, entry.value}
            /\ unset' = unset \ {entry.value}
         \/ /\ Fails /\ Continue(Tail(task.rest))
            /\ entries' = entries \cup {entry.key}
            /\ unset' = unset \cup {entry.value}
         \/ Fails /\ UNCHANGED <<entries, unset>> /\ RollBack

\* One step of Register.
Write ==
  /\ task.op = "register" /\ task.rest # <<>>
  /\ WriteTip \/ WriteServer
  /\ UNCHANGED <<answer, stuck>>

\* What is left to do for tip.dll when an entry could not be removed:
\* UnregisterCategories and RecurseDeleteKey stop, Unregister goes on.
AfterFailure(entry, rest) ==
  CASE entry \in CategoryNames -> AfterCategories
    [] entry = "inproc" -> <<>>
    [] OTHER -> rest

\* A key with subkeys stays.
Removable(entry) == entry = "server clsid" => "server inproc" \notin entries

\* One step of Unregister, or of what undoes a failed Register.  The framework
\* may refuse to remove a category that is not there.
Remove ==
  LET entry == Head(task.rest)
      undone == stuck \cup {task.dll}
  IN  /\ task.op \in {"unregister", "roll back"} /\ task.rest # <<>>
      /\ \/ /\ Works /\ Removable(entry)
            /\ entries' = entries \ With(entry) /\ Continue(Tail(task.rest))
            /\ UNCHANGED stuck
         \/ /\ Works /\ ~Removable(entry)
            /\ Continue(Tail(task.rest))
            /\ UNCHANGED <<entries, stuck>>
         \/ /\ Works /\ entry \in CategoryNames \ entries
            /\ Continue(AfterFailure(entry, Tail(task.rest)))
            /\ UNCHANGED <<entries, stuck>>
         \/ /\ Fails /\ entry \in entries /\ stuck' = undone
            /\ Continue(AfterFailure(entry, Tail(task.rest)))
            /\ UNCHANGED entries
      /\ UNCHANGED <<answer, cut, unset>>

\* The call returns: a complete registration starts anew.
Return ==
  /\ task # NoTask /\ task.rest = <<>>
  /\ answer' = [answer EXCEPT ![task.dll] =
       CASE task.op = "register" -> "S_OK" [] task.op = "unregister" -> "removed" [] OTHER -> "failed"]
  /\ stuck' = IF task.op = "register" THEN stuck \ {task.dll} ELSE stuck
  /\ cut' = IF task.op = "register" THEN cut \ {task.dll} ELSE cut
  /\ task' = NoTask
  /\ UNCHANGED <<entries, unset, failures>>

\* The process of regsvr32 ends in the middle of a call.
Killed ==
  /\ task # NoTask
  /\ failures < MaxFailures /\ failures' = failures + 1
  /\ answer' = [answer EXCEPT ![task.dll] = "none"]
  /\ cut' = cut \cup {task.dll}
  /\ task' = NoTask
  /\ UNCHANGED <<entries, stuck, unset>>

-----------------------------------------------------------------------------
\* What a call answers is so, as far as the code can know.  After S_OK
\* everything COM and the framework look for is registered, also on top of what
\* an earlier call has left; but of com-ime-server.dll a value may be missing
\* that could not be set, the path of the DLL among them, because its
\* DllRegisterServer does not look at what RegSetValueExA answers.  After a
\* failure and after a removal nothing of the DLL is registered, as long as
\* every entry met could be removed and no call on it was cut off.
AnswersTrue ==
  \A dll \in Dll :
    /\ answer[dll] = "S_OK" /\ (task = NoTask \/ task.dll # dll) =>
         IF dll = "tip" THEN Entries(dll) \subseteq entries
         ELSE Keys(dll) \subseteq entries /\ Entries(dll) \subseteq entries \cup unset
    /\ answer[dll] \in {"removed", "failed"} /\ (task = NoTask \/ task.dll # dll)
         /\ dll \notin stuck \cup cut => entries \cap Entries(dll) = {}

\* The framework is never told of a text service that COM cannot load, at any
\* step of a registration or a removal, whichever call fails and wherever the
\* process ends; unless the removal of an entry failed.
AnnouncedIsLoadable == ("service" \in entries /\ "tip" \notin stuck) => Loadable
=============================================================================
