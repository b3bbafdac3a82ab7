-------------------------- MODULE TextServiceLife --------------------------
(***************************************************************************)
(* The life of text services (TextService in tip/text-service): Activate   *)
(* and Deactivate with the failures of each step, the key event sink, the  *)
(* button on the language bar, and the connection to ComImeServer.         *)
(* Activate is three actions, as key events are dispatched "before         *)
(* finishing Activate" and other services call the host in between.  ime_  *)
(* and key_event_handler_ are made and deleted together: `handler' is both.*)
(***************************************************************************)
EXTENDS ComImeServer

CONSTANTS
  Refusals,    \* the calls of Activate and Deactivate the system may refuse
  MaxRefusals, \* bound on the refusals of all services
  MaxApartments \* bound on the apartment's entries of one service

Refusal == {"category", "apartment", "class", "instance", "keystrokes", "button", "item", "bar_query", "key_query"}

ASSUME LifeAssumption == Refusals \subseteq Refusal /\ MaxRefusals \in Nat /\ MaxApartments \in Nat \ {0}

VARIABLES
  pc,         \* where the service is between Activate and Deactivate
  handler,    \* key_event_handler_ and ime_
  object,     \* com_ime_: the input method's id; 0 when null
  keySink,    \* whether the key event sink is advised
  button,     \* whether input_mode_toggle_button_ is set
  item,       \* the item in the language bar: the button's, or one left from before
  apartments, \* CoInitializeEx calls not undone
  iconDue,    \* whether the bar is to ask for the icon
  icon,       \* the mode the icon shows
  heard,      \* the last answer used
  refused     \* the calls refused, and the uses of the bar, so far

lifeVars == <<pc, handler, object, keySink, button, item, apartments, iconDue, icon, heard, refused>>
vars == <<serverVars, lifeVars>>

\* A connection to a host that is gone.
Lost == MaxImes + 1

Crash == {"toggled_early", "no_item_sink", "deleted_twice", "used_deleted"}

LifeTypeOK ==
  /\ pc \in [Service -> {"off", "class", "advised", "on", "undo", "close"} \cup Crash]
  /\ handler \in [Service -> {"null", "live", "deleted"}]
  /\ object \in [Service -> 0..Lost]
  /\ keySink \in [Service -> BOOLEAN]
  /\ button \in [Service -> BOOLEAN]
  /\ item \in [Service -> {"none", "listed", "attached", "left"}]
  /\ apartments \in [Service -> 0..MaxApartments]
  /\ iconDue \in [Service -> BOOLEAN]
  /\ icon \in [Service -> Mode]
  /\ heard \in {"none", "own", "other"}
  /\ refused \in [Service -> SUBSET Refusal]

TypeOK == ServerTypeOK /\ LifeTypeOK

Init ==
  /\ ServerInit
  /\ pc = [s \in Service |-> "off"]
  /\ handler = [s \in Service |-> "null"]
  /\ object = [s \in Service |-> 0]
  /\ keySink = [s \in Service |-> FALSE]
  /\ button = [s \in Service |-> FALSE]
  /\ item = [s \in Service |-> "none"]
  /\ apartments = [s \in Service |-> 0]
  /\ iconDue = [s \in Service |-> FALSE]
  /\ icon = [s \in Service |-> "DIRECT"]
  /\ heard = "none"
  /\ refused = [s \in Service |-> {}]

Goes(s, to) == pc' = [pc EXCEPT ![s] = to]

\* The refusals left to the system; a server that fails is none of them.
RefusalsLeft ==
  MaxRefusals - Cardinality({r \in Service \X Refusals : r[2] \in refused[r[1]] \ {"instance"}})

Refuse(s, call) ==
  /\ RefusalsLeft > 0
  /\ call \in Refusals \ refused[s]
  /\ refused' = [refused EXCEPT ![s] = @ \cup {call}]

\* A crash is the end of the application of a service; what it held in the host
\* stays there.
Alive(s) == pc[s] \notin Crash

\* The host is gone or hung: its objects are lost, and so are its class
\* factories, from which CreateInstance will be refused.
HostLost ==
  /\ object' = [t \in Service |-> IF object[t] \in Id THEN Lost ELSE object[t]]
  /\ pc' = [t \in Service |-> IF pc[t] = "class" THEN "undo" ELSE pc[t]]

-----------------------------------------------------------------------------
(* Activate.                                                               *)

\* The attribute guids are registered, the apartment entered, the class
\* factory asked for.
ActivateBegin(s) ==
  /\ pc[s] = "off" /\ apartments[s] < MaxApartments
  /\ \/ /\ \E call \in {"category", "apartment"} : Refuse(s, call)
        /\ Goes(s, "undo")
        /\ UNCHANGED <<serverVars, apartments>>
     \/ /\ Refuse(s, "class")
        /\ apartments' = [apartments EXCEPT ![s] = @ + 1]
        /\ Goes(s, "undo")
        /\ UNCHANGED serverVars
     \/ /\ GetClassObject
        /\ apartments' = [apartments EXCEPT ![s] = @ + 1]
        /\ Goes(s, "class")
        /\ UNCHANGED refused
  /\ heard' = IF host' = host THEN heard ELSE "none"
  /\ UNCHANGED <<handler, object, keySink, button, item, iconDue, icon>>

\* CreateInstance: a server process is made unless there seems to be one, and
\* asked for an input method, whose id is the answer.  The object is the
\* service's, and the factory is released.
Create(s) ==
  /\ pc[s] = "class"
  /\ \E found \in Made(s) :
       /\ CreateInstance(found)
       /\ IF Heard(found).op = "make"
          THEN /\ object' = [object EXCEPT ![s] = Heard(found).value]
               /\ handler' = [handler EXCEPT ![s] = "live"]
               /\ \/ /\ keySink' = [keySink EXCEPT ![s] = TRUE]
                     /\ Goes(s, "advised")
                     /\ UNCHANGED refused
                  \/ Refuse(s, "keystrokes") /\ Goes(s, "undo") /\ UNCHANGED keySink
          ELSE /\ refused' = [refused EXCEPT ![s] = @ \cup {"instance"}]
               /\ Goes(s, "undo")
               /\ UNCHANGED <<object, handler, keySink>>
  /\ FactoryRelease
  /\ UNCHANGED <<button, item, apartments, iconDue, icon, heard>>

\* CreateInstance fails with the server process.
NotCreated(s) ==
  /\ pc[s] = "class" /\ host = "up"
  /\ \/ PipeFails /\ FactoryRelease /\ Goes(s, "undo") /\ UNCHANGED object
     \/ SpawnFails /\ HostLost
  /\ refused' = [t \in Service |->
       IF pc[t] = "class" /\ pc'[t] = "undo" THEN refused[t] \cup {"instance"} ELSE refused[t]]
  /\ UNCHANGED <<handler, keySink, button, item, apartments, iconDue, icon, heard>>

\* The button is made and added; whether the bar took it is not looked at.  If
\* it did not, an item that could not be removed before is the bar's still, but
\* it is not the button's.
AddButton(s) ==
  /\ pc[s] = "advised"
  /\ \/ /\ Refuse(s, "button")
        /\ Goes(s, "undo")
        /\ UNCHANGED <<button, item>>
     \/ /\ button' = [button EXCEPT ![s] = TRUE]
        /\ Goes(s, "on")
        /\ \/ item' = [item EXCEPT ![s] = "listed"] /\ UNCHANGED refused
           \/ /\ Refuse(s, "item")
              /\ item' = [item EXCEPT ![s] = IF @ = "none" THEN @ ELSE "left"]
  /\ UNCHANGED <<serverVars, handler, object, keySink, apartments, iconDue, icon, heard>>

-----------------------------------------------------------------------------
(* Deactivate, by the framework or after a failed Activate.                *)

\* The two pointers keep their values when what they point to is deleted.
DeleteHandler_PointersCleared(s) == handler' = [handler EXCEPT ![s] = "null"]
DeleteHandler(s) == handler' = [handler EXCEPT ![s] = IF @ = "null" THEN @ ELSE "deleted"]

\* The bar drops its item and unadvises its sink on it.
RemoveItem(s) ==
  /\ button' = [button EXCEPT ![s] = FALSE]
  /\ item' = [item EXCEPT ![s] = "none"]

UnadviseKeys_Forgotten(s, done) == UNCHANGED keySink
UnadviseKeys(s, done) == keySink' = [keySink EXCEPT ![s] = @ /\ ~done]

\* The bar's item and the key event sink go, unless the thread manager refuses
\* to be queried; handler and input method are deleted.
Deactivate(s) ==
  /\ pc[s] \in {"on", "undo"}
  /\ \E calls \in SUBSET (Refusals \cap {"bar_query", "key_query"}) :
       /\ "bar_query" \in calls => button[s]
       /\ Cardinality(calls \ refused[s]) =< RefusalsLeft
       /\ refused' = [refused EXCEPT ![s] = @ \cup calls]
       /\ IF "bar_query" \in calls THEN UNCHANGED <<button, item>> ELSE RemoveItem(s)
       /\ UnadviseKeys(s, "key_query" \notin calls)
  /\ DeleteHandler(s)
  /\ iconDue' = [iconDue EXCEPT ![s] = FALSE]
  /\ Goes(s, IF handler[s] = "deleted" THEN "deleted_twice"
             ELSE IF object[s] # 0 THEN "close" ELSE "off")
  /\ UNCHANGED <<serverVars, object, apartments, icon, heard>>

Uninitialize(s) == apartments' = [apartments EXCEPT ![s] = @ - 1]

\* The last reference on the object closes its input method at the server;
\* the apartment is left.
CloseObject(s) ==
  /\ pc[s] = "close"
  /\ \/ object[s] \in Id /\ CloseRequest(s, object[s])
     \/ object[s] = Lost /\ UNCHANGED serverVars
  /\ object' = [object EXCEPT ![s] = 0]
  /\ Uninitialize(s)
  /\ Goes(s, "off")
  /\ UNCHANGED <<handler, keySink, button, item, iconDue, icon, heard, refused>>

-----------------------------------------------------------------------------
(* Keys and the language bar.                                              *)

\* What the server can answer to the input method of the service; without a
\* connection the answer is empty, and nothing is learned from it.
Answers(s, op) ==
  IF object[s] \in Id
  THEN Found(Current, Line(s, op, IF op = "mode" THEN imes[object[s]] ELSE "DIRECT"))
  ELSE {[lines |-> <<Message>>, printed |-> 0]}

\* A request to the input method; whose answer it takes is remembered.
Ask(s, op, found, effect) ==
  /\ IF object[s] \in Id THEN HandleRequest(found, effect) ELSE UNCHANGED serverVars
  /\ heard' = IF object[s] \notin Id THEN "none"
              ELSE IF Heard(found).service = s /\ Heard(found).op = op THEN "own" ELSE "other"

\* The key event sink: each of its methods uses the handler; OnTestKeyDown and
\* OnKeyDown ask the input method.
Key(s) ==
  /\ Alive(s) /\ keySink[s]
  /\ IF handler[s] = "deleted"
     THEN Goes(s, "used_deleted") /\ UNCHANGED <<serverVars, heard>>
     ELSE /\ \E found \in Answers(s, "key") : Ask(s, "key", found, SameModes)
          /\ UNCHANGED pc
  /\ UNCHANGED <<handler, object, keySink, button, item, apartments, iconDue, icon, refused>>

UpdateIcon_Forgotten(s) == UNCHANGED iconDue
UpdateIcon(s) == iconDue' = [iconDue EXCEPT ![s] = TRUE]

\* ToggleInputMode, by its key or a click on the bar's item: the input method
\* first, then the sink of the button.
Toggle(s) ==
  /\ Alive(s) /\ (keySink[s] \/ item[s] # "none")
  /\ IF handler[s] = "deleted"
     THEN Goes(s, "used_deleted") /\ UNCHANGED <<serverVars, heard, iconDue>>
     ELSE /\ \E found \in Answers(s, "toggle") : Ask(s, "toggle", found, ToggleMode(object[s]))
          /\ IF ~button[s] THEN Goes(s, "toggled_early") /\ UNCHANGED iconDue
             ELSE IF item[s] # "attached" THEN Goes(s, "no_item_sink") /\ UNCHANGED iconDue
             ELSE UpdateIcon(s) /\ UNCHANGED pc
  /\ UNCHANGED <<handler, object, keySink, button, item, apartments, icon, refused>>

\* The bar advises its sink on an item it lists, and asks for the icon.
AdviseItem(s) ==
  /\ Alive(s) /\ item[s] = "listed"
  /\ item' = [item EXCEPT ![s] = "attached"]
  /\ iconDue' = [iconDue EXCEPT ![s] = TRUE]
  /\ UNCHANGED <<serverVars, pc, handler, object, keySink, button, apartments, icon, heard, refused>>

\* GetIcon: direct mode or any other.
GetIcon(s) ==
  /\ Alive(s) /\ iconDue[s]
  /\ iconDue' = [iconDue EXCEPT ![s] = FALSE]
  /\ \E found \in Answers(s, "mode") :
       /\ Ask(s, "mode", found, SameModes)
       /\ icon' = [icon EXCEPT ![s] =
            IF Heard(found).op = "mode" /\ Heard(found).value = "DIRECT" THEN "DIRECT" ELSE "HIRAGANA"]
  /\ UNCHANGED <<pc, handler, object, keySink, button, item, apartments, refused>>

-----------------------------------------------------------------------------
\* A call that reaches a server that is not there takes the host with it.
CallHangs(s) ==
  /\ \/ pc[s] = "class" /\ Created
     \/ pc[s] = "close" /\ object[s] \in Id
     \/ Alive(s) /\ keySink[s] /\ handler[s] = "live" /\ object[s] \in Id
  /\ Hang
  /\ UNCHANGED lifeVars

\* Nobody holds an object or a factory.
Exits ==
  /\ \A s \in Service : pc[s] # "class" /\ object[s] \notin Id
  /\ HostExits
  /\ UNCHANGED lifeVars

Dies == ServerEnds /\ UNCHANGED lifeVars

Next ==
  \/ \E s \in Service :
       \/ ActivateBegin(s) \/ Create(s) \/ NotCreated(s) \/ AddButton(s)
       \/ Deactivate(s) \/ CloseObject(s)
       \/ Key(s) \/ Toggle(s) \/ AdviseItem(s) \/ GetIcon(s)
       \/ CallHangs(s)
  \/ Exits
  \/ Dies

Spec == Init /\ [][Next]_vars
-----------------------------------------------------------------------------
\* The assertions of text_service.cpp, assert(key_event_handler_ != nullptr)
\* and assert(ime_ != nullptr): keys and the bar come in only when there is,
\* or was, a handler and an input method to take them.
AssertionsHold ==
  \A s \in Service : keySink[s] \/ item[s] # "none" => handler[s] # "null"

\* The handler is deleted twice only when a service is activated once more
\* after a complete life and refused before it has a new handler; a deleted
\* one is used only when the thread manager refused to be queried while it
\* was deactivated.  The host hangs only when the server process died, could
\* not be started, or when the last step before its start failed.
FailuresHaveCauses ==
  /\ \A s \in Service :
       /\ pc[s] = "deleted_twice" =>
            refused[s] \cap {"category", "apartment", "class", "instance"} # {}
       /\ pc[s] = "used_deleted" => refused[s] \cap {"bar_query", "key_query"} # {}
  /\ host = "hung" => faults \cap {"inherit", "spawn", "death"} # {}

\* (assert ime) of handle-request: whatever a connected service asks is asked
\* of an input method in the table, and of one that is its own, whichever
\* services connect and leave in between and whatever is printed.  The module
\* is not unloaded under a service that is about to make its object.
ObjectsOwnImes ==
  \A s \in Service :
    /\ object[s] \in Id =>
         /\ object[s] \in DOMAIN imes
         /\ \A t \in Service \ {s} : object[t] # object[s]
    /\ pc[s] = "class" => ~DllCanUnloadNow

\* As long as nothing is printed between the answers, each answer used is the
\* answer to the request; what is left in the pipe was caused by messages.
AnswersFit ==
  /\ heard = "other" => "noise" \in faults
  /\ host = "up" => Len(output) =< noise

\* "UI calls GetIcon to get the current state of input mode": once the bar has
\* asked, the icon shows the mode at the server.
IconShowsMode ==
  \A s \in Service :
    (/\ pc[s] = "on" /\ item[s] = "attached" /\ ~iconDue[s]
     /\ object[s] \in Id /\ host = "up" /\ process = "running" /\ "noise" \notin faults)
       => icon[s] = imes[object[s]]
=============================================================================
