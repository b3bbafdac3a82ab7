------------------------------- MODULE TipDll -------------------------------
(***************************************************************************)
(* tip.dll in an application: DllMain with its critical section, the class *)
(* factory that DllGetClassObject makes once for all threads, and the two  *)
(* counters around it.  The factory comes without a reference of the       *)
(* caller's, its count is not changed atomically, and the count of the     *)
(* DLL's users, which LockServer also changes, deletes it at zero.  The    *)
(* DLL exports no DllCanUnloadNow: once loaded it stays.                   *)
(***************************************************************************)
EXTENDS Registration, FiniteSets

CONSTANTS
  Thread,       \* the threads that use the text service's class
  MaxFactories, \* bound of the model: the factories made
  MaxUses,      \* bound of the model: the value of g_dll_ref_count
  MaxRefs       \* bound of the model: the references of a factory

Nobody == "nobody"

ASSUME TipAssumption ==
  /\ Nobody \notin Thread
  /\ MaxFactories \in Nat \ {0} /\ MaxUses \in Nat \ {0} /\ MaxRefs \in Nat \ {0}

VARIABLES
  loaded,   \* whether the application has loaded the DLL
  section,  \* g_CS: whether it is initialised, and who is in it
  disturbed,\* whether it was made anew or deleted around a thread, or entered when deleted
  factory,  \* g_class_factory_objects[0], or 0
  made,     \* the factories made so far
  live,     \* those not deleted
  refs,     \* ref_count_ of each
  uses,     \* g_dll_ref_count
  at,       \* where each thread is
  held,     \* the factory it was given
  read,     \* the count it has read and not written back
  own,      \* whether it has taken a reference of its own
  locked,   \* whether it has locked the server
  shared,   \* whether any thread has ever taken a reference
  crashed   \* whether a deleted object has been used

threadVars == <<at, held, read, own, locked>>
tipVars == <<loaded, section, disturbed, factory, made, live, refs, uses, threadVars, shared, crashed>>
dllVars == <<registrationVars, tipVars>>

Factory == 1..MaxFactories

TipTypeOK ==
  /\ loaded \in BOOLEAN
  /\ section \in [valid : BOOLEAN, owner : Thread \cup {Nobody}]
  /\ disturbed \in BOOLEAN
  /\ made \in 0..MaxFactories /\ factory \in 0..made /\ live \subseteq 1..made
  /\ refs \in [Factory -> 0..MaxRefs]
  /\ uses \in 0..MaxUses
  /\ at \in [Thread -> {"idle", "enter", "inside", "make", "leave", "look", "holds", "adding", "releasing"}]
  /\ held \in [Thread -> 0..made]
  /\ read \in [Thread -> 0..MaxRefs]
  /\ own \in [Thread -> BOOLEAN] /\ locked \in [Thread -> BOOLEAN]
  /\ shared \in BOOLEAN /\ crashed \in BOOLEAN

TipInit ==
  /\ RegistrationInit
  /\ loaded = FALSE
  /\ section = [valid |-> FALSE, owner |-> Nobody]
  /\ disturbed = FALSE
  /\ factory = 0 /\ made = 0 /\ live = {}
  /\ refs = [f \in Factory |-> 0]
  /\ uses = 0
  /\ at = [t \in Thread |-> "idle"]
  /\ held = [t \in Thread |-> 0]
  /\ read = [t \in Thread |-> 0]
  /\ own = [t \in Thread |-> FALSE]
  /\ locked = [t \in Thread |-> FALSE]
  /\ shared = FALSE
  /\ crashed = FALSE

ThreadGoes(t, to) == at' = [at EXCEPT ![t] = to]

-----------------------------------------------------------------------------
(* DllMain.                                                                *)

FreshSection == [valid |-> TRUE, owner |-> Nobody]

InUse == \E t \in Thread : at[t] \in {"inside", "make", "leave"}

\* DLL_PROCESS_ATTACH, for the first thread that wants the class.
Load ==
  /\ task = NoTask /\ Loadable /\ ~loaded
  /\ loaded' = TRUE
  /\ section' = FreshSection
  /\ UNCHANGED <<registrationVars, disturbed, factory, made, live, refs, uses, threadVars, shared, crashed>>

\* DLL_THREAD_ATTACH initialises the section there is once more.
OtherThreadStarts ==
  /\ loaded /\ ~crashed
  /\ section' = FreshSection
  /\ disturbed' = (disturbed \/ InUse)
  /\ UNCHANGED <<registrationVars, loaded, factory, made, live, refs, uses, threadVars, shared, crashed>>

\* DLL_THREAD_DETACH deletes it for all.
OtherThreadEnds ==
  /\ loaded /\ ~crashed
  /\ section' = [valid |-> FALSE, owner |-> Nobody]
  /\ disturbed' = (disturbed \/ InUse)
  /\ UNCHANGED <<registrationVars, loaded, factory, made, live, refs, uses, threadVars, shared, crashed>>

-----------------------------------------------------------------------------
(* DllGetClassObject.                                                      *)

\* The check before the section.
DllGetClassObject(t) ==
  /\ loaded /\ ~crashed /\ at[t] = "idle"
  /\ ThreadGoes(t, IF factory = 0 THEN "enter" ELSE "look")
  /\ UNCHANGED <<registrationVars, loaded, section, disturbed, factory, made, live, refs, uses, held, read, own, locked, shared, crashed>>

\* One that is not initialised keeps nobody out, or ends the application.
EnterSection(t) ==
  /\ ~crashed /\ at[t] = "enter"
  /\ \/ /\ section.valid /\ section.owner = Nobody
        /\ section' = [section EXCEPT !.owner = t] /\ UNCHANGED <<disturbed, crashed>>
     \/ /\ ~section.valid
        /\ disturbed' = TRUE /\ crashed' \in BOOLEAN /\ UNCHANGED section
  /\ ThreadGoes(t, "inside")
  /\ UNCHANGED <<registrationVars, loaded, factory, made, live, refs, uses, held, read, own, locked, shared>>

CheckAgain_Skipped(t) ==
  /\ ~crashed /\ at[t] = "inside"
  /\ ThreadGoes(t, "make")
  /\ UNCHANGED <<registrationVars, loaded, section, disturbed, factory, made, live, refs, uses, held, read, own, locked, shared, crashed>>

\* The check in the section.
CheckAgain(t) ==
  /\ ~crashed /\ at[t] = "inside"
  /\ ThreadGoes(t, IF factory = 0 THEN "make" ELSE "leave")
  /\ UNCHANGED <<registrationVars, loaded, section, disturbed, factory, made, live, refs, uses, held, read, own, locked, shared, crashed>>

\* The factory, its count at zero, in the table.
MakeFactory(t) ==
  /\ ~crashed /\ at[t] = "make"
  /\ made < MaxFactories
  /\ factory' = made + 1 /\ made' = made + 1 /\ live' = live \cup {made + 1}
  /\ ThreadGoes(t, "leave")
  /\ UNCHANGED <<registrationVars, loaded, section, disturbed, refs, uses, held, read, own, locked, shared, crashed>>

LeaveSection(t) ==
  /\ ~crashed /\ at[t] = "leave"
  /\ section' = IF section.owner = t THEN [section EXCEPT !.owner = Nobody] ELSE section
  /\ ThreadGoes(t, "look")
  /\ UNCHANGED <<registrationVars, loaded, disturbed, factory, made, live, refs, uses, held, read, own, locked, shared, crashed>>

GivePointer_Uncounted(t) ==
  /\ ~crashed /\ at[t] = "look"
  /\ held' = [held EXCEPT ![t] = factory]
  /\ ThreadGoes(t, "holds")
  /\ UNCHANGED <<registrationVars, loaded, section, disturbed, factory, made, live, refs, uses, read, own, locked, shared, crashed>>

\* The pointer in the table is the answer, and counts as a use of the DLL but
\* not as a reference.  A deleted factory is asked for its class all the same.
GivePointer(t) ==
  /\ ~crashed /\ at[t] = "look"
  /\ uses < MaxUses
  /\ held' = [held EXCEPT ![t] = factory]
  /\ uses' = uses + 1
  /\ ThreadGoes(t, "holds")
  /\ crashed' \in IF factory \in live THEN {FALSE} ELSE BOOLEAN
  /\ UNCHANGED <<registrationVars, loaded, section, disturbed, factory, made, live, refs, read, own, locked, shared>>

-----------------------------------------------------------------------------
(* What COM does with the factory: every AddRef, and the pointer itself, is *)
(* followed by a Release in the end, every lock by an unlock.              *)

\* The factory is called: a deleted one ends the application.
Calls(t) ==
  /\ loaded /\ ~crashed
  /\ crashed' = (held[t] \notin live)

\* QueryInterface and CreateInstance's callers take references; the count is
\* read and written in two steps.
AddRefRead(t) ==
  /\ at[t] = "holds" /\ ~own[t] /\ Calls(t)
  /\ read' = [read EXCEPT ![t] = refs[held[t]]]
  /\ shared' = TRUE
  /\ ThreadGoes(t, "adding")
  /\ UNCHANGED <<registrationVars, loaded, section, disturbed, factory, made, live, refs, uses, held, own, locked>>

AddRefWrite(t) ==
  /\ at[t] = "adding" /\ Calls(t)
  /\ read[t] < MaxRefs
  /\ refs' = [refs EXCEPT ![held[t]] = read[t] + 1]
  /\ own' = [own EXCEPT ![t] = TRUE]
  /\ read' = [read EXCEPT ![t] = 0]
  /\ ThreadGoes(t, "holds")
  /\ UNCHANGED <<registrationVars, loaded, section, disturbed, factory, made, live, uses, held, locked, shared>>

\* Release of the thread's own reference first, then of the pointer it was
\* given; a count of zero is left alone.
ReleaseRead(t) ==
  /\ at[t] = "holds" /\ ~locked[t] /\ Calls(t)
  /\ IF refs[held[t]] = 0
     THEN /\ own' = [own EXCEPT ![t] = FALSE]
          /\ held' = IF own[t] THEN held ELSE [held EXCEPT ![t] = 0]
          /\ ThreadGoes(t, IF own[t] THEN "holds" ELSE "idle")
          /\ UNCHANGED read
     ELSE /\ read' = [read EXCEPT ![t] = refs[held[t]]]
          /\ ThreadGoes(t, "releasing")
          /\ UNCHANGED <<held, own>>
  /\ UNCHANGED <<registrationVars, loaded, section, disturbed, factory, made, live, refs, uses, locked, shared>>

\* At zero the object deletes itself, but stays in the table.
ReleaseWrite(t) ==
  /\ at[t] = "releasing" /\ Calls(t)
  /\ refs' = [refs EXCEPT ![held[t]] = read[t] - 1]
  /\ live' = IF read[t] = 1 THEN live \ {held[t]} ELSE live
  /\ read' = [read EXCEPT ![t] = 0]
  /\ own' = [own EXCEPT ![t] = FALSE]
  /\ held' = IF own[t] THEN held ELSE [held EXCEPT ![t] = 0]
  /\ ThreadGoes(t, IF own[t] THEN "holds" ELSE "idle")
  /\ UNCHANGED <<registrationVars, loaded, section, disturbed, factory, made, uses, locked, shared>>

\* LockServer(TRUE).
Lock(t) ==
  /\ at[t] = "holds" /\ ~locked[t] /\ Calls(t)
  /\ uses < MaxUses
  /\ uses' = uses + 1
  /\ locked' = [locked EXCEPT ![t] = TRUE]
  /\ UNCHANGED <<registrationVars, loaded, section, disturbed, factory, made, live, refs, at, held, read, own, shared>>

\* LockServer(FALSE): the last use deletes the factory, which stays in the
\* table.
Unlock(t) ==
  /\ at[t] = "holds" /\ locked[t] /\ Calls(t)
  /\ uses' = uses - 1
  /\ live' = IF uses' <= 0 THEN live \ {factory} ELSE live
  /\ locked' = [locked EXCEPT ![t] = FALSE]
  /\ UNCHANGED <<registrationVars, loaded, section, disturbed, factory, made, refs, at, held, read, own, shared>>

\* What a loaded DLL does no longer depends on what is registered: regsvr32 is
\* run before.
Installing == ~loaded /\ UNCHANGED tipVars

TipNext ==
  \/ \E dll \in Dll : Register(dll) /\ Installing
  \/ \E dll \in Dll : Unregister(dll) /\ Installing
  \/ Write /\ Installing
  \/ Remove /\ Installing
  \/ Return /\ Installing
  \/ Killed /\ Installing
  \/ Load \/ OtherThreadStarts \/ OtherThreadEnds
  \/ \E t \in Thread :
       \/ DllGetClassObject(t) \/ EnterSection(t) \/ CheckAgain(t) \/ MakeFactory(t) \/ LeaveSection(t) \/ GivePointer(t)
       \/ AddRefRead(t) \/ AddRefWrite(t) \/ ReleaseRead(t) \/ ReleaseWrite(t)
       \/ Lock(t) \/ Unlock(t)

TipSpec == TipInit /\ [][TipNext]_dllVars

-----------------------------------------------------------------------------
\* All threads get the same factory: another is made only when a thread of the
\* application has started or ended while one was in the critical section, or
\* one went into the section that another's end had deleted.
OneFactory == ~disturbed => made <= 1

\* A factory that was made stays, and no thread meets a deleted one, however
\* they lock and release it, as long as none takes a reference of its own: the
\* count of the DLL's uses, which no one but LockServer takes back, does not
\* come to zero.
FactoryKept == ~shared /\ ~disturbed => live = 1..made /\ ~crashed
=============================================================================
