# A verification project for senn

Senn is a Japanese input method: romaji is typed into a composition buffer and becomes kana, the kana is converted
into a text of kana and kanji by a conversion engine, and the text is committed to an application. This directory holds
TLA+ models of it, the TLC configurations that check them, and proofs for TLAPS. Paths below are relative to `src/`.

- `*.tla` with a name of a part: the models. `MC*.tla`: small instances. `*Proofs.tla`: theorems. `*.cfg`: one run each.
- `PROJECT.json`: components, runs, the code lines of every definition (`map`), for each property a change of the code's
  model that breaks it (`mutants`), findings, hazards and theorems.

Run one with `tlc -config Fcitx5Engine.cfg MCFcitx5Engine.tla`, check proofs with `tlapm Fcitx5EngineProofs.tla`.

## 1. The system

### Parts, their state and their operations

| Part | Code | State | Operations |
|---|---|---|---|
| Composition buffer | `senn/src/im/buffer.lisp`, `senn/src/ja.lisp` | a string and a cursor | insert (with or without the romaji table), delete, move |
| Typing state | `senn/src/im/inputting.lisp`, `im/predict/` | the buffer and the predictions for it | the same, with predictions refreshed; the pronunciation to convert |
| Conversion | `senn/src/im/converting.lisp` | segments, each with candidates and an index; the current segment | move between segments and candidates, ask the engine for more once, katakana, click |
| fcitx input method | `senn/src/fcitx/im/` | one of four states: typing, katakana, selecting a prediction, converting | process a key, select a candidate, reset; each answers a view |
| fcitx5 front-end | `senn/package/fcitx5-senn/` | a panel for each input context, one input method for all | key, click, reset, deactivate |
| fcitx4 front-end | `senn/package/fcitx-senn/` | one window for all input contexts | key, click, page, ResetIM |
| ibus front-end and input method | `senn/package/ibus-senn/`, `senn/src/ibus/` | an input mode around the fcitx state; preedit, lookup table, mode property | key, mode key, click, focus in, disable |
| Windows input method | `senn/src/win/` | an input mode, a state, the history of committed forms | can-process, process-input, toggle |
| Windows text service | `senn/package/win/tip/text-service/` | composition holder, input method, key event sink, language bar button | test key, key, toggle, edit sessions, Activate, Deactivate |
| Candidate list of the text service | `candidate_ui_list.cpp`, `candidate_window.cpp` there | list, its element, its window | make, update, move, destroy |
| tip.dll | `senn/package/win/tip/` | critical section, class factory, counts of users and references | DllMain, DllGetClassObject, LockServer |
| Registration | `senn/package/win/tip/win/`, `com-ime-server/dllmain.cpp` | entries in the registry and in the text services framework | register, unregister, undo |
| COM server | `senn/package/win/com-ime-server/`, `senn/src/bin/win-server-stdio.lisp` | pipes of one server process, table of input methods, lock count | make, close, request |
| Conversion engine client | `senn/src/im/kkc/engine.lisp`, `request.lisp` | the engine process with its pipes | convert, list candidates, restart |
| kkc-proxy | `senn/src/bin/kkc-proxy.lisp`, `senn/src/lib/fcitx-kkc-proxy.lisp` | one engine, a thread for each client | start, forward a line, end |
| Socket client | `senn/src-cpp/ipc/socket.h`, `socket.cpp`, `src-cpp/{fcitx,ibus}/im/stateful_ime_socket.cpp` | the connection | request, with up to two retries on new connections |
| Servers | `senn-ipc/src/`, `senn/src/bin/*-server.lisp` | one thread and one input method per connection | read, handle, answer |
| Conversion engines | `senn-common/kkc-engine/`, `hachee/src/kkc/` | dictionaries and language models, read at the start | one line for each line |
| Dependency parsing | `hachee/src/dependency-parsing/`, `hachee/src/algorithm/` | none | pure algorithms, used by nothing in senn |
| Emacs client | `senn/package/emacs/` | its own conversion state | an older protocol |

The remaining ones (menus, the user dictionary, marshalling, other transports) keep no state
that lives longer than a call; `PROJECT.json` lists them with the reason they are left out.

### How they interact

    application <-> framework (fcitx5, ibus, TSF) <-> front-end (C++)
                                                        |  function call, or one line of JSON over a socket or pipe
                                                   input method (Lisp): modes, states, views
                                                        |  one line of JSON over the pipes of a child process
                                                   conversion engine

Everything is a request with one answer: the caller blocks. An answer says whether the key was consumed and which view
to show; the front-end turns the view into a preedit or composition, a list and a commit. Input methods are state
machines without threads of their own; concurrency comes from processes that die, answer late or print what nobody
asked for, from several input contexts or services that share one object or one pair of pipes, and from the threads of
an application that loads tip.dll.

### What is hard

- *Two copies of the truth.* What the user sees (panel, preedit, lookup table, document, mode property) and what the
  input method composes are kept on both sides of a call and updated by views only. Focus, reset, toggles and refused
  edit sessions touch one side at a time.
- *Indices that outlive lists.* Clicks and cursors are indices into lists that are rebuilt, cut and merged.
- *Sequences of keys.* Four states, modified keys, and keys that commit one text and begin another.
- *Failures half-way.* Activation, registration and the start of a server are sequences of calls, each of which may fail;
  what was done before is undone, or not.
- *Processes.* A request is repeated when its answer is late; an engine may die, be slow, or print a line of its own.

Correct is: what is committed is what was in sight; nothing composed vanishes; what is displayed is the state; indices
stay in their lists; an answer belongs to its request; a key counts once; a request ends. `hazards` in `PROJECT.json`
names each place in the code where one of these could fail, and the properties that would show it.

## 2. The models

| Module | Models | How it corresponds |
|---|---|---|
| `RomajiBuffer` | `buffer.lisp`, lookup of `ja.lisp` | a buffer is a record `string`, `cursor`; operators named after the functions. The recursion `try-insertion`, which goes from the largest offset down, is the largest offset for which the table has a rule. |
| `RomajiTyping` | a typist in front of the buffer | the romaji of each rule is typed letter by letter into an empty buffer |
| `Inputting` | `inputting.lisp` | the state with its predictions |
| `Converting` | `converting.lisp` | segments and their candidates; the engine is a choice among `Conversions` and `CandidateLists` |
| `FcitxIme` | `fcitx/im/` | one operator per clause of `process-input`, grouped by state; variables `state` (ime-state) and `reply` |
| `Composer` | nothing: the promise | what is committed was in sight |
| `Fcitx5Engine` | `fcitx_senn.cpp` with `FcitxIme` | one action per event: `KeyEvent`, `OnSelectCandidate`, `Reset`, `Deactivate`, `Activate` |
| `IbusEngine` | `main.cpp`, `stateful-ime.lisp` with `FcitxIme` | one action per event: `ProcessKeyEvent`, `ToggleInputMode`, `CandidateClicked`, `FocusIn`, `FocusOut`, `Disable` |
| `WinIme` | `senn/src/win/` with `Converting` | `CanProcess` and `ProcessInput`, the two tables of keys; `Learn` and `Recall` for the history |
| `CandidateUI` | `candidate_ui_list.cpp`, `candidate_window.cpp`, the state in `key_event_handler.h` | `Create`, `NotifyUpdateUI`, `DrawCandidates`, `CalculateSize`, `Move`, `DestroyUI`; a window is the rows painted, the one highlighted and its height in rows |
| `TextService` | `key_event_handler.cpp`, `ui.cpp` with `WinIme` and `CandidateUI` | `OnKeyDown` for a key claimed by OnTestKeyDown, which goes no further when GetKeyboardState fails (`KeyUnread`), `Toggle`; each view handler with its edit session; what the application and the system do (`OnCompositionTerminated`, `FocusMoves`, `OnLayoutChange`, `ThreadChanges`, `ServerLost`) |
| `ComImeServer` | `com-ime-server/dllmain.cpp`, `win-server-stdio.lisp` | the calls of the class factory and of objects, the pipes' creation with each of its failures, `Exchange` for SendString with the server's answer |
| `TextServiceLife` | `text_service.cpp`, `langbar.cpp` over `ComImeServer` | Activate in three actions (`ActivateBegin`, `Create`, `AddButton`), `Deactivate`, `CloseObject`, `Key`, `Toggle`, `AdviseItem`, `GetIcon` |
| `Fcitx4Engine` | `fcitx-senn/fcitx_senn.cpp`, `stateful_ime_proxy.cpp`, `views_json.h` with `FcitxIme` | `DoInput`, `CandidateWordCallback`, `ResetIM`, and fcitx's own `TurnPage`; `ServerReplaced` for what a reconnection does to the input method |
| `Registration` | `registration.cpp`, `registry.cpp`, `registration.h`, `com-ime-server/dllmain.cpp` | a call is a list of entries to write or remove, taken one at a time by `Write`, `Remove`, `Return` or cut off by `Killed`; `unset` holds the values of the server whose failure to be set nobody notices |
| `TipDll` | `tip/dllmain.cpp`, `tip.cpp`, `class_factory.h` over `Registration` | `Load`, `OtherThreadStarts`, `OtherThreadEnds`; DllGetClassObject in six actions of a thread, the second check and the making of the factory apart; `AddRef` and `Release`, each a read and a write; `Lock`, `Unlock` |
| `KkcEngine` | `engine.lisp`, `request.lisp`, `kkc-proxy.lisp`, `fcitx-kkc-proxy.lisp` and an engine process | a client, alone or as a thread of the proxy: `Ask`, `Write`, `Read`, `Drain`, `MakeKkc`, `CloseIme`; the engine `Start`, `Serve`, `Die`. engine.lisp has a run-engine for SBCL, which drains the output of the engine, and one for ECL, which does not; `drains` says which |
| `ReconnectingClient` | `socket.h`, `socket.cpp`, a server | the client `Execute`, `ReadLine`, `ReadFailure`, `ReadError`, `Reconnect`; the server `Handle`, `ThreadEnds`, `ServerStarts`, `ServerStops` |

`Converting` extends `Inputting` extends `RomajiBuffer`; `FcitxIme` and `WinIme` extend `Converting`; the front-ends
extend their input method; `TextService` extends `CandidateUI` too, `TextServiceLife` extends `ComImeServer`, `TipDll`
extends `Registration`. A key and everything it changes, down to the panel, is one step: the caller blocks while
the input method answers. `KkcEngine`, `ReconnectingClient` and `ComImeServer` take the same calls apart, into
writing, reading, dying and retrying. The text service is in two models: `TextService` has its texts and one service
that is active, `TextServiceLife` its pointers and connections and several services, whose texts it leaves out.

### What is abstracted

- A character is a value of `Char`, a string a sequence of them, and a text (what is shown or committed) a sequence of
  strings side by side, so that a conversion shows one string per segment. JSON, colours and labels are left out.
- The position of a cursor in a view is a byte offset in the code. It is given by the string left of the cursor, whose
  length in bytes it is.
- The romaji table, the predictor and the answers of the engine are constants: any function from strings to kana, to a
  list of strings, to a set of answers. An answer is chosen anew at every request, so the engine may change its mind.
- In `ReconnectingClient` the input method is the number of characters it composes: a key adds one, a reset drops them.
- In `KkcEngine` both versions of run-engine start from the same state; ECL's has nothing to do then. ECL is what the
  ibus, fcitx4 and fcitx5 packages embed (`senn/package/ibus-senn/Makefile.am:8`, `fcitx-senn/CMakeLists.txt:16` and
  `fcitx5-senn/build-lib.sh:6` there), SBCL what the server programs are built with.
- In `KkcEngine` a line is an answer with its request, other JSON, or no JSON. Two threads that read one stream of SBCL
  without a lock may both get a line, or pieces of it; two that write may make a line of neither, which ends the engine.
- In `ComImeServer` an input method is its mode, and a line who asked for what and the answer. What is behind the array
  of handles is not known: the loop that runs past it ends the host or never ends.
- In `TipDll` `++` and `--` on the factory's count are a read and a write; a critical section that is entered after it
  was deleted keeps nobody out or ends the application.
- Definitions whose name says how they differ from the code (`InsertCharShortest`, `ResetImOnly`, `CheckAgain_Skipped` ...) stand
  beside the definition they vary and are used by no specification. `mutants` names the property each one breaks.

### What is assumed of the code around it

- fcitx5 gives the focus to one input context at a time and deactivates the old one first; clicks arrive for the
  focused one only, with an index of the list shown; a reset may arrive at any moment.
- The ibus daemon commits the preedit when the focus leaves, as the mode `IBUS_ENGINE_PREEDIT_COMMIT` asks, and clears
  the table. The engine keeps its state at that moment, so with `LeaveComposing = TRUE` a text is committed twice; as
  this rests on the daemon, the checked instances let the focus leave between texts only.
- fcitx4 calls ResetIM when another input context becomes the current one, and turns the pages of a list by itself.
- The text services framework asks OnTestKeyDown before OnKeyDown and delivers a key only if it was claimed. A context
  grants an edit session only for its own texts. COM dispatches other calls while a service waits in Activate.
- A registry key with subkeys cannot be deleted; its values go with it. COM balances references and locks of a factory,
  and regsvr32 is not run for a DLL an application has loaded.
- SIGPIPE is ignored in the processes of the front-ends, and a write to a connection the server has left is not an error.
- An answer over the socket arrives in pieces only when the timeout falls between them.

## 3. The runs

| Run | Instance | Shows |
|---|---|---|
| `romaji_rules` | the rules of `a`, `ka`, `na`, `nn`, `kk`, `ya`, `kya`, `nya` and a symbol | **fails**: `nya` does not give the kana of its rule (finding) |
| `fcitx5` | two input contexts, texts up to 2 characters, letters k, a, n; ten words to spell | what is committed was in sight, panels never go stale, indices stay in their lists, clicks hit what they show; wherever the cursor is, spelling a word there gives its kana (but for `nya`) and leaves the text around it |
| `fcitx4` | two input contexts, one of which draws its preedit, texts up to 2 characters, pages of 2, characters of 1 and 3 bytes | the window, its caret and its highlight follow the state; a click chooses the word it hit on whatever page, or nothing while a prediction is selected with the keys or the server is new; what is committed was in sight, also when the server is replaced |
| `text_service` | two contexts, texts up to 2 characters, pages of 2, one kind of disturbance at a time, a history of 2 pronunciations, of 1 when more may happen than toggles | a granted session repairs document, list and window; the two key tables agree, and a key whose keyboard state cannot be read changes nothing; commits arrive once and where the user works; crashes only for the reasons named; a correction is shown first by the next conversion, and survives commits of other texts until it is corrected again; undisturbed, what is committed was in sight |
| `win_kept` | toggled while composing | **fails**: a conversion committed in direct mode stays (finding) |
| `text_service_life` | two services, two input methods, up to two faults of a host and one refused call | assertions hold, crashes and hangs have one of the causes named, an input method belongs to one service, answers belong to their requests, the icon shows the mode |
| `tip_dll` | two threads and any number of others, two factories, two categories, two failures | what a registration answers is so (but for values of the server that could not be set), the framework never knows a service COM cannot load, the threads share one factory, which stays |
| `ibus` | texts up to 2 characters, the focus leaving between texts | preedit and table follow the state; what is committed was in sight |
| `ibus_mode` | texts of 1 character | **fails**: the mode displayed after a change of focus is wrong (finding) |
| `kkc` | two pronunciations, one client of SBCL or of ECL or two behind the proxy, an engine that may print a line when it starts, answer out of the protocol, die | answers belong to their requests, or after a line nobody has drained to the request before; every request ends |
| `kkc_dead` | an engine that prints nothing extra | **fails**: a dead engine is never restarted (finding) |
| `socket` | texts up to 3 characters, with and without retries | a repeated key counts once; what is shown is what is composed; every request ends |

Each module has a type invariant, which held in the instances above; those of `Fcitx5Engine`, `IbusEngine`,
`KkcEngine`, `ReconnectingClient`, `TextService`, `TextServiceLife` and `TipDll` are proved for every instance (section 4).

### Bounds, and why they are enough

- `MaxLen` is the longest text composed: a key that would make it longer is not pressed. Two characters give a cursor at the start, in the middle
  and at the end, conversions of one and of two segments, and every clause of `process-input`: TLC's coverage shows each
  action and disjunct taken. The hazards are about states and lists, which do not grow with the text; what a word of
  six letters makes of such a text is computed by `KanaReadBack` in each state, without this bound. The longest rules of the table have
  three letters; the code looks at up to four left of the cursor (`MaxDiff`).
- Letters k, a, n with five rules (and three with a y, which only `KanaReadBack` types): a vowel, a syllable, an n that waits, an n doubled, a doubled consonant, which gives a
  kana and a letter. Windows and ibus use fewer, as their tables are the same code.
- Two input contexts: properties relate the focused one and any other.
- Candidates: the first answer has one or two forms and the second up to three, which repeat forms of the first, in
  another order, or none at all. `MaxCandidateCount` is not reached.
- `MaxHistory`: the number of pronunciations remembered, so that TLC stops. Two where at most the mode
  is toggled, so that one is overwritten while another stays; one (`MaxDisturbed`) with the other disturbances. The theorem has no
  such bound.
- `MaxRefusals`: the edit sessions refused one after the other, or the calls of Activate and Deactivate refused in all.
  One is enough to leave any step undone, as what the code does next looks at that step alone.
- `Circumstances`: refused sessions come with toggled modes; the other disturbances of a text service come alone, since
  what each leaves behind (a dead composition, no window, no server, a key given back) is dealt with by different code.
- `PageSize = 2`: lists of up to four forms have a full and a partly filled page.
- Two services, two contexts, two threads: the properties relate one and any other. `SYMMETRY` exchanges them; the
  runs with symmetry check safety only.
- `MaxFaults`, `MaxNoise`, `MaxLocks` and `MaxImes` bound a host of services: two faults let one follow on what another
  left, one message puts every later answer behind, the second input method has an id of its own.
- `MaxFailures = 2`: a registration that fails and a removal that fails in turn. `MaxFactories = 2`: one too many.
  `MaxUses = 3`, `MaxRefs = 2`: both threads hold the factory, one locks it.
- `MaxLines = 2`: a late line, or a request of the other client, is with the engine when one more is made.
- `MaxKeys = 3`: a lost, a repeated and an ordinary key lead to different lengths.
- Two pronunciations in `kkc` make four requests: the last, the one before it and an older one are told apart.
- `romaji_rules` ends with each rule, the process of a socket client may exit, an application may crash and a
  bound of `text_service_life` or `tip_dll` may be reached: these instances do not check for deadlock. In all others
  some event is always possible.

### Fairness

Input methods and front-ends only act when a key or an event arrives, and nobody has to press a key: their
specifications have no fairness, and promise safety only. Two have it.

- `KkcEngine`: weak fairness of each client's writes and reads (a blocked `read-line` returns once there is a line or the end of the
  output) and of the engine's work (an engine that is alive and has a request answers it in the end). A hanging engine
  blocks the front-end for ever, as `read-line` has no timeout: the second assumption is needed and is one about engines.
- `ReconnectingClient`: weak fairness of the client, whose every wait ends after one second by a timeout of its own.
  Nothing is assumed of the server: `ClientRequestsEnd` holds with one that never answers.

### Findings

1. `nya`, `nyu`, `nye`, `nyo` have rules that no sequence of letters reaches: the y makes a kana of the n, and `nya` gives
   the kana n and ya (`senn/src/im/buffer.lisp:38`, against the table, `senn/src/ja.lisp:40`).
2. A conversion begun in hiragana mode and committed in direct mode stays in the Windows input method, since nil as a
   new state means "no change" to the caller (`senn/src/win/im/process-input.lisp:78`).
3. After a change of focus the ibus property says direct while keys compose (`senn/package/ibus-senn/main.cpp:206`).
4. The failure of a dead engine never reaches the code that would restart it (`senn/src/im/kkc/request.lisp:17`).

What the models have to allow for, and no text of the repository speaks against, is kept with the properties: the named
causes of crashes and hangs in `CrashesHaveCauses` and `FailuresHaveCauses` (a composition pointer nobody has set,
handlers deleted twice, pipes that outlive the failure to make them), `disturbed` in `OneFactory` (the critical section
deleted by another thread's end), `shared` in `FactoryKept` (a factory that deletes itself under the pointer in the
table), `stuck`, `cut` and `unset` in `AnswersTrue`, `mixed` and `late` in `AnswersFit`. `unset` are the values of the server DLL, its path among
them, for which RegSetValueExA failed: the code does not look at its answer and S_OK follows (`com-ime-server/dllmain.cpp:371`).
`late` is any line an engine prints that nobody drains: with SBCL one printed after the loop of run-engine, with ECL and
the proxy every one. `AnswersFit` then says nothing, and `OneAnswerBehind` that the client of such an engine is one answer behind and
never two. Of two requests of the proxy that meet (`mixed`) neither says anything. `"unread"` in `ClaimedKeysHandled` is a
key claimed and then given back, because the state of the keyboard could not be read (`key_event_handler.cpp:342`). Two more
are in `hazards` only: the bound of fifteen candidates is applied to one of two lists that are merged
(`senn/src/im/converting.lisp:66`); and a final letter n is completed by an n at the cursor, so that with the cursor elsewhere it stays a
letter, although the comment means it to become a kana (`senn/src/im/inputting.lisp:37`). `NoTextLost` states what is
converted with the cursor at the end.

## 4. The theorems

Six modules prove theorems about a specification or two each, for every value of the constants that satisfies the named
assumptions. `DataProofs` holds the lemmas about buffers, typing states and conversions, which both input methods use, and
`ImeProofs`, which extends it, those the three front-ends of the fcitx input method share.

| Module | Proved of every instance |
|---|---|
| `Fcitx5EngineProofs` | `TypeCorrect`; `IndicesStayValid`, `PanelsNeverStale`, `NothingLeftBehind`, `PredictionsAreFresh`: the invariants of the run; `CommitsWhatIsInSight`: it implements `Composer`; `TextIsNeverLost`, `CandidatesKeepTheirPlaces`, `ClickMeansItsEntry`: its action properties |
| `Fcitx4EngineProofs` | `WindowNeverStale`, `CaretStaysInText`; `ClickMeansItsWord`, `CommitsWhatIsInSight`: all the run checks |
| `IbusEngineProofs` | `TypeCorrect`, `ClicksMeanWhatIsSeen` (the table on the screen is always that of the state); `DisplayNeverStale`, `CommitsWhatIsInSight` |
| `TextServiceProofs` | of `TextService`: `TypeCorrect`; `DirectStateKeepsDirectMode`, `DocumentIsBroughtUpToDate`, `WindowFollowsState`, `NothingElseCrashes`; `ClaimsAreKept`, `CorrectionsAreKept`, `TextsArrive`, `CommitsWhatIsInSight`: all the run checks |
| `ClientProofs` | of `KkcEngine`: `TypeCorrect`, `AnswersAlwaysFit`, `OneBehindAtMost`; of `ReconnectingClient`: `ClientTypeCorrect`, `ShownStaysComposed`, `KeysCountOnce` |
| `TipProofs` | of `TextServiceLife`: `TypeCorrect`, `HandlerWasThere`, `OnlyTheseCauses`, `EachItsOwn`, `WrongAnswersAreNoise`, `IconFollowsMode`; of `TipDll`: `TipTypeCorrect`, `AnswersAreTrue`, `NeverAnnouncedUnloadable`, `ThreadsShareOneFactory`, `FactoryStays`: all the runs check |

Each is an inductive invariant, checked by TLC on the instance of the run before it was proved, and one lemma or step
per action that it is preserved; the theorems follow from it by temporal steps.

### What is assumed

The assumptions modules name are these: the romaji table and the katakana map strings to strings and characters to
characters; the predictor answers a list of strings; every conversion has at least one segment and every segment at
least one candidate, as the fallback of the client has, and lists of candidates are lists of strings, possibly empty; a
character is one to four bytes and a page has at least one row; `NoContext` and `Nobody` are no context, client or
thread; categories have names of their own. Bounds are natural numbers.

Some theorems assume more, and say so in their `ASSUME`:

- `TableCompletesN`, of `TextIsNeverLost`: two letters n have a rule, and no rule yields nothing or ends in a letter n, as in
  `ja.lisp`.
- `PredictorOffersWords`, of `TextIsNeverLost`, the two theorems about clicks and `WindowNeverStale`: no prediction for a text
  is empty, as in `im/predict/`. Choosing an empty one would leave nothing in sight.
- `EngineRepeatsNothing`, of `CandidatesKeepTheirPlaces` and `WindowFollowsState`: no answer of the engine has a form twice.
- `PredictorRepeatsNothing`, of `WindowFollowsState`: no list of predictions has a form twice. The Windows servers have no
  predictor or the one of `im/predict/katakana.lisp`, which offers one form.
- `~LeaveComposing`, of the two theorems of ibus about the whole display and about commits: as in the run, the focus
  leaves between texts. Types and the table need no such assumption.

The first four are definitions of `RomajiBuffer`, `Inputting` and `Converting`, and TLC evaluates them for the data of the runs.

### The input method and its front-ends

`DataProofs` has the data: insertion, deletion and moves keep the cursor inside the text (for insertion: the
offset of the rule chosen lies left of the cursor), a merged list begins with the old one and repeats nothing, indices
move within their lists. `ImeProofs` shows of every state and key that

- the new state is good, that is of its shape and with indices that are positions of their lists, and the answer is one of
  three (`ProcessInputAnswers`, `SelectCandidateAnswers`): nothing changed and no view; a view of the new state that commits
  nothing; or a view of the new state that commits the text of the old one, or the space;
- the new state is one of ten things made of the old one (`Outcome`): edited, converted, one candidate chosen, and so on,
  each with what it must commit. Fresh predictions, texts that are not lost and candidates that stay where they are
  are read off this list, so that they are proved once, without the keys and without a front-end.

What a front-end adds is what it shows. *fcitx5*: `IInv == TypeOK /\ IndicesValid /\ PanelsReflectState /\
NothingComposedUnfocused`. None of the parts is inductive alone. The panel holds the preedit that a commit must equal, so the
refinement needs `PanelsReflectState`; that a panel can be computed from a state at all, and is a panel, needs the indices
to be valid; that it shows the state again after the focus has moved needs the state to be empty in between; and all need
the types. Types are not enough for the indices: `mod` by the length of the candidates needs the list not to be empty.
`ClickShows` compares the list a click is aimed at with the view it results in, for each kind of state.

*fcitx4* has one window, of which a server that was replaced knows nothing, and a list that an empty answer does not clear.
Its `IInv` has the text shown and the caret; that no list is left over of an empty text (`ListShown`) needs predictions that
belong to their text and are none for the empty one; and that nothing false is committed after a loss needs that the new input method
composes nothing until it has answered with a view. The caret arrives as a number of bytes, a fold over the characters
left of it: that it is found again uses lemmas about the lengths of prefixes, which grow with every character.

*ibus* has two. `IInv` says that states are good and the table is that of the state, whoever has the focus. `CalmInv` adds
the rest of the display and that without the focus nothing is composed: the next context would receive it.

### The Windows text service

The proofs go through the same three layers as the code. *Input method:* a request leaves the state `WellFormed` (direct,
a typing state with its predictions, or a conversion whose lists hold their indices) and is ignored, edits, converts or
commits (`KeyAnswers`); what `Learn` and `Recall` make of the history is shown of them alone. *Views:* each handler, with
its session granted or refused, leaves document and list in one of a few ways (`EditingShown`, `ConvertingShown`,
`CommittedShown`), whatever composition it met. *Events:* one lemma each.

`IInv` says that the state is well-formed, the list drawn and the document in its place, and adds to the properties

- `Located`: only the application ends a composition, and without a change of focus it is where the keys go. From this follow
  the causes of a crash, and that a text replaced is the text in sight;
- `WindowDrawn`: a window is what `DrawCandidates` and `CalculateSize` make of the list, with a current row on the
  page or none. `WindowShowsState` follows, but is not inductive: it says nothing of a window while sessions are
  refused, in which the next granted one finds it;
- `ListFollows` and `DocumentCatchesUp`, which need each other's cases apart: an editing view updates the list before it asks for
  its session, a converting view only when it was granted, a committed one destroys the list first;
- `CalmInSight`: undisturbed, the text in sight is that of the state and direct mode has the direct state. This is
  what `CommitsWhatIsInSight` needs of a state before Enter, and what fails when the mode is toggled while composing
  (the first finding);
- `NothingTwice`, conditional on its two assumptions, since lists that are merged or reordered by the history repeat
  nothing only when their parts do not.

The proof led to a sharper `WindowShowsState`: the highlighted row is tied to the current form of a conversion only, and among
predictions no row is highlighted, which the property did not say before.

### Processes and pipes

*Socket client.* Between requests the connection is empty in both directions (`Settled`); during one the request is alone in
it and not handled, or its answer is, or a connection that has ended swallowed it (`OnTheWay`); and a request is repeated only to a new
input method (`TriedBefore`). A key thus counts once, for texts of every length.

*Conversion engine.* While no line is left that nobody drains and no requests have met, whoever waits is alone (`OneWaits`) and the pipes hold
its request, its answer or nothing (`Queue`). With such a line, exactly one line or request is left from before the
one under way (`Behind`), for any number of requests and clients, with SBCL and with ECL: `OneAnswerBehind` says it never becomes two. What
threads of the proxy that meet do to each other is not bounded, and `mixed` says they have met.

*Text services.* A connection has an input method the server knows, and nobody else's, only if no answer still in the pipe
names it: an answer delayed by a message is given to the next one that asks. `Owned` says so of connections and unread
answers together. `Sound` says how far a service has come, and which refusals its dangling pointers come from. The proof found a
corner the run does not reach with its one refusal: an item that could not be removed from the bar is still the bar's when
the next activation fails to add its own, so that the bar's item and the service's button are no longer the same. It is
the value `"left"` of `item` now, and covered by the theorems only.

### Registration and the factory

*Registration.* A call in progress is a list and a position in it. Of a registration, all that comes before the position is
there, and what is there of the text service was written in the order of the list, so that COM's entries are there when
the framework's are (`WrittenUpTo`); of a removal, what is left belongs to the steps to come, and the categories that are left are the last ones
(`Removed`), since `UnregisterCategories` stops at the first that is gone. That a failed registration removes everything
although it stops there rests on that order, and so does `AnnouncedIsLoadable` at each step and for each end of the process. A DLL that is not
being worked on fits its last answer (`Settled`).

*The factory.* While the section is undisturbed whoever is in it owns it, and who has passed the second check finds no factory
(`Guarded`): one is made. In an earlier form of the model the check and the making were one step, and this held for the
wrong reason, also in a disturbed section; the proof, which did not need the section, showed it. `Counted` says that there are more uses
than locks as long as a thread has the factory, for any number of threads, so that LockServer never deletes it; and
`Unshared` that no count leaves zero before a reference is taken.

### Only model-checked

- Liveness, `RequestsEnd` and `ClientRequestsEnd`: TLAPS proves none under fairness here.
- What spelling a word yields (`KanaReadBack`), an induction over its letters, and that the
  caret of fcitx4 is a number, which is the value of a fold. TLAPS has no induction over data here. The proofs about fcitx4 do
  without its type invariant.
- The four runs that fail, which are findings.

## 5. What is not modelled

- Menus, fonts, colours and the look of display attributes; the text of JSON messages.
- The methods of the candidate list by which an application would draw it (GetCount, GetString, SetSelection ...):
  `CandidateListUI::QueryInterface` does not answer for their interface (`candidate_ui_list.cpp:14`), so nobody calls them.
- Other transports of the same calls: the named pipe of `stateful_ime_conn.cpp`, embedded Lisp, the pipes of a child, the
  COM marshalling generated from the interface, the test program `com-ime-main`.
- Several proxies of engines started in the same moment (`fcitx-kkc-proxy.lisp`), when the first is slow to listen.
- The conversion engines behind their one line per request: searches over probabilities and learnt weights, the
  reading of corpora and of the user dictionary; dependency parsing, which nothing in senn uses.
- The Emacs client, whose server is no longer in the repository, and the input method under construction (`im2`).
