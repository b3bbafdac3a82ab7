----------------------------- MODULE CandidateUI -----------------------------
(***************************************************************************)
(* The candidate list of the Windows text service: what KeyEventHandler    *)
(* keeps of it (CandidateListState), the user interface element the text   *)
(* services framework knows (CandidateListUI in candidate_ui_list.cpp) and *)
(* the candidate window (candidate_window.cpp).  The application decides   *)
(* whether there is a window.  One that draws the list itself gets nothing *)
(* to draw: QueryInterface does not answer for the interface with the      *)
(* candidates, and no method of it is ever called.                         *)
(***************************************************************************)
EXTENDS Integers, Sequences

CONSTANTS
  Context,   \* the contexts of the application, where text is composed
  PageSize   \* kPageSize

ASSUME PageAssumption == PageSize \in Nat \ {0}

VARIABLES
  list,       \* candidate_list_state_
  ui,         \* candidate_list_ui_
  window,     \* the candidate window: hidden, or what is on it
  registered  \* whether the class of the window is registered

uiVars == <<list, ui, window, registered>>

NoList == [kind |-> "none"]

\* CandidateListState::Update.
List(candidates, index) ==
  [kind |-> "list", candidates |-> candidates, index |-> index]

NoUI == [kind |-> "none"]

HiddenWindow == [shown |-> FALSE, rows |-> <<>>, highlight |-> -1, height |-> 0, placed |-> FALSE]

UITypeOK(Form) ==
  /\ list \in {NoList} \cup [kind : {"list"}, candidates : Seq(Form), index : Int]
  /\ ui \in {NoUI} \cup [kind : {"window", "bare", "element"}, context : Context]
  /\ window \in [shown : BOOLEAN, rows : Seq(Form), highlight : Int, height : Nat, placed : BOOLEAN]
  /\ registered \in BOOLEAN
  /\ list = NoList <=> ui = NoUI

UIInit ==
  /\ list = NoList
  /\ ui = NoUI
  /\ window = HiddenWindow
  /\ registered = TRUE

-----------------------------------------------------------------------------
(* The class of the window, which DllMain registers whenever a thread      *)
(* starts and unregisters whenever one ends.                               *)

RegisterWindowClass == registered' = TRUE /\ UNCHANGED <<list, ui, window>>

\* It stays as long as there is a window of it.
UnregisterWindowClass ==
  /\ registered' = (registered /\ ui.kind = "window")
  /\ UNCHANGED <<list, ui, window>>

-----------------------------------------------------------------------------
(* The window.                                                             *)

Smaller(m, n) == IF m < n THEN m ELSE n

\* The page of an index, by the division of C: none at all is on the first.
Page(index) == IF index < 0 THEN 0 ELSE index \div PageSize

\* The candidates with an index from `begin' up to `end'.
Rows(l, begin, end) == SubSeq(l.candidates, begin + 1, end)

DrawCandidates_FirstPage(l) ==
  [rows |-> Rows(l, 0, Smaller(PageSize, Len(l.candidates))), highlight |-> l.index]

\* The rows of the current page, and which of them has the other background.
DrawCandidates(l) ==
  LET begin == Page(l.index) * PageSize
  IN  [rows |-> Rows(l, begin, Smaller(begin + PageSize, Len(l.candidates))),
       highlight |-> l.index - begin]

\* The height of the window, in rows.
CalculateSize(l) ==
  LET begin == Page(l.index) * PageSize
  IN  Smaller(begin + PageSize, Len(l.candidates)) - begin

\* WM_PAINT; nothing is painted on a window without a height.
WindowProc(w, l) ==
  IF w.height = 0 THEN w
  ELSE LET drawn == DrawCandidates(l)
       IN  [w EXCEPT !.rows = drawn.rows, !.highlight = drawn.highlight]

\* Show: only a list with candidates is visible.
Show(w, l) == [w EXCEPT !.shown = l.candidates # <<>>]

-----------------------------------------------------------------------------
(* CandidateListUI.                                                        *)

\* The window gets its size, is painted at once, and shown or hidden.
NotifyUpdateUI(u, l) ==
  window' = IF u.kind = "window"
            THEN Show(WindowProc([window EXCEPT !.height = CalculateSize(l)], l), l)
            ELSE window

\* Create: an application that draws lists itself says so; otherwise there is
\* a window, if its class is registered.
Create(context, uiless) ==
  [kind |-> IF uiless THEN "element" ELSE IF registered THEN "window" ELSE "bare",
   context |-> context]

Ensured(context, uiless) == IF ui = NoUI THEN Create(context, uiless) ELSE ui

\* HandleIMEView with a list: the element is made when there is none, the list
\* updated, the element notified.
UpdateList(context, uiless, candidates, index) ==
  /\ ui' = Ensured(context, uiless)
  /\ list' = List(candidates, index)
  /\ NotifyUpdateUI(ui', list')
  /\ UNCHANGED registered

\* The state is deleted, the window or the element ended (DestroyUI), and the
\* object released.
DestroyUI ==
  /\ list' = NoList
  /\ ui' = NoUI
  /\ window' = HiddenWindow
  /\ UNCHANGED registered

\* OnLayoutChange: the change of another context is none of its business.
ConcernsUI(context) == ui.kind \in {"window", "bare"} /\ context = ui.context

\* Move, which a window that is not there survives.
Move ==
  /\ window' = IF ui.kind = "window" THEN [window EXCEPT !.placed = TRUE] ELSE window
  /\ UNCHANGED <<list, ui, registered>>
=============================================================================
