------------------------------ MODULE Notebook ------------------------------
(***************************************************************************)
(* A notebook (GTKControl.h: NotebookTab, AdjustIndex; callback.cpp:          *)
(* CreateControl, P_VISIBLE, MarkRecursive, UpdateTabs, the messages of       *)
(* CLASS_NOTEBOOK; EventHandler.cpp: on_currentChanged,                       *)
(* on_tabCloseRequested).  The server numbers the pages, hidden ones too; the *)
(* QTabWidget numbers the tabs that are shown.  A header is a control that    *)
(* the server puts on the tab of one page.                                   *)
(***************************************************************************)
EXTENDS Integers, Sequences, FiniteSets

CONSTANTS
  Headers,   \* controls for the tabs
  Kind,      \* the class of each: "label", "image", "eventbox", "button"
  Titled,    \* bound: pages that the server gives another title
  MaxPages   \* bound: pages

NotebookAssumption ==
  /\ Kind \in [Headers -> {"label", "image", "eventbox", "button"}] /\ Headers \cap {"none", "close"} = {}
  /\ MaxPages \in Nat \ {0} /\ Titled \subseteq 1..MaxPages

None == "none"
Blank == ""   \* the text of a tab without a name
Texts == {Blank, "page", "label", "text"}

VARIABLES
  notebook,  \* whether ptr of the notebook is set
  pages,     \* its NotebookTabs
  live,      \* pages whose control was not disposed
  tabs,      \* the tabs of the QTabWidget
  current,   \* the tab that is in front, 0 when there is none
  closable,  \* tabsClosable
  ref,       \* the page each header belongs to, 0 for none
  state,     \* of each header: "empty" (an image without picture), "ready", "disposed"
  caption,   \* what a label says
  misled,    \* history: the server was told of another page than was meant
  headed,    \* history: pages that were given a header
  stray,     \* history: a text was cleared by the number of a page, not of a tab
  misplaced, \* history: the tab of another page was changed for one that is hidden
  crashed    \* history: where the client followed a null pointer

history == <<headed, stray, misplaced>>
vars == <<notebook, pages, live, tabs, current, closable, ref, state, caption, misled, history, crashed>>

Init ==
  /\ notebook = TRUE /\ pages = <<>> /\ live = {} /\ tabs = <<>> /\ current = 0 /\ closable = FALSE
  /\ ref = [h \in Headers |-> 0]
  /\ state = [h \in Headers |-> IF Kind[h] = "image" THEN "empty" ELSE "ready"]
  /\ caption = "label"
  /\ misled = FALSE
  /\ headed = {} /\ stray = FALSE /\ misplaced = FALSE /\ crashed = None

-----------------------------------------------------------------------------
(* Pages and tabs *)

\* The place of page p among the tabs, from 1.
AdjustIndex(ps, p) == 1 + Cardinality({q \in 1..(p - 1) : ps[q].visible})

\* The page at tab t, 0 when there is none.
AdjustIndexReversed(ps, t) ==
  LET at == {p \in DOMAIN ps : ps[p].visible /\ AdjustIndex(ps, p) = t} IN
    IF at = {} THEN 0 ELSE CHOOSE p \in at : TRUE

\* QTabWidget does nothing when there is no such tab.
SetTabText(ts, t, text) == IF t \in DOMAIN ts THEN [ts EXCEPT ![t].text = text] ELSE ts
SetTabButton(ts, t, w) ==
  IF t \in DOMAIN ts THEN [ts EXCEPT ![t].right = w, ![t].shown = (w # None)] ELSE ts
ShowButton(ts, t, b) ==
  IF t \in DOMAIN ts THEN [ts EXCEPT ![t].shown = b /\ ts[t].right # None] ELSE ts

\* on_currentChanged tells the page; a tab that is not there is not told.
CurrentChanged(ps, ts, t) ==
  LET p == AdjustIndexReversed(ps, t) IN
    misled' = (misled \/ (p # 0 /\ p # ts[t].page))

\* Mutant: the close buttons that Qt makes stay.
UpdateTabsShown(ts) ==
  IF closable THEN ts
  ELSE [t \in DOMAIN ts |-> IF ts[t].right = None THEN [ts[t] EXCEPT !.right = "close", !.shown = TRUE] ELSE ts[t]]

\* The tabs become closable, each gets a button, and all buttons are hidden.
UpdateTabs(ts) ==
  IF closable THEN ts
  ELSE [t \in DOMAIN ts |-> [ts[t] EXCEPT !.right = IF @ = None THEN "close" ELSE @, !.shown = FALSE]]

\* MarkRecursive reaches h, for page p, on tabs ts.
MarkRecursive(ts, h, p) ==
  LET t == AdjustIndex(pages, p)
      seen == pages[p].visible IN
    /\ ref' = [ref EXCEPT ![h] = p] /\ headed' = headed \cup {p}
    /\ CASE Kind[h] = "label" ->
              /\ pages' = [pages EXCEPT ![p].title = caption]
              /\ tabs' = IF seen THEN SetTabText(ts, t, caption) ELSE ts
              /\ UNCHANGED closable
         [] Kind[h] = "image" -> pages' = [pages EXCEPT ![p].image = h] /\ tabs' = ts /\ UNCHANGED closable
         [] Kind[h] = "eventbox" ->
              /\ pages' = [pages EXCEPT ![p].close = h] /\ closable' = TRUE
              /\ tabs' = IF seen THEN ShowButton(UpdateTabs(ts), t, TRUE) ELSE UpdateTabs(ts)
         [] Kind[h] = "button" ->
              /\ pages' = [pages EXCEPT ![p].button = h]
              /\ tabs' = IF seen THEN SetTabButton(ts, t, h) ELSE ts
              /\ UNCHANGED closable

-----------------------------------------------------------------------------
(* What the server asks for *)

\* Mutant: a page more than the bound.
AddPages ==
  /\ notebook /\ Len(pages) <= MaxPages
  /\ pages' = Append(pages, [visible |-> FALSE, title |-> "page", image |-> None, button |-> None,
                             close |-> None, header |-> None])
  /\ live' = live \cup {Len(pages) + 1}
  /\ UNCHANGED <<notebook, tabs, current, closable, ref, state, caption, misled, history, crashed>>

\* CreateControl in a notebook.
AddPage ==
  /\ notebook /\ Len(pages) < MaxPages
  /\ pages' = Append(pages, [visible |-> FALSE, title |-> "page", image |-> None, button |-> None,
                             close |-> None, header |-> None])
  /\ live' = live \cup {Len(pages) + 1}
  /\ UNCHANGED <<notebook, tabs, current, closable, ref, state, caption, misled, history, crashed>>

\* Mutant: ptr of the notebook is not looked at.
ReachableAlways(p) == p \in live

\* P_VISIBLE of a page goes on when the notebook has its widget.
Reachable(p) == p \in live /\ notebook

\* The tab of a page that becomes visible; its close button is one of Qt's.
NewTab(p) ==
  LET nt == pages[p] IN
    [page |-> p, text |-> nt.title,
     right |-> IF nt.button # None THEN IF state[nt.button] = "disposed" THEN None ELSE nt.button
               ELSE IF closable THEN "close" ELSE None,
     shown |-> IF nt.button # None THEN state[nt.button] # "disposed" ELSE closable /\ nt.close # None]

\* Mutant: addTab.
AtTheEnd(p) == Len(tabs) + 1

\* insertTab at AdjustIndex, at the end when there are fewer tabs.
Place(p) == LET t == AdjustIndex(pages, p) IN IF t > Len(tabs) THEN Len(tabs) + 1 ELSE t

\* The first tab comes to the front; one before it moves the current tab on silently.
Show(p) ==
  /\ Reachable(p) /\ ~pages[p].visible
  /\ pages' = [pages EXCEPT ![p].visible = TRUE]
  /\ IF ~notebook \/ (pages[p].image # None /\ state[pages[p].image] # "ready")
       THEN crashed' = "page" /\ UNCHANGED <<tabs, current, misled>>
       ELSE LET at == Place(p) IN
              /\ tabs' = SubSeq(tabs, 1, at - 1) \o <<NewTab(p)>> \o SubSeq(tabs, at, Len(tabs))
              /\ current' = IF tabs = <<>> THEN 1 ELSE IF at <= current THEN current + 1 ELSE current
              /\ IF tabs = <<>> THEN CurrentChanged(pages', tabs', 1) ELSE UNCHANGED misled
              /\ UNCHANGED crashed
  /\ UNCHANGED <<notebook, live, closable, ref, state, caption, history>>

\* QTabWidget::removeTab: the tab to the right comes to the front, else the last.
Removed(t) ==
  /\ tabs' = SubSeq(tabs, 1, t - 1) \o SubSeq(tabs, t + 1, Len(tabs))
  /\ current' = IF t < current THEN current - 1
                ELSE IF t = current /\ t = Len(tabs) THEN t - 1 ELSE current

\* Mutant: the page counts as visible until its tab is gone.
HideLate(p) ==
  /\ Reachable(p) /\ pages[p].visible
  /\ \E t \in DOMAIN tabs :
       /\ tabs[t].page = p /\ Removed(t)
       /\ IF t <= current THEN CurrentChanged(pages, tabs', current') ELSE UNCHANGED misled
  /\ pages' = [pages EXCEPT ![p].visible = FALSE]
  /\ UNCHANGED <<notebook, live, closable, ref, state, caption, history, crashed>>

\* The tab is found by its widget and removed when the page is not visible any more.
Hide(p) ==
  /\ Reachable(p) /\ pages[p].visible
  /\ pages' = [pages EXCEPT ![p].visible = FALSE]
  /\ \E t \in DOMAIN tabs :
       /\ tabs[t].page = p /\ Removed(t)
       /\ IF t <= current THEN CurrentChanged(pages', tabs', current') ELSE UNCHANGED misled
  /\ UNCHANGED <<notebook, live, closable, ref, state, caption, history, crashed>>

\* Mutant: the tab is changed also when the page is hidden.
SetTitleAnyway(p) ==
  /\ notebook /\ p \in live \cap Titled
  /\ pages' = [pages EXCEPT ![p].title = "text"]
  /\ tabs' = SetTabText(tabs, AdjustIndex(pages, p), "text")
  /\ UNCHANGED <<notebook, live, current, closable, ref, state, caption, misled, history, crashed>>

\* MSG_CUSTOM_MESSAGE2.
SetTitle(p) ==
  /\ notebook /\ p \in live \cap Titled
  /\ pages' = [pages EXCEPT ![p].title = "text"]
  /\ tabs' = IF pages[p].visible THEN SetTabText(tabs, AdjustIndex(pages, p), "text") ELSE tabs
  /\ UNCHANGED <<notebook, live, current, closable, ref, state, caption, misled, history, crashed>>

\* The server puts each header on one page.
Placeable(h, p) == notebook /\ state[h] # "disposed" /\ ref[h] \in {0, p}

\* The text of the tab is cleared by the number of the page.
Cleared(p) == IF pages[p].visible THEN SetTabText(tabs, p, Blank) ELSE tabs
Strays(p) == stray' = (stray \/ (pages[p].visible /\ AdjustIndex(pages, p) # p))

\* MSG_CUSTOM_MESSAGE3; the page is given by its number and may be disposed.
HeaderOf(h, p) ==
  /\ Placeable(h, p)
  /\ MarkRecursive(Cleared(p), h, p) /\ Strays(p)
  /\ UNCHANGED <<notebook, live, current, state, caption, misled, misplaced, crashed>>

\* CreateControl in a box that is a header already.
HeaderGrows(h, p) ==
  /\ Placeable(h, p) /\ p \in headed
  /\ MarkRecursive(tabs, h, p)
  /\ UNCHANGED <<notebook, live, current, state, caption, misled, stray, misplaced, crashed>>

\* MSG_CUSTOM_MESSAGE4: a box or an image marks the tab, anything else is put on it, on
\* the tab at that place when the page has none.
SetHeader(h, p) ==
  /\ Placeable(h, p) /\ p \in live
  /\ Strays(p)
  /\ LET t == AdjustIndex(pages, p)
         ts == IF pages[p].header # None THEN SetTabButton(Cleared(p), t, None) ELSE Cleared(p) IN
       /\ IF Kind[h] = "image"
            THEN MarkRecursive(ts, h, p)
            ELSE /\ tabs' = SetTabButton(ts, t, h) /\ pages' = [pages EXCEPT ![p].header = h]
                 /\ ref' = [ref EXCEPT ![h] = p] /\ headed' = headed \cup {p}
                 /\ UNCHANGED closable
       /\ misplaced' = (misplaced \/ (~pages[p].visible /\ t \in DOMAIN tabs))
  /\ UNCHANGED <<notebook, live, current, state, caption, misled, crashed>>

\* A header that names a page on a notebook without widget: a null pointer is followed.
Lost(h) == ref[h] # 0 /\ ~notebook

\* P_CAPTION of a label.
Caption(h) ==
  /\ Kind[h] = "label" /\ state[h] # "disposed" /\ caption' = "text"
  /\ IF ref[h] = 0 THEN UNCHANGED <<pages, tabs, crashed>>
     ELSE IF Lost(h) /\ pages[ref[h]].visible THEN crashed' = "header" /\ UNCHANGED <<pages, tabs>>
     ELSE /\ pages' = [pages EXCEPT ![ref[h]].title = "text"]
          /\ tabs' = IF pages[ref[h]].visible
                       THEN SetTabText(tabs, AdjustIndex(pages, ref[h]), "text") ELSE tabs
          /\ UNCHANGED crashed
  /\ UNCHANGED <<notebook, live, current, closable, ref, state, misled, history>>

\* An image gets its picture.
Load(h) ==
  /\ Kind[h] = "image" /\ state[h] = "empty"
  /\ IF Lost(h) /\ pages[ref[h]].visible THEN crashed' = "header" /\ UNCHANGED state
                ELSE state' = [state EXCEPT ![h] = "ready"] /\ UNCHANGED crashed
  /\ UNCHANGED <<notebook, pages, live, tabs, current, closable, ref, caption, misled, history>>

\* P_VISIBLE of a header: an eventbox shows or hides the close button, the others bring
\* the button of the page back, on the tab at that place whether it is the page's or not.
ShowHeader(h, on) ==
  /\ ref[h] # 0 /\ state[h] # "disposed" /\ (on \/ Kind[h] = "eventbox")
  /\ LET p == ref[h]
         t == AdjustIndex(pages, p)
         b == pages[p].button IN
       IF Kind[h] # "eventbox" /\ b = None
         THEN IF Lost(h) THEN FALSE ELSE UNCHANGED <<tabs, misplaced, crashed>>
       ELSE IF Lost(h) \/ (Kind[h] # "eventbox" /\ state[b] = "disposed")
         THEN crashed' = "header" /\ UNCHANGED <<tabs, misplaced>>
       ELSE /\ tabs' = IF Kind[h] = "eventbox" THEN ShowButton(tabs, t, on) ELSE SetTabButton(tabs, t, b)
            /\ misplaced' = (misplaced \/ (~pages[p].visible /\ t \in DOMAIN tabs))
            /\ UNCHANGED crashed
  /\ UNCHANGED <<notebook, pages, live, current, closable, ref, state, caption, misled, headed, stray>>

\* P_PAGE.
SetPage(p) ==
  /\ notebook /\ pages[p].visible /\ current' = AdjustIndex(pages, p)
  /\ IF current' # current THEN CurrentChanged(pages, tabs, current') ELSE UNCHANGED misled
  /\ UNCHANGED <<notebook, pages, live, tabs, closable, ref, state, caption, history, crashed>>

\* P_PAGE is asked for: the page's own number, or the tab's when its control is disposed.
GetPage ==
  /\ notebook /\ current # 0
  /\ LET p == tabs[current].page IN
       misled' = (misled \/ (p \in live /\ p # (IF p \in live THEN p ELSE current)))
  /\ UNCHANGED <<notebook, pages, live, tabs, current, closable, ref, state, caption, history, crashed>>

\* P_DISPOSE: pointers are cleared and the widget is hidden; NotebookTabs keep what they
\* point to, and the tab stays.
DisposePage(p) ==
  /\ live' = live \ {p} /\ p \in live
  /\ UNCHANGED <<notebook, pages, tabs, current, closable, ref, state, caption, misled, history, crashed>>

DisposeHeader(h) ==
  /\ state[h] # "disposed" /\ state' = [state EXCEPT ![h] = "disposed"]
  /\ tabs' = [t \in DOMAIN tabs |-> IF tabs[t].right = h THEN [tabs[t] EXCEPT !.shown = FALSE] ELSE tabs[t]]
  /\ UNCHANGED <<notebook, pages, live, current, closable, ref, caption, misled, history, crashed>>

DisposeNotebook ==
  /\ notebook /\ notebook' = FALSE
  /\ UNCHANGED <<pages, live, tabs, current, closable, ref, state, caption, misled, history, crashed>>

-----------------------------------------------------------------------------
(* What the user does *)

Select(t) ==
  /\ notebook /\ t # current /\ current' = t
  /\ CurrentChanged(pages, tabs, t)
  /\ UNCHANGED <<notebook, pages, live, tabs, closable, ref, state, caption, history, crashed>>

\* on_tabCloseRequested: the server is told of the eventbox, if the page has one.
RequestClose(t) ==
  /\ notebook /\ tabs[t].right = "close" /\ tabs[t].shown
  /\ LET nt == pages[AdjustIndexReversed(pages, t)] IN
       misled' = (misled \/ (nt.close # None /\ ref[nt.close] # tabs[t].page))
  /\ UNCHANGED <<notebook, pages, live, tabs, current, closable, ref, state, caption, history, crashed>>

Next ==
  /\ crashed = None
  /\ \/ AddPage \/ GetPage \/ DisposeNotebook
     \/ \E p \in DOMAIN pages : Show(p) \/ Hide(p) \/ SetTitle(p) \/ SetPage(p) \/ DisposePage(p)
     \/ \E h \in Headers, p \in DOMAIN pages : HeaderOf(h, p) \/ HeaderGrows(h, p) \/ SetHeader(h, p)
     \/ \E h \in Headers : Caption(h) \/ Load(h) \/ DisposeHeader(h)
     \/ \E h \in Headers, on \in BOOLEAN : ShowHeader(h, on)
     \/ \E t \in DOMAIN tabs : Select(t) \/ RequestClose(t)

Spec == Init /\ [][Next]_vars

-----------------------------------------------------------------------------
(* Properties *)

TypeOK ==
  /\ notebook \in BOOLEAN /\ closable \in BOOLEAN /\ stray \in BOOLEAN /\ misplaced \in BOOLEAN
  /\ Len(pages) <= MaxPages /\ live \subseteq DOMAIN pages /\ headed \subseteq DOMAIN pages
  /\ \A p \in DOMAIN pages : pages[p] \in
       [visible : BOOLEAN, title : Texts, image : Headers \cup {None}, button : Headers \cup {None},
        close : Headers \cup {None}, header : Headers \cup {None}]
  /\ \A t \in DOMAIN tabs : tabs[t] \in
       [page : DOMAIN pages, text : Texts, right : Headers \cup {None, "close"}, shown : BOOLEAN]
  /\ current \in 0..Len(tabs)
  /\ ref \in [Headers -> 0..MaxPages] /\ state \in [Headers -> {"empty", "ready", "disposed"}]
  /\ caption \in Texts /\ misled \in BOOLEAN
  /\ crashed \in {None, "page", "header"}

\* The tabs are those of the visible pages, in the order of the pages, however pages
\* were shown and hidden (insertTab at AdjustIndex, removeTab of the widget).
TabsFollowPages ==
  crashed = None =>
    /\ {tabs[t].page : t \in DOMAIN tabs} = {p \in DOMAIN pages : pages[p].visible}
    /\ \A t, u \in DOMAIN tabs : t < u => tabs[t].page < tabs[u].page

\* The server is told of the page the user sees, also when a tab moves because another
\* is removed; only for a disposed page is the answer the number of the tab.
EventNamesThePage == ~misled

\* A tab is named like its page, or has no name because the page was given a header, or
\* because the name of another was cleared in its place.
TabsAreNamed ==
  \A t \in DOMAIN tabs :
    \/ tabs[t].text = pages[tabs[t].page].title
    \/ tabs[t].text = Blank /\ (tabs[t].page \in headed \/ stray)

\* A button on a tab is one of its page, and the close button is shown for an eventbox of
\* the page, unless one was put there for a hidden page.
ButtonsBelong ==
  misplaced \/ \A t \in DOMAIN tabs :
    /\ tabs[t].right \in Headers => ref[tabs[t].right] = tabs[t].page
    /\ tabs[t].right = "close" /\ tabs[t].shown =>
         \E h \in Headers : Kind[h] = "eventbox" /\ ref[h] = tabs[t].page

\* Showing a page fails only on an image without picture; a header's property only when
\* the notebook or a button is disposed.
CrashIsExplained ==
  /\ crashed = "page" =>
       \E h \in Headers : Kind[h] = "image" /\ ref[h] # 0 /\ state[h] # "ready"
  /\ crashed = "header" =>
       ~notebook \/ \E h \in Headers : Kind[h] = "button" /\ state[h] = "disposed"
=============================================================================
