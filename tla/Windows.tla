------------------------------- MODULE Windows -------------------------------
(***************************************************************************)
(* What the user interface thread does for the windows of an application,    *)
(* side by side: the tabs of notebooks with several kinds of headers,         *)
(* registries of controls, the instructions of the code that comes with an    *)
(* event, and events that run such code.  Each behaviour is one of these      *)
(* parts, and the others stay as they began.                                *)
(***************************************************************************)
EXTENDS DataElements, Sequences

CONSTANTS
  Notebooks,  \* those to look at: [name, headers, kind, titled, max]
  Registries, \* [name, ids, types, parents, moved, axes, max]
  Machines    \* [name, controls, packages, functions, events, calls, depth]

VARIABLES
  part,  \* the name of the part that moves
  \* Notebook
  notebook, pages, live, tabs, current, closable, ref, state, caption, misled, headed, stray,
  misplaced, crashed,
  \* Controls
  items, registry, reversed, widgets, within, content, listens, fault, dropped,
  \* CompensationParser
  flist, entry, stack, err, out, contexts, calls, ret, asked, leaked, failed, paused, aborted,
  stale, unanswered, crossed

Book(k) == INSTANCE Notebook WITH
  Headers <- k.headers, Kind <- k.kind, Titled <- k.titled, MaxPages <- k.max

Registry(k) == INSTANCE Controls WITH
  Ids <- k.ids, Types <- k.types, Parents <- k.parents, Moved <- k.moved, Axes <- k.axes, MaxItems <- k.max

Machine(k) == INSTANCE CompensationParser WITH
  Controls <- k.controls, Packages <- k.packages, MaxFunctions <- k.functions, MaxEvents <- k.events,
  MaxCalls <- k.calls, MaxDepth <- k.depth

\* Parts are told apart by their names.
Part(K) == {k.name : k \in K}

ASSUME PartsAssumption ==
  /\ \A k \in Notebooks : Book(k)!NotebookAssumption
  /\ \A k \in Registries : Registry(k)!ControlsAssumption
  /\ \A k \in Machines : Machine(k)!ParserAssumption
  /\ \A K \in {Notebooks, Registries, Machines} : \A k, l \in K : k.name = l.name => k = l
  /\ Part(Notebooks) \cap Part(Registries) = {} /\ Part(Notebooks) \cap Part(Machines) = {}
  /\ Part(Registries) \cap Part(Machines) = {}
  /\ "operators" \notin Part(Notebooks) \cup Part(Registries) \cup Part(Machines)

-----------------------------------------------------------------------------
tabbing ==
  <<notebook, pages, live, tabs, current, closable, ref, state, caption, misled, headed, stray,
    misplaced, crashed>>
registering == <<items, registry, reversed, widgets, within, content, listens, fault, dropped>>
events ==
  <<flist, entry, stack, err, out, contexts, calls, ret, asked, leaked, failed, paused, aborted,
    stale, unanswered, crossed>>
parts == <<part, vars, tabbing, registering, events>>

\* What a part that does not move begins with does not matter.
NoBook ==
  /\ notebook = FALSE /\ pages = <<>> /\ live = {} /\ tabs = <<>> /\ current = 0 /\ closable = FALSE
  /\ ref = <<>> /\ state = <<>> /\ caption = "" /\ misled = FALSE /\ headed = {} /\ stray = FALSE
  /\ misplaced = FALSE /\ crashed = ""

NoRegistry ==
  /\ items = <<>> /\ registry = <<>> /\ reversed = {} /\ widgets = {} /\ within = <<>> /\ content = <<>>
  /\ listens = {} /\ fault = "" /\ dropped = {}

NoMachine ==
  /\ flist = <<>> /\ entry = <<>> /\ stack = <<>> /\ err = FALSE /\ out = 0 /\ contexts = 0
  /\ calls = 0 /\ ret = 0 /\ asked = <<>> /\ leaked = 0 /\ failed = {} /\ paused = {} /\ aborted = {}
  /\ stale = FALSE /\ unanswered = FALSE /\ crossed = FALSE

PartsInit ==
  /\ part \in Part(Notebooks) \cup Part(Registries) \cup Part(Machines) \cup {"operators"}
  /\ Init
  /\ \/ part \notin Part(Notebooks) /\ NoBook
     \/ \E k \in Notebooks : part = k.name /\ Book(k)!Init
  /\ \/ part \notin Part(Registries) /\ NoRegistry
     \/ \E k \in Registries : part = k.name /\ Registry(k)!Init
  /\ \/ part \notin Part(Machines) /\ NoMachine
     \/ \E k \in Machines : part = k.name /\ Machine(k)!Init

PartsNext ==
  /\ UNCHANGED part
  /\ \/ part = "operators" /\ Next /\ UNCHANGED <<tabbing, registering, events>>
     \/ \E k \in Notebooks : part = k.name /\ Book(k)!Next /\ UNCHANGED <<vars, registering, events>>
     \/ \E k \in Registries : part = k.name /\ Registry(k)!Next /\ UNCHANGED <<vars, tabbing, events>>
     \/ \E k \in Machines : part = k.name /\ Machine(k)!Next /\ UNCHANGED <<vars, tabbing, registering>>

PartsSpec == PartsInit /\ [][PartsNext]_parts

-----------------------------------------------------------------------------
\* The tabs are those of the visible pages in their order, each is named like its page or
\* has no name for a reason, and the server is told of the page the user sees (NotebookTab,
\* AdjustIndex, insertTab, on_currentChanged); a button on a tab is one of its page, unless
\* one was put there for a hidden page (UpdateTabs).
TabsFollowPages ==
  \A k \in Notebooks : part = k.name =>
    /\ Book(k)!TypeOK /\ Book(k)!TabsFollowPages /\ Book(k)!TabsAreNamed
    /\ Book(k)!EventNamesThePage /\ Book(k)!ButtonsBelong

\* A null pointer is followed only for an image without picture, or after the notebook or a
\* button was disposed (P_VISIBLE, MarkRecursive, CLASS_NOTEBOOK).
CrashIsExplained == \A k \in Notebooks : part = k.name => Book(k)!CrashIsExplained

\* The two maps of controls agree, and a handler follows a null or freed pointer only through
\* what still points at a disposed control, for a default control that is not there, or after
\* a scrolled window or a tree deleted a widget (CreateControl, SetProperty, Dispose).
ControlsAreSound ==
  \A k \in Registries : part = k.name =>
    Registry(k)!TypeOK /\ Registry(k)!MapsAgree /\ Registry(k)!FaultIsExplained

\* An adjustment moves the bar that was asked for, of the tree that scrolls, with the
\* exceptions of Controls: it was created in the control, the tree came later, its ID is
\* that of a former one (SetAdjustment).
AdjustmentsMoveTheirBar ==
  \A k \in Registries : part = k.name => Registry(k)!AdjustmentsMoveTheirBar

\* An instruction changes what it is to change, although operands are converted in their
\* place, and gives the same when its result is one of its operands, except for texts; a
\* chain of assignments copies numbers, and the comparisons agree with each other, with the
\* exceptions of DataElements (Execute).
OperandsAreKept ==
  part = "operators" =>
    /\ TypeOK
    /\ end = "" => OthersAreKept /\ ResultMayBeAnOperand /\ AssignmentCopies /\ ComparisonsAgree

\* A call is given what its function left, code that asks is given its own answer, and a
\* context is destroyed on every way out, also when a dialog lets other events run
\* within an instruction; a property is written to the control that it is read from; and an
\* event fails by an instruction of its own, or of one that ran while it showed a dialog: errors of
\* earlier events are forgotten (CompensationParser).
CallsAreSound ==
  \A k \in Machines : part = k.name =>
    /\ Machine(k)!TypeOK /\ Machine(k)!ResultIsFresh /\ Machine(k)!AnswerIsMine
    /\ Machine(k)!ContextsAreDestroyed /\ Machine(k)!WrittenWhereRead /\ Machine(k)!EventsFailForAReason

\* A name means the first function that had it, for good: code that the server sends again
\* under the same names, for this control or another and even while a dialog is open,
\* changes neither what an event runs, unless it brings another entry point, nor what the
\* code of an event calls (AddFunction, Find, SetClientEvent).
NamesKeepTheirCode ==
  [][\A k \in Machines : part = k.name =>
       \A j \in DOMAIN flist :
         flist'[Machine(k)!Find(flist', flist[j].name)] = flist[Machine(k)!Find(flist, flist[j].name)]]_parts
=============================================================================
