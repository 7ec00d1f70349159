# A TLA+ model of the Concept Client

The Concept Client (Qt) is the program a user runs to work with an application
that executes on a Concept Server. The server sends frames that build and change
a user interface; the client sends back events. These modules model the parts of
the client in which things can happen in an unexpected order, fail half way or
meet a boundary, check them with TLC and prove the central results with TLAPS.
The code has no tests and its comments are its only documentation.

`PROJECT.json` lists components, runs, mutants, theorems and hazards, and gives
for every definition that models code the lines it models.

## 1. Inventory

| Component | State | Operations | What is hard | Modelled by |
|---|---|---|---|---|
| Worker thread (`worker.cpp`, `Worker::doWork`) | its program counter, the parameter being filled, the loop counter, `errno` | poll, `get_message`, enqueue, signal, `SendPending`, reconnect, quit | runs beside the user interface thread; every call may fail; a failure starts a loop of attempts | `ClientSession` |
| Session (`ConceptClient.cpp`) | `CLIENT_SOCKET`, `SessionID`, `MessageStack` and `sem`, `MainForm`, keys, `RTSOCKET`, `ssl` | `SendMessageNoWait`, `SendPending`, `CheckReconnect`, `Disconnect` | shared by two threads, only `MessageStack` is locked | `ClientSession` |
| Connection (`Connect`, `connect2`, `CheckReconnect`) | socket numbers, addresses, keys | dial, wait, refuse, exchange keys, restore | an attempt fails at any of a dozen places, and each must close what it opened | `Connection` |
| TLS (`InitTLS`, `Recv`, `Send`) | `ssl`, `in_ssl_neg`, the stream | query, handshake, certificate | one thread shakes hands on the socket the other reads and writes | `Tls` |
| Receive queue (`Worker::callback`) | `queue`, `mutex2`, posted Qt events | enqueue and signal, dequeue per signal | queue and signals are two things that must agree | `ClientSession` |
| Dispatch (`callback.cpp`, `MESSAGE_CALLBACK`) | dialogs, `MainForm`, POST registers, cookies | a case for each message of the protocol | modal dialogs run the event loop inside a handler; `Done` may refuse to exit | `Dispatch` |
| Outgoing frames (`SerializeBuffer`, `send_message`, `session_send`) | the frame, chunk counter, open file, progress box | serialise, encrypt, send header, chunks, file blocks or a datagram | widths of fields, boundaries of chunks, a call that fails between two others | `SendMessage` |
| Incoming frames (`get_message`, `DeSerializeBuffer`) | `PostFile`, the frame | header, body, file, deserialise | `PostFile` belongs to two threads | `ReceiveMessage` |
| Realtime and peer to peer (`recv2`, `InitUDP3`, `SwitchP2P`) | `serveraddr`, `p2paddr`, `lastaddr`, `is_p2p` | STUN, hello, switch, receive, send | datagrams get lost and come from anybody; statics of two threads | `PeerToPeer` |
| `AnsiList` | chain of nodes, `count`, remembered node | Add, Insert, Item, Remove, Delete, Clear | an optimisation that must be forgotten at the right moments; ownership | `AnsiList` |
| Semaphores (`semhh.h`) | counter, mutex, condition | `semp`, `semv` | the signal is sent after the mutex is given back; a wait may end without one | `Semaphore`, `Lock` |
| Operating system commands (`Execute`, `CommandThread`, `NewApplication`) | `ShellList`, `shell_lock`, `execute_lock` | queue, start, clear | a start handshake by a second `semp` on the same lock; another by a sleep | `Commands` |
| Audio (`AudioObject.cpp`) | play buffer, packet size, codec state | record, encode, decode, play, restart | framing of packets, buffer limits | `Audio`, `AudioLength` |
| Notebooks (`NotebookTab`, `UpdateTabs`) | pages, tabs, headers, counters | add, hide, show, name, put a button on a tab, close | three indexes of the same page; pointers kept by tabs | `Notebook` |
| Rows and items (`CreateTreeItem`, `MSG_CUSTOM_MESSAGE`, `TreeData`) | columns, attributes, rows, items, values that have no place yet | add, insert, update, remove, clear; controls on headings | three lists number the columns; what is kept per column outlives it | `TreePaths`, `TreeView`, `ItemList` |
| Controls registry (`callback.cpp`, `GTKControl.h`) | two maps of controls, items, widgets | create, set, get, move, dispose | disposal takes a control out of the maps while others point at it | `Controls` |
| Event code (`CompensationParser.h`, `SetClientEvent`) | functions, contexts, variables, `err`, the answer | an instruction at a time; calls; messages; properties | a message may show a dialog and run another event on the same interpreter; operands are converted in place | `DataElements`, `CompensationParser` |
| Start-up and settings (`main.cpp`, dialogs) | host, application, INI files | parse, load, run | parsing | not modelled |
| Conversion (`AnsiString`, `UriCodec`) | none | conversions | text only | not modelled |

How they interact: the worker thread calls `get_message`, appends the result to
`queue` and posts a signal; the user interface thread gets the signal, dequeues
and calls `MESSAGE_CALLBACK`, whose handlers, like the user's events, put
messages on `MessageStack` under `sem`. The worker takes them from there between
two frames and sends them. On a failure the worker reconnects, telling the user
through posted messages; when it gives up it enqueues a quit frame of its own.
`Done`, on the user interface thread, closes the socket under the worker. The
query "TLS" is a frame like any other: its handler answers by way of the worker
and then shakes hands itself. Handlers create and change controls; the events of
controls run event code, which sends messages of its own and may wait for an
answer in a dialog, while further frames and events are handled.

What makes each correct: messages and frames are handed on once and in order and
lost only with a connection (session, queue); nobody waits for ever, and a lost
connection is noticed, repaired or shown (worker, reconnect); no socket is lost
or closed for another (connection); both threads change to TLS at the same place
of the stream (TLS); a frame contains what its header says and says what was
meant (frames); a file gets the frame it was opened for (incoming); every
question gets its own answer, once (dispatch); a client that has a peer keeps him,
whatever strangers send (peer to peer); a lock lets one in at a time and forgets
nobody (semaphores); each command runs, and runs once (commands); the list is a
sequence whatever it remembers (AnsiList); samples keep their order and are lost
for a reason (audio); tabs follow pages (notebooks); a handler follows no pointer
to what is gone (controls); a row or an item shows what was sent for it last
(rows and items); an event runs the code it came with, on the values
it was given (event code).

## 2. Modules

### ClientSession, and what it implements: LossyFifo

`ClientSession` is the worker thread, the user interface thread and what they
share. `wpc` and `upc` are their program counters; each action is a stretch of
code no other thread can observe half way: up to a lock, a system call, a posted
event or a shared variable. `sem`, `queue`, `events`, `CLIENT_SOCKET`,
`SessionID`, `MainForm` are the variables of the code. A message and a frame are
numbers, so that order and loss can be seen; a frame has the kind its handler
distinguishes. `errno` has two values, because `get_message` asks whether it is
`ETIMEDOUT` even when the failed call did not set it.

The server and the network are the environment: `ServerReads`, `ServerSends`,
`LinkBreaks` and `SessionEnds`. A link breaks in five ways: by an orderly end, a
reset, a time-out of TCP, by silence between two frames (`stall`), and by silence
after the beginning of a header (`cut`), which the five seconds of `SO_RCVTIMEO` end.
`select` never reports a peer that is only silent, so that the worker learns of a stall
only if TCP gives up (`SilenceTimesOut`).

Two assumptions: SIGPIPE does not end the process, and a server that closes a
connection does not read what is still in it.

`LossyFifo` is the promise: numbered messages, some may be lost, what arrives
arrives once and in order. `ClientSession` implements it twice, up (the stack, the
worker's hand and the wire are what is pending) and down (inbox, the frame being
received and the queue): `UpRefinement`, `DownRefinement`.

### AnsiList, and what it implements: ObjectList

`AnsiList` is the list over a heap: nodes are addresses that are reused after they
are freed, `LastPos` and `LastIterator` are the shortcut of `Item`. `ObjectList`
is a sequence with the same calls and no heap. `IsObjectList` says that every
call returns, keeps and destroys the same.

### SendMessage

`send_message` with `SerializeBuffer`, `session_send`, `AES_encrypt` (its sizes)
and `BigMessageNotify`. Bytes are counted, so the constants have their real values.
Each `session_send` is an action that succeeds while the connection is up; the
connection may break between any two, and a file may change between any two reads.
The peer (`Put`, `PutHeader`, `Announced`, `Decode`) reads frames the way
`get_message` and `DeSerializeBuffer` do: the two ends of the protocol are
symmetric, and with a peer to peer connection the other end is this code.
`Messages` are the messages of callers, each given by its kind and its lengths.

### Semaphore, Lock, and what Lock implements: Mutex

`Semaphore` is `semp` and `semv` on POSIX (`semhh.h`): a counter, a mutex that is held
for single steps, a condition. `semv` gives the mutex back before it signals, so a thread
may be overtaken there. `Lock` is a semaphore that starts at 1 and is used around
critical sections; `Mutex` is what its users expect. With `Spurious`,
`pthread_cond_wait` may return without a signal, which POSIX allows: `semp` does not
look at the counter again, so two threads may get in. `Lock` implements `Mutex` without
that; with it the types and the progress still hold, and `Commands` says what happens.

### Commands

`Execute`, `NewApplication`, `CommandThread` and `ThreadSHELL` over `Semaphore`: the
handler takes `execute_lock`, starts a thread and takes the lock a second time, which the
thread gives back when it has copied the string. `NewApplication` sleeps instead; with
`Slow` a thread may be slower than that and find the string of another (`late`).

### Connection and Tls

`Connection` is `Connect`, `connect2` and `CheckReconnect` over socket numbers, which
are the smallest free descriptor as in a kernel, while other threads open and close files:
closing a number twice then hits somebody. When no descriptor is free, `socket` fails
(`NoDescriptor`). Keys are told by the attempt that made them.
`Tls` is the handshake: the handler of "TLS" on the user interface thread, the worker in
`Recv` and `Send`, the stream in both directions, and a server that changes layers when
it has the answer.

### ReceiveMessage

`get_message` for the frames of a TCP connection in pieces of any size, with `PostFile`
that `set_next_post_filename` sets on the other thread. `Patient` is a server that is
silent while it waits for the name of the file. The first read of a long file frame may
get more bytes than its buffer has; what follows is undefined (`Overrun`), or nothing is
noticed, and both are in the model.

### Dispatch

`MESSAGE_CALLBACK` as a stack of handlers: a dialog runs the event loop, so a frame
that is dequeued meanwhile is handled on top. Question, text and answer are numbers, so
that an answer with the text of another question can be seen. `decided` records how each
request that needs consent was decided, in a box of its own or without. `Sequential` is a
server that waits for each answer.

### PeerToPeer

`SwitchP2P`, `InitUDP3`, `recv2` and the realtime branches of `session_send` and
`get_message` for several clients and a network that loses datagrams. Addresses are
those of the clients, which the server introduces to each other, and those of strangers,
who send datagrams of any kind at any time: `recv2` takes the first sender it hears while
it waits for the peer, and remembers who said "hi" before (`lastaddr`). `intruded` records
which strangers were heard at a time when that could make them the peer.

### Audio and AudioLength

Recorder and player of one channel with the framing of each codec, the play buffer and
its limit. A sample is its number. The encoder may fail, or have no room for a packet,
which gives up what was not encoded yet. `AudioLength` is the one or two bytes that give the
length of an Opus packet, in a module of its own for the proofs.
`distorted` records, for each message that was not heard as it was captured, the sizes of
its packets and which of them were missing.

### Notebook and Controls

`Notebook`: pages, their tabs and the three ways to name one (`NotebookTab`,
`AdjustIndex`, `UpdateTabs`), with the headers the code distinguishes. `Controls`: items
of the registry, the widgets behind them, which of them is inside which (Qt deletes
children with their parent) and what else points at them. A handler that follows a null
or freed pointer ends the behaviour and says which (`fault`).

### TreePaths, TreeView and ItemList

`TreePaths` names the rows of a tree by positions. `TreeView` adds the three lists that
number columns: headings, `meta`, and what an attribute belongs to; a value is told by the
entry and the row it was sent for, so that a value under another heading can be seen.
`ItemList` is the same for combo boxes and icon views, which show one text and one
picture of the columns; there the values stay in `columns` if no place takes them.

### DataElements and CompensationParser

`DataElements` is each instruction of event code on variables that change their type in
place. `CompensationParser` is the interpreter around it: functions, calls, contexts,
errors, messages that wait for an answer, properties of controls; and events that arrive
while an instruction shows a dialog, on the same interpreter. The server may send the code
of an event at any time and again (`Deliver`): its functions are appended, its entry point
takes the place of the former one, and the slot is connected once more, so that each click
runs it once more.

### The composites

`MCThreads`, `MCFrames`, `MCDialogs`, `MCWindows` and `MCProgress` hold several of these
for one run of TLC. The parts share no state but the semaphore of the locks, so nothing is
gained by interleaving them: a variable `part` says which one moves, and the others stay in
their initial state. A property of a composite says of each part what its module states.
`Windows` is the composition for any sets of notebooks, registries and machines, and is what
the proofs are about; `MCWindows` only chooses them for TLC.

## 3. Runs

| Run | What it shows | Bounds |
|---|---|---|
| `safety` | types; `SentOnceInOrder`; `NoGapSinceRestore`: what is submitted after a failure was noticed arrives without gap; `SignalPerFrame`: signals and frames agree; `GiveUpIsShown`: who stays open after the worker gave up sees why; both refinements; `NoDialAfterRefusal`: a refused session is not dialled again | 2 messages, 2 frames, 2 failures of all five kinds, 2 attempts, 2 messages in the kernel |
| `liveness` | `LossIsNoticed`, `StackIsDrained` (with it every `AddMessage` returns), `EndIsServed` | 1 message, 2 frames, 1 failure of any of the five kinds, 2 attempts |
| `sixty` | violated: the comment says 60 attempts, the loop makes 20 | 20 attempts, one failure |
| `frames` | `FramesArriveWhole`, `ProgressBoxGoesAway`, types | two messages in a row out of 18, on both sides of every boundary; a break and a change of the file at any point |
| `big` | violated: a big frame of whole chunks lacks its last chunk | as `frames` |
| `owner` | violated: an owner of 256 bytes is not read | as `frames` |
| `fallback` | violated: a datagram that is too long does not fall back to TCP | as `frames` |
| `threads` | `IsMutex`; `EachRunsItsOwn`: each command runs the string of its frame; `ConnectionsAreSound`: no socket is lost, or closed for another; `LayersAgree`: both threads change to TLS at one place of the stream; `IsObjectList`: the list refines a sequence; `SoundIsAccountedFor`: what becomes of each sample | 5 threads at a lock; 4 commands, with waits that end early and slow threads; 5 descriptors, so that they run out, 2 addresses, 3 attempts (20 in the code), 2 losses, 2 files of others; 2 frames and 2 messages around the handshake; 3 nodes, 3 objects of which one is not destroyed; 4 to 7 samples, 4 orders, blocks and packets on both sides of their limits |
| `incoming` | `OpenedInTime`, `FramesStayApart`, `FileGetsItsFrame`: a file gets the frame it was opened for; `EncryptedArriveWhole`; `RowsShowWhatWasSent` | 3 frames of a silent server with 1 break; of one that talks 4 frames, or 3 and a break; 6 and 2 sizes, in any pieces; the buffer of a file frame is 4 bytes, a word 2, the excess of the first read 3; two encrypted messages out of 10, at their real sizes; 3 entries of `meta` with 1 row and 2 with 2 rows, 2 or 3 rows sent; 2 columns, 2 items, 3 items sent |
| `dialogs` | `AnswersFit`: each question gets its own answer once; `EndsCleanly`; `FirstBoxDecides`: of consent boxes on top of each other the first has the last word; `PeersWereIntroduced`: who may become the peer | 3 frames of 18 kinds and 3 clicks on the close button; 5 frames of 6 kinds from a server that waits; 2 clients that switch to each other by STUN, 1 message, and a friend, a second switch or a stranger's datagram |
| `windows` | `TabsFollowPages`, `CrashIsExplained`, `ControlsAreSound`, `AdjustmentsMoveTheirBar`, `OperandsAreKept`, `CallsAreSound`, `NamesKeepTheirCode`: code sent again changes nothing under an old name | 3 pages of which the first and the last have names, 2 with buttons or images; 3 or 4 controls with 2 or 3 IDs; 3 variables, numbers 0 and 1, texts of at most a letter; 2 or 3 events, 6 or 8 calls, bodies of up to 4 instructions, 1 or 3 deliveries of code |
| `progress` | `NoSignalLost`: whoever waits at a lock gets in, every handler comes back; `AnswersCome`; `BothSwitch`; `NegotiationEnds` | 4 threads with waits that end early; 3 slow commands; 3 questions; 2 clients and a lost datagram; as in `threads` for TLS |

Why the bounds are enough. Two of everything lets each pair of events occur in
both orders: a failure before, between and after two messages, a second failure
during the repair of the first, a frame in the queue while another is received.
More attempts only repeat the loop of `doWork`, whose end is reached in both ways
(`sixty` runs the real number). In `frames` the second message shows whether the
first left the peer in step; a third adds nothing, because the state between two
messages is only `owed`, `garbled` and `box`. Three nodes have a first, a middle
and a last, and their addresses are used again. Three handlers nest as deep as a
question, one on top of it and one that ends the program. Three pages have a hidden one
before, between and after visible ones; a tree of two rows has a parent and its
child, and siblings. The sizes of `ReceiveMessage` are scaled such that they keep their
order and every comparison has both outcomes.

Deadlock is checked in `threads` and `progress`: a thread at a lock or a handler of a
command must always be able to go on, and the other parts, which may come to their end,
have a step that does nothing. The other runs do not check it: the program ends there, and
every run is bounded.

Fairness. A thread that can run does run: weak fairness of the worker, of the user
interface's event loop, of threads that were started. `AddMessage` gets strong fairness,
since the worker gives the semaphore back in each round and then waits in `select` for
longer than a blocked thread needs to take it. The server reads what is written to it while
the connection is up. A thread in a critical section leaves it, and a signal of a
condition wakes a thread that waits. For `AnswersCome` the user closes each dialog in the
end; for `BothSwitch` the server tells both clients to switch, and a client sends its
three hellos; for `NegotiationEnds` the handshake gets an answer or times out
and the question about the certificate is answered. Nothing else is assumed of the user, of
the network or of the server's sending; TCP need never give up on a silent peer.
`LossIsNoticed` is therefore about ends, resets and frames that stop in their middle: silence
between frames is never noticed. If it ends in a time-out, `get_message` answers -2
(`messages.cpp:772`), also to each orderly end that follows, as `errno` stays `ETIMEDOUT`; the
socket stays readable, and `doWork` goes round without sending or reconnecting, which
`StackIsDrained` exempts (`TimedOut`).

## 4. What the code does otherwise

Contradicting a comment or a message of the code:

- `worker.cpp:76`: "60 retries", 20 made.
- `messages.cpp:549`, `577`: a big frame whose size is a multiple of 131071 is sent
  without its last chunk, and the peer loses step. `FramesArriveWhole` shows that,
  besides the widths of the format and a changing file, this is the only way.
- `messages.cpp:331`, `390`: an owner of 256 bytes is allowed by the comment and has
  length 0 on the wire.
- `messages.cpp:211`: the fall back to TCP returns before the loop comes round.

Contradicted by no text; the properties name each as an exception, and hold beside them:

- Session: the progress box stays after an encrypted big message; a slow server's live
  session is forgotten (`Refused`); a peer that falls silent between frames is not noticed,
  and the worker may go round for ever after a time-out of TCP; a message is lost when its write fails (`WriteLost`).
- Locks and commands: a wait that ends without a signal lets two threads into a lock; a
  thread that starts late runs the application of a later frame.
- Connection: `connect2` closes a refused socket and its caller takes it for made; the
  socket of an attempt that timed out stays open; a session that is restored before the
  first frame encrypts with a key the server has not got.
- TLS: a message that crosses the server's query is read as part of the handshake, and the
  worker may take bytes of the handshake.
- Incoming: a file opened in the middle of a frame leaves the frame undefined; the buffer of
  a file frame has `FILE_MESSAGE` + 1 bytes and its first read takes up to `FILE_MESSAGE` + 5
  (`messages.cpp:804`, `810`, `831`), so a frame longer than `FILE_MESSAGE` may be written beyond
  its buffer; the same read may take bytes of the next frame.
- Dispatch: `Done` ends the program under an open file dialog; a consent box that was shown
  inside another is overruled by the outer one.
- Peer to peer: three hello packets survive the loss of one together with a race, but not
  two losses. While a client waits, the first datagram of anybody makes its sender the peer,
  and so does a "hi" remembered from before the switch (`messages.cpp:134`, `148`). A datagram
  that `recv2` passes over becomes a frame with the ID 0, which `MESSAGE_CALLBACK` sends back
  to the server (`callback.cpp:14234`). `PeerWasIntroduced` is checked with two clients only.
- Notebooks: a button for a hidden page is put on the tab in its place, and a cleared
  name goes to another tab; showing a page whose image has no picture follows a null
  pointer.
- Controls: `Dispose` leaves children, adjustments and search entries that point at what is
  gone; showing an adjustment that has no bar yet follows a null pointer;
  `P_DEFAULTCONTROL` follows an absent control; the string list of a tree is taken
  for a layout; a scrolled window deletes its former child. An adjustment moves another bar
  when it is created inside the control, has the ID of a former one, or the tree came later.
- Rows: removing a column leaves its entry in `meta`, and later values go under other
  headings; "editable" for a column without a widget follows a null pointer, as does any in
  a row whose parent is gone; a row with too few values reads beyond them at a markup column; an
  update of a row that is not there adds one; a row with children keeps its combo boxes when it is
  written again. A control on a heading is hidden again at once unless its column is the
  last entry, for the loop looks at the same entry each time, and stays where it is behind
  an attribute or the model of a combo box.
- Items: an update of an icon that is not there leaves its values for the next item; an
  update of an item of a combo box is ignored when its position is not below the number of
  values; the picture of an icon cannot be changed; `ClearColumns` keeps `hidden`.
- Event code: a result that is also a text operand is destroyed before it is read; a
  `KEY_DIV` without operand leaves without freeing its context; `err` belongs to the
  interpreter and not to an event, so a dialog lets another event stop this one; a function
  that is sent again under an old name is never called, and an event whose code came twice
  runs twice for each click.
- Audio: the length of a packet of more than 255 bytes is misread, and the rest of the
  message is lost; a packet of 193 to 255 bytes loses its last byte and is not what was
  encoded; when the encoder fails, the samples that wait are given up; a last packet of one byte is
  ignored; `maxbuffers` divides by a packet size of zero; a restart while the stream is
  active forgets the key, and every block is dropped; Speex forgets blocks smaller than a
  frame.

## 5. Proofs

`ClientSessionProofs`, for every value of the constants:

- `Correct`: what a lossy fifo (`LossyFifo`) delivered is increasing. The invariant adds that
  pending messages are newer than the delivered ones and older than the next; without it a
  delivered number could be pending again.
- `Signalling`, with `TypesHold` and `EverySignalFindsItsFrame`: the types and the
  agreement of signals and frames. They are proved together, for dequeuing has a
  type only because a signal guarantees a frame. The invariant counts the frame
  whose signal is still to be posted (`wpc` at `emit` or `quitEmit`).
- `Implements`: `Spec` implements `LossyFifo` going up. Each action of the worker, the
  user interface and the environment is a submission, a delivery, a loss or a
  stutter; the invariant says that stack, hand and wire are increasing and that all
  of them are below the next number.
- `SentOnce`: `SentOnceInOrder`, from `Implements` and `Correct`, without looking at
  the session again.
- `RefusalIsFinal`: `NoDialAfterRefusal`, an action property. What is invariant is that the
  worker that dials or waits for the reply has a session (`HasSession`).
- `NoGap`: `NoGapSinceRestore`. It says nothing of when a failure is noticed, so the
  invariant adds it (`Noticed`): from the moment a connection fails, or is closed under the
  worker, until `CheckReconnect` replaces it, `dirty` is set, and nothing is in the worker's
  hand but while it writes.
- `GivingUpIsShown`: `GiveUpIsShown`. An error that waits could be followed by another text of the
  label; `ErrorIsOnItsWay` says that after it only signals of frames come.
- `ImplementsDown`: `Spec` implements `LossyFifo` going down as well. The invariant
  (`Arriving`) orders queue, frame being received and inbox; the quit frame that the worker
  enqueues itself has no number, goes to the end and is nobody's delivery.

`SendMessageProofs`, for every chunk size, buffer size, threshold and set of messages:

- `Counting`: the inductive invariant. While the connection is up and the messages
  are sound, the peer waits for exactly the bytes the rest of the call will send:
  the size less `i` chunks in the loop, what is left of the file after it, nothing
  between calls. `FramesArriveWhole` alone is not inductive, for it says nothing of
  a call in progress. It needs the arithmetic of chunks (`ChunkLoop`) and that a
  frame that fits is decoded as it was written (`FrameIsRead`).
- `TypesHold`, `WholeFrames` follow; `BoxGoes` has an invariant of its own.

`ThreadsProofs`. Locks, for every set of threads:

- `TypeCorrect`, also with waits that end early.
- `LockIsMutex`: without these, `Lock` implements `Mutex`. That at most one thread is inside
  is not inductive: what is invariant is that a thread that is inside, or was signalled and
  has not woken yet, holds the one token, and then the counter is not positive. The
  assumption `~Spurious` is needed: the run with early wake-ups in `EachRunsItsOwn` shows
  what happens otherwise.
- `WaitersCounted`, for finite sets: the negative counter is the number of those who wait
  and were not signalled.

The parts of `MCThreads`, for every value of its constants:

- `LayersAgreeAlways`: `LayersAgree`. The invariant (`LayersInv`) says for each state of the
  handshake what is on the stream in both directions: messages, then the answer, then the
  hello, and behind it only what is encrypted. What a crossing message spoils is only what the
  server is still to read (`Upstream`), what a server that goes on talking spoils only what
  the worker reads (`Quiet`, `Reader`).
- `ConnectionsStaySound`: `ConnectionsAreSound`, for every set of descriptors, number of
  addresses and attempts. The invariant (`ConnectionInv`) says at each place of `Connect` which
  sockets may be open: the one at hand, the one of the attempt before, and those that
  `connect2` forgets. That the smallest free number exists needs that numbers are well founded.
- `EachAlwaysRunsItsOwn`: `EachRunsItsOwn`, for any number of frames and threads. While no
  wait ended early, the counter, who waits and who signals are known exactly at each place of
  the handler (`Handshaken`); this is what its second `semp` on the same lock relies on.
- `ListIsObjectList`: `AnsiList` implements `ObjectList`, for every finite heap and every set of
  objects. `ChainInv` says that the nodes are a chain: some sequence of all allocated nodes, none
  twice, that `First` and `next` follow. What a loop over `next` finds is then an element of that
  sequence (`HopAlong`, by the least number of steps at which the two would differ, since
  induction is out of reach), so that adding or freeing a node is an element more or less
  (`Linking`, `Unlinking`). `Item` may start from the node it remembers, because the invariant
  gives that node's place.

`ReceiveMessageProofs`, for every size of header, buffer and first read, every set of shapes of
frames, both servers and any number of frames and breaks: `ReceiveAlways` is the inductive
invariant, a conjunction whose parts lean on each other in this order:

- `OnWire`: frames are in the order of their numbers, and only the front has lost bytes;
  `InStep`: what is left of the front is what the reader expects of its frame, unless a frame
  that is too short for its first read went to a file.
- `Order`: what was received or met by a file is older than what is to come, so that a frame is
  told by its number.
- `Undisturbed`: while no file was opened since the buffer was made, buffer, first read and
  mark fit the frame, whichever of the two places it goes to; `Places` follows for what was
  received. `overrun` is reached only from the first read of a frame longer than `FILE_MESSAGE`.
- `Opened`: what the open file has of the frame; `Questions`: there is one question at a time,
  and none while a file is open; `Patience`: with a silent server nothing is on the wire while
  the user is asked, and what comes next is the content. `Gets` follows for closed files.

From it `TypesHold`, `ReaderStaysInStep`, `FilesOpenBetweenFrames`, `FramesAreDefined`,
`FilesGetTheirFrame` and `FramesHavePlaces`, one for each property of `ReceiveMessage`.

`FramesProofs` carries this to `MCFrames`: each part there is an instance, its steps are those of
the instance that the proofs are about (`TalkingIs`, `BreakingIs`, `CipherIs`), and a part that does
not move keeps its invariant. `OpensInTime`, `FramesAreApart` and `FilesGetFrames` follow from
`ReceiveAlways` three times over, `CipherArrives` from `WholeFrames`.

`DispatchProofs`, for every set of kinds of frames, every set of methods, servers that wait and
servers that do not, and any number of frames and clicks: `DispatchAlways` is the inductive
invariant. None of the properties is inductive, for an answer is the end of a way that begins
with the frame:

- `Posts`: the queue is the rest of what the server sent, and each register holds the last
  text taken from it. `Dialogs`, `ConsoleLogin`, `Answers`: a question waits on the stack, or in
  the console window, or is answered, and in no two of these places; what waits shows the text
  sent for it. From these `TextOfTheQuestion`, and `AnswersMatch` for a server that talks on.
- `OneQuestion`: with a server that waits the question without an answer is the last frame, so
  that the register still holds its text when the dialog is closed, and answers cannot overtake.
- `DialogsCount`: `dialogs` is the number of open dialogs that count, so that `Done`, which asks
  for `dialogs <= 0`, finds only file dialogs open (`NoneCounted`, `EndsStep`).
- `Clicks`: what `closeEvent` remembers is what the last clicks saw; the third silent click is
  the first that can end the program.
- `Credentials`: frames lie on the stack in the order of their numbers, and one that waits there
  is not decided yet. With these two `FirstBoxDecides` is inductive: of the boxes that are open
  the first shown is the lowest, and the last to be closed.

`DialogsProofs` carries this to `MCDialogs`, as `FramesProofs` does to `MCFrames` (`WaitingIs`), and
adds the clients that switch, for any two clients. `PeersInv` says of each client:

- `Heard`, `OnTheWay`: every datagram under way, in the hands of the worker or remembered in
  `lastaddr`, is from a stranger or from a client that was told to talk to this one. This is why
  a step of `recv2` is safe that was decided before `SwitchP2P` began anew: a stale `meet` can
  only name who was introduced or let in, though `is_p2p` is no longer what it was when it was
  tested.
- `LetIn`, `GotIn`: a stranger whose datagram the worker holds was let in, or the client has its
  peer, or has none and there was no "hi"; in the last two cases `recv2` only passes it on or over.
- `WasTold`: a client that was told nothing has no peer, no friend, and its worker is at no place
  but those that pass over what they read. What the server told is never taken back, so this is
  all that is to be known of the interleaving of the two threads.
- `Sends`: at the `sendto` there is a peer, or a switch began meanwhile.

From both follow `AnswersAlwaysFit`, `AlwaysEndsCleanly`, `PeersAlwaysIntroduced` and
`FirstBoxDecidesInParts`.

`LengthsAreRead`, in `ThreadsProofs`: for every packet of 1 to 4031 bytes, which is all the
first byte can tell, the length that is read is the one that was written exactly if it is
at most 255, since 256 is 4 more than a multiple of 63.

`WindowsProofs`, for every set of notebooks, registries and machines of `Windows`, each part with
an invariant of its own (`BooksInv`, `RegistriesInv`, `MachinesInv`, `OperatorsInv`):

- `CallsAlwaysSound`, `NamesKeepTheirCodeAlways`. `Nested` describes the stack of activations:
  only the innermost runs, each waits for a later one or shows a dialog, and between two dialogs
  all belong to one event. So a result is of the function that was called (`callee` is not later
  than what lies above), an answer is of the event that runs, and contexts are the activations
  and those that an error left. An error that waits has a `Reason`: an instruction of this
  event failed, or one of an event that ran inside its dialog.
- `OperandsAlwaysKept`. `After` says which variables an instruction may leave different, `Meant`
  what its result is to be; the exceptions are read off where the two part.
- `TabsAlwaysFollowPages`, `CrashesAreExplained`. `Enumerates`: the tabs are the visible pages in
  their order. That `AdjustIndex`, a count, is the place of a page among them (`IsPlace`) needs a
  bijection between the tabs before it and the visible pages before it. `NamesFit` and
  `ButtonsFit` say what is on a tab; buttons are those of their pages until one was put on
  the tab of another. `Linked`: a header that a page points at points back.
- `ControlsAlwaysSound`. The maps agree (`IdsFit`, `WidgetsFit`), an item has a pointer exactly
  until it is disposed (`PointersFit`), and a widget is gone only if a scrolled window
  deleted it or it was an edit that was disposed (`GoneForAReason`). What still points at such an
  item is known by its kind (`BarsFit`, `LinksFit`, `TreesListen`), so that each pointer
  followed is `Explained`. The invariant is about the state before the pointer is followed:
  the handler that does it changes nothing else.
- `AdjustmentsAlwaysMoveTheirBar`. `BarsMeant` is kept because controls have the IDs of adjustments
  that were asked for on that axis (`AskedFor`), which `SetAdjustment` finds again under a new
  item, and because a tree that is put in later has a later number than the bar.

Two statements had to be corrected before they could be proved: the reasons for a null pointer
lacked the adjustment without a bar, and a button may be on the tab of another page
once one was misplaced.

Assumptions are those named in the modules (`ConstantsAssumption`, `SizeAssumption` and
others); TLC evaluates them in the runs.

The constants of the composites that a part fixes itself (the shapes of `Talking`, the messages
of `Out`, the kinds of `Waiting`, the pairs of `Peers`) are fixed in these theorems, too; the
theorems of `ReceiveMessageProofs`, `SendMessageProofs` and `DispatchProofs` are for all of them.
`MaxFrames` is at least 1, for the frame that is there
before the first header has a number.

Numbers of event code are 0 and 1 in the model (`DataAssumption`), so
`OperandsAlwaysKept` is for any set of variables, but not for other numbers.

Only model-checked: liveness, which depends on fairness and is out of the prover's
reach; rows and items
(`RowsShowWhatWasSent`), for paths and columns are folds over the rows of a tree;
`SoundIsAccountedFor`, which compares sequences that are flattened and filtered; more than two
clients, for which `PeerWasIntroduced` is not claimed; the violated properties.

## 6. Plan

Done: the session and its proofs; outgoing and incoming frames; `AnsiList`; locks and
commands; connection and TLS; dispatch; peer to peer; audio; notebooks, controls, rows
and items; event code.

Left, in this order:

1. Proofs: `RowsShowWhatWasSent`, when its folds are written as quantifiers; what holds of peers
   among more than two clients.
2. A second TLS handshake, also after `CheckReconnect`; chunk handles (`MSG_CHUNK`).
3. The parser of start-up hosts and URI decoding, as operators over bounded input.
4. Stereo audio, where `OpusBuffer2` steps by frames without the channels.
5. Events of rows, which name rows by paths that may have changed when they are read.

## 7. Not modelled

Widgets as far as they are only seen: looks, layout, style, menus, tool bars. HTTP mode
(`httpmessaging.cpp` is a stub), the codecs and ciphers themselves, device input, the
plug-ins under `components`, vendored code and resources (most of the lines of the
repository: `PropertiesBox`, `miniz`, `cipher`, `scintilla`). The blocks of an encrypted file
frame, whose contents cannot be known from the client. `SendMessage` and `wait_message` of the
code are never called, and `doSend` and `ExecuteShellThread` never started.

Known, and in no property: a file message whose file cannot be opened goes out like an empty
one, but its name is copied past the end of the frame (`messages.cpp:397`, `485`); the dialogs for
colours and fonts (`callback.cpp:14201`) are not told from the file dialogs; `Wait` of event code
knows one kind of message, so that the comparison of IDs (`callback.cpp:3399`) always holds; the
result of `pthread_create` is not looked at; a chunk of a cookie falls through to
the next case; `last_addr` of IPv6; a combo box in a row reports the row that is current
in the tree and not its own (`EventHandler.cpp:606`); `P_SORTINDICATORTYPE` falls through to
`P_WIDTH` and answers a question nobody asked; `MSG_CUSTOM_MESSAGE12` and `13` test `item`
where they mean `titem`; the return header of a page that is shown again.
