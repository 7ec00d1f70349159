------------------------------ MODULE MCFrames ------------------------------
(***************************************************************************)
(* Frames that come in, from a server that is silent while it waits for an   *)
(* answer and from one that goes on talking; the rows and items that are made *)
(* of what they bring, a value at a time; and encrypted frames that go out,    *)
(* side by side for TLC: each behaviour is one of these.  Sizes are scaled     *)
(* down: four bytes of a file frame are buffered, and the first read of a     *)
(* long one asks for three more.                                             *)
(***************************************************************************)
EXTENDS ReceiveMessage

VARIABLES
  part,  \* the part that moves
  \* SendMessage
  pc, job, i, left, RTSOCKET, box, broken, owed, garbled, decoded, sent, datagrams,
  \* TreeView
  list, meta, heads, tree, rows, n, meant, wrote, trimmed, fault,
  \* ItemList
  types, role, currentindex, values, shown, written, due, former, lost

Shape(size, head) == [size |-> size, head |-> head]

\* Without a value; as long as the buffer; in the window in which the first read
\* asks for too much, at both its ends; just beyond it; two blocks and a byte more.
FrameShapes ==
  {Shape(2, 2), Shape(4, 2), Shape(5, 2), Shape(6, 2), Shape(7, 2), Shape(16, 2)}

\* Frames a file takes as it should, one of them longer than the first read.
SoundShapes == {Shape(3, 2), Shape(12, 2)}

\* Four frames, or three and a break of the connection.
Talking == INSTANCE ReceiveMessage WITH Patient <- FALSE, Shapes <- SoundShapes, MaxFrames <- 4, MaxBreaks <- 0
Breaking == INSTANCE ReceiveMessage WITH Patient <- FALSE, Shapes <- SoundShapes, MaxFrames <- 3

\* On both sides of BIG_MESSAGE, and of eleven full chunks, which are 5 bytes and a
\* multiple of 16; owners on both sides of 256 bytes.
Chunk == 131071
Data(olen, vlen) == [kind |-> "data", owner |-> 7, olen |-> olen, tlen |-> 9, vlen |-> vlen]
Encrypted ==
  {Data(4, v) : v \in {0, 524287 - 32, 524287 - 20, 11 * Chunk - 42, 11 * Chunk - 25, 11 * Chunk - 24}}
    \cup {Data(o, 1) : o \in {255, 256}}
    \cup {[kind |-> "event", owner |-> 7, olen |-> 4, tlen |-> 0, vlen |-> 1],
          [kind |-> "file", owner |-> 0, olen |-> 7, tlen |-> 16, vlen |-> 3]}

Out == INSTANCE SendMessage WITH
  BIG_MESSAGE <- 524287, CHUNK_SIZE <- Chunk, RBUF_SIZE <- 1048575, Messages <- Encrypted,
  Secured <- TRUE, Realtime <- FALSE, Drift <- {-1, 1}, MaxSends <- 2

-----------------------------------------------------------------------------
(* Rows: one row under columns of all types, and two rows, one perhaps below the  *)
(* other, under combos and markup; the items of a combo box and of an icon view. *)

Tree == INSTANCE TreeView WITH
  Types <- {"plain", "combo", "markup"}, Attributes <- {"editable"},
  MaxMeta <- 3, MaxRows <- 1, MaxWrites <- 2

Rows == INSTANCE TreeView WITH
  Types <- {"combo", "markup"}, Attributes <- {"visible"}, MaxMeta <- 2, MaxRows <- 2, MaxWrites <- 3

Combo == INSTANCE ItemList WITH
  Class <- "combo", Types <- {"text", "icon", "hidden", "other"}, Assigned <- {"icon"},
  MaxColumns <- 2, MaxItems <- 2, MaxWrites <- 3, sent <- written

Icons == INSTANCE ItemList WITH
  Class <- "icons", Types <- {"text", "icon", "markup"}, Assigned <- {"text", "hint"},
  MaxColumns <- 2, MaxItems <- 2, MaxWrites <- 3, sent <- written

ASSUME PartsAssumption ==
  /\ Talking!ReceiveAssumption /\ Breaking!ReceiveAssumption
  /\ Tree!TreeViewAssumption /\ Rows!TreeViewAssumption
  /\ Combo!ItemListAssumption /\ Icons!ItemListAssumption

-----------------------------------------------------------------------------
treeview == <<list, meta, heads, tree, rows, n, meant, wrote, trimmed, fault>>
itemlist == <<types, role, currentindex, values, shown, written, due, former, lost>>
outgoing == <<pc, job, i, left, RTSOCKET, box, broken, owed, garbled, decoded, sent, datagrams>>
parts == <<part, vars, outgoing, treeview, itemlist>>

PartsInit ==
  /\ part \in {"silent", "talking", "breaking", "encrypted", "tree", "rows", "combo", "icons"}
  /\ IF part \in {"talking", "breaking"} THEN Talking!Init ELSE Init
  /\ Out!Init
  /\ IF part = "rows" THEN Rows!Init ELSE Tree!Init
  /\ IF part = "icons" THEN Icons!Init ELSE Combo!Init
  /\ part # "encrypted" => job = CHOOSE m \in Encrypted : TRUE
  /\ part \notin {"silent", "talking", "breaking"} => frame.shape = CHOOSE s \in Shapes : TRUE

PartsNext ==
  /\ UNCHANGED part
  /\ \/ part = "silent" /\ Next /\ UNCHANGED <<outgoing, treeview, itemlist>>
     \/ part = "talking" /\ Talking!Next /\ UNCHANGED <<outgoing, treeview, itemlist>>
     \/ part = "breaking" /\ Breaking!Next /\ UNCHANGED <<outgoing, treeview, itemlist>>
     \/ part = "encrypted" /\ Out!Next /\ UNCHANGED <<vars, treeview, itemlist>>
     \/ part = "tree" /\ Tree!Next /\ UNCHANGED <<vars, outgoing, itemlist>>
     \/ part = "rows" /\ Rows!Next /\ UNCHANGED <<vars, outgoing, itemlist>>
     \/ part = "combo" /\ Combo!Next /\ UNCHANGED <<vars, outgoing, treeview>>
     \/ part = "icons" /\ Icons!Next /\ UNCHANGED <<vars, outgoing, treeview>>

PartsSpec == PartsInit /\ [][PartsNext]_parts

-----------------------------------------------------------------------------
\* A server that is silent until it has the answer never lets a file be opened while a
\* frame is received; with any server what happens to a frame is defined unless the file
\* is opened after the frame's buffer was made (PostFile has no lock), or the frame is a
\* long one that meets a file, whose first read may leave the buffer (get_message).
OpenedInTime ==
  CASE part = "talking" -> Talking!TypeOK /\ Talking!UndefinedIsExplained
    [] part = "breaking" -> Breaking!TypeOK /\ Breaking!UndefinedIsExplained
    [] OTHER -> TypeOK /\ OpenedBetweenFrames /\ UndefinedIsExplained

\* However a frame comes in pieces its reader takes its bytes and no other's, and each
\* becomes one entry of the queue, in order, with its value there or in a file (get_message).
FramesStayApart ==
  /\ part = "silent" => StaysInStep /\ EveryFrameHasItsPlace
  /\ part = "talking" => Talking!EveryFrameHasItsPlace
  /\ part = "breaking" => Breaking!EveryFrameHasItsPlace

\* A file opened between two frames gets the value of the next one and nothing else, from
\* a silent server that of the content it was chosen for (set_next_post_filename).
FileGetsItsFrame ==
  CASE part = "talking" -> Talking!FileGetsNextFrame
    [] part = "breaking" -> Breaking!FileGetsNextFrame
    [] OTHER -> FileGetsNextFrame

\* With a key too the server reads every message as it was meant, whatever chunks carry
\* it, except those whose last chunk is full (AES_encrypt, send_message).
EncryptedArriveWhole == Out!FramesArriveWhole

\* A row shows under each heading, and an item as its text, picture and tip, what the server
\* sent for it last, and a null pointer is followed, or too few values read, only with the
\* exceptions of TreeView and ItemList; a row is found by the path that is sent for it, and a
\* control on a heading is seen and moves with it (CreateTreeItem, ItemToPath,
\* MSG_CUSTOM_MESSAGE1 to 7).
RowsShowWhatWasSent ==
  /\ part = "tree" =>
       Tree!TypeOK /\ Tree!RowsAreAsSent /\ Tree!FaultIsExplained /\ Tree!HeadingsMove /\ Tree!PathsNameRows
  /\ part = "rows" =>
       Rows!TypeOK /\ Rows!RowsAreAsSent /\ Rows!FaultIsExplained /\ Rows!HeadingsMove /\ Rows!PathsNameRows
  /\ part = "combo" => Combo!TypeOK /\ Combo!ItemsShowWhatWasSent
  /\ part = "icons" => Icons!TypeOK /\ Icons!ItemsShowWhatWasSent
=============================================================================
