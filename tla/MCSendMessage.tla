--------------------------- MODULE MCSendMessage ---------------------------
(***************************************************************************)
(* SendMessage for TLC, with the sizes of messages.h.  The messages sit on   *)
(* both sides of every boundary send_message looks at.                      *)
(***************************************************************************)
EXTENDS SendMessage

Event(owner, vlen) ==
  [kind |-> "event", owner |-> owner, olen |-> 4, tlen |-> 0, vlen |-> vlen]
Data(vlen) == [kind |-> "data", owner |-> 7, olen |-> 4, tlen |-> 9, vlen |-> vlen]
File(size) == [kind |-> "file", owner |-> 0, olen |-> 7, tlen |-> 16, vlen |-> size]
Named(olen) == [kind |-> "data", owner |-> 7, olen |-> olen, tlen |-> 9, vlen |-> 1]

\* Plain frames: the compressed header and its limits; BIG_MESSAGE (20 bytes
\* are not value); five full chunks, and one byte less or more; a file that is
\* empty, one that fills the read buffer, one that does not fit 28 bits.
PlainMessages ==
  {Event(4095, 1), Event(4096, 1), Event(7, 0), Event(7, 40959), Event(7, 40960)}
  \cup {Data(n) : n \in {0, BIG_MESSAGE - 21, BIG_MESSAGE - 20,
                         5 * CHUNK_SIZE - 21, 5 * CHUNK_SIZE - 20, 5 * CHUNK_SIZE - 19}}
  \cup {File(n) : n \in {0, 3, RBUF_SIZE, RBUF_SIZE + 1, HeaderRange}}
  \cup {Named(n) : n \in {255, 256}}

\* A file grows or shrinks by a byte.
Byte == {-1, 1}
=============================================================================
