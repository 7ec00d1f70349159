----------------------------- MODULE Connection -----------------------------
(***************************************************************************)
(* How a connection is made and made again (ConceptClient.cpp: Connect,      *)
(* CheckReconnect, connect2): sockets by their numbers, the keys, and what    *)
(* the server answers.  Other threads open and close files meanwhile, and a   *)
(* number that was closed is used again.                                     *)
(***************************************************************************)
EXTENDS Integers, FiniteSetsExt

CONSTANTS
  Descriptors, \* the numbers of descriptors: 0 is taken
  Addresses,   \* how many addresses a name of IPv6 has
  Retries,     \* attempts of doWork before it gives up
  MaxLosses,   \* bound: connections lost
  MaxFiles     \* bound: files other threads open

ConnectionAssumption ==
  /\ Descriptors \subseteq Nat \ {0}
  /\ Addresses \in Nat \ {0} /\ Retries \in Nat \ {0}
  /\ MaxLosses \in Nat /\ MaxFiles \in Nat

Closed == -1

VARIABLES
  pc,            \* where Connect or CheckReconnect is
  ipv6,          \* whether the host is an address of IPv6
  left,          \* addresses not tried yet
  socket,        \* CLIENT_SOCKET in Connect, CLIENT_SOCKET2 in CheckReconnect
  CLIENT_SOCKET,
  SessionID,     \* whether the server gave the session an identifier
  REMOTE_PUBLIC_KEY, \* "cert" the server's certificate, "key" the key of the session
  En,            \* what the cipher was set up with, "none" before the first frame
  tries,         \* the loop counter of doWork
  losses, opened, \* what is used of the bounds
  sockets,       \* the client's open sockets
  files,         \* descriptors of other threads
  refused,       \* history: numbers that connect2 closed and said it had connected
  timedOut,      \* history: sockets left open because connect2 timed out
  harmed,        \* history: descriptors of others that were closed
  unsent         \* history: whether a session was restored before anything was sent

keys == <<REMOTE_PUBLIC_KEY, En, unsent>>
fds == <<sockets, files, harmed, opened>>
bounds == <<tries, losses>>
vars == <<pc, ipv6, left, socket, CLIENT_SOCKET, SessionID, keys, bounds, fds, refused, timedOut>>

Init ==
  /\ pc = "socket" /\ ipv6 \in BOOLEAN /\ left = IF ipv6 THEN Addresses ELSE 1
  /\ socket = Closed /\ CLIENT_SOCKET = Closed /\ SessionID = FALSE
  /\ REMOTE_PUBLIC_KEY = "none" /\ En = "none" /\ unsent = FALSE
  /\ tries = 0 /\ losses = 0 /\ opened = 0
  /\ sockets = {} /\ files = {} /\ refused = {} /\ timedOut = {} /\ harmed = {}

\* Connect is in its first call; afterwards it is CheckReconnect.
First == losses = 0

\* A new descriptor gets the lowest free number.
Free == Descriptors \ (sockets \cup files)
Lowest == Min(Free)

\* closesocket(n), whatever n is now.
Close(n) ==
  /\ sockets' = sockets \ {n} /\ files' = files \ {n}
  /\ harmed' = harmed \cup (files \cap {n})
  /\ UNCHANGED opened

\* An attempt ends without a connection: Connect gives up, doWork tries again.
Failed ==
  /\ socket' = Closed
  /\ pc' = IF First THEN "error" ELSE "retry"

-----------------------------------------------------------------------------
Socket ==
  /\ pc = "socket" /\ Free # {} /\ pc' = "connect2"
  /\ socket' = Lowest /\ sockets' = sockets \cup {Lowest}
  /\ CLIENT_SOCKET' = IF First THEN Lowest ELSE CLIENT_SOCKET
  /\ UNCHANGED <<ipv6, left, SessionID, keys, bounds, files, harmed, opened, refused, timedOut>>

\* All descriptors are in use: socket fails, and other addresses are not tried.
NoDescriptor ==
  /\ pc = "socket" /\ Free = {} /\ Failed
  /\ CLIENT_SOCKET' = IF First THEN Closed ELSE CLIENT_SOCKET
  /\ UNCHANGED <<ipv6, left, SessionID, keys, bounds, fds, refused, timedOut>>

Connected ==
  /\ pc = "connect2" /\ pc' = "cert"
  /\ UNCHANGED <<ipv6, left, socket, CLIENT_SOCKET, SessionID, keys, bounds, fds, refused, timedOut>>

\* connect2 closes the socket and returns the error, a positive number; its callers
\* look for -1 only and go on.
Refused ==
  /\ pc = "connect2" /\ pc' = "cert"
  /\ Close(socket)
  /\ refused' = refused \cup {socket}
  /\ UNCHANGED <<ipv6, left, socket, CLIENT_SOCKET, SessionID, keys, bounds, timedOut>>

\* After five seconds it returns -1.  Only the loop over the addresses of IPv6 closes
\* the socket; else it stays open, and CLIENT_SOCKET stays what it is.
TimesOut ==
  /\ pc = "connect2" /\ left' = left - 1
  /\ IF ipv6 /\ First
       THEN /\ pc' = "close6" /\ UNCHANGED <<socket, CLIENT_SOCKET, timedOut>>
       ELSE /\ Failed /\ timedOut' = timedOut \cup {socket} /\ UNCHANGED CLIENT_SOCKET
  /\ UNCHANGED <<ipv6, SessionID, keys, bounds, fds, refused>>

NextAddress ==
  /\ pc = "close6" /\ Close(socket)
  /\ CLIENT_SOCKET' = Closed /\ socket' = Closed
  /\ pc' = IF left > 0 THEN "socket" ELSE "error"
  /\ UNCHANGED <<ipv6, left, SessionID, keys, bounds, refused, timedOut>>

\* Mutant: the socket is not closed.
BreachOpen ==
  /\ pc \in {"cert", "session"} /\ Failed
  /\ CLIENT_SOCKET' = IF First THEN Closed ELSE CLIENT_SOCKET
  /\ UNCHANGED <<ipv6, left, SessionID, keys, bounds, fds, refused, timedOut>>

\* The certificate or the answer breaks off: the socket is closed.
Breach ==
  /\ pc \in {"cert", "session"} /\ Close(socket) /\ Failed
  /\ CLIENT_SOCKET' = IF First THEN Closed ELSE CLIENT_SOCKET
  /\ UNCHANGED <<ipv6, left, SessionID, keys, bounds, refused, timedOut>>

\* The certificate comes on a socket that is connected.  The address that Connect keeps
\* of IPv6 is a pointer's bytes, with which nothing connects again.
Certificate ==
  /\ pc = "cert" /\ socket \in sockets /\ ~(ipv6 /\ ~First)
  /\ pc' = "session"
  /\ REMOTE_PUBLIC_KEY' = "cert"
  /\ UNCHANGED <<ipv6, left, socket, CLIENT_SOCKET, SessionID, En, unsent, bounds, fds, refused, timedOut>>

\* Mutant: messages are encrypted with the certificate.
KeepCert ==
  /\ pc = "session" /\ First /\ pc' = "connected"
  /\ SessionID' \in BOOLEAN
  /\ UNCHANGED <<ipv6, left, socket, CLIENT_SOCKET, keys, bounds, fds, refused, timedOut>>

\* "get session" is answered, or not in three seconds: the client goes on without.
Session ==
  /\ pc = "session" /\ First /\ pc' = "connected"
  /\ SessionID' \in BOOLEAN
  /\ REMOTE_PUBLIC_KEY' = "key"
  /\ UNCHANGED <<ipv6, left, socket, CLIENT_SOCKET, En, unsent, bounds, fds, refused, timedOut>>

\* Mutant: the new socket is forgotten.
RestoredNowhere ==
  /\ pc = "session" /\ ~First /\ pc' = "connected" /\ tries' = 0
  /\ unsent' = (unsent \/ En = "none")
  /\ UNCHANGED <<ipv6, left, socket, CLIENT_SOCKET, SessionID, REMOTE_PUBLIC_KEY, En, losses, fds, refused, timedOut>>

\* "get restore" is answered with 1.  The certificate stays in REMOTE_PUBLIC_KEY.
Restored ==
  /\ pc = "session" /\ ~First /\ pc' = "connected"
  /\ CLIENT_SOCKET' = socket /\ tries' = 0
  /\ unsent' = (unsent \/ En = "none")
  /\ UNCHANGED <<ipv6, left, socket, SessionID, REMOTE_PUBLIC_KEY, En, losses, fds, refused, timedOut>>

\* It is answered otherwise, or not in three seconds: there is no session any more.
Denied ==
  /\ pc = "session" /\ ~First /\ pc' = "error"
  /\ Close(socket) /\ socket' = Closed /\ SessionID' = FALSE
  /\ UNCHANGED <<ipv6, left, CLIENT_SOCKET, keys, bounds, refused, timedOut>>

\* A byte of the answer has come and the rest does not: the loop has no end.
Stalls ==
  /\ pc = "session" /\ pc' = "stalled"
  /\ UNCHANGED <<ipv6, left, socket, CLIENT_SOCKET, SessionID, keys, bounds, fds, refused, timedOut>>

\* A secured client sends: the first frame sets the cipher up.
Send ==
  /\ pc = "connected"
  /\ En' = IF En = "none" THEN REMOTE_PUBLIC_KEY ELSE En
  /\ UNCHANGED <<pc, ipv6, left, socket, CLIENT_SOCKET, SessionID, REMOTE_PUBLIC_KEY, unsent, bounds,
                 fds, refused, timedOut>>

\* Mutant: one attempt too many.
BeginsAgain ==
  \/ pc = "connected" /\ losses < MaxLosses /\ losses' = losses + 1
  \/ pc = "retry" /\ tries <= Retries /\ UNCHANGED losses

\* The connection is lost, or the last attempt to make it again failed.
Begins ==
  \/ pc = "connected" /\ losses < MaxLosses /\ losses' = losses + 1
  \/ pc = "retry" /\ tries < Retries /\ UNCHANGED losses

\* Mutant: the number is kept.
DropStale == pc' = "socket" /\ UNCHANGED CLIENT_SOCKET /\ IF CLIENT_SOCKET # Closed THEN Close(CLIENT_SOCKET) ELSE UNCHANGED fds

Drop ==
  /\ pc' = "socket" /\ CLIENT_SOCKET' = Closed
  /\ IF CLIENT_SOCKET # Closed THEN Close(CLIENT_SOCKET) ELSE UNCHANGED fds

\* CheckReconnect begins: without a session it does not even close the socket.
CheckReconnect ==
  /\ Begins
  /\ tries' = tries + 1 /\ left' = 1
  /\ IF SessionID THEN Drop ELSE pc' = "error" /\ UNCHANGED <<CLIENT_SOCKET, fds>>
  /\ UNCHANGED <<ipv6, socket, SessionID, keys, refused, timedOut>>

GiveUp ==
  /\ pc = "retry" /\ tries = Retries /\ pc' = "error"
  /\ UNCHANGED <<ipv6, left, socket, CLIENT_SOCKET, SessionID, keys, bounds, fds, refused, timedOut>>

\* While the worker reconnects the user interface opens and closes files.
OtherOpens ==
  /\ ~First /\ opened < MaxFiles /\ Free # {} /\ opened' = opened + 1
  /\ files' = files \cup {Lowest}
  /\ UNCHANGED <<pc, ipv6, left, socket, CLIENT_SOCKET, SessionID, keys, bounds, sockets, harmed, refused, timedOut>>

OtherCloses ==
  /\ \E f \in files : files' = files \ {f}
  /\ UNCHANGED <<pc, ipv6, left, socket, CLIENT_SOCKET, SessionID, keys, bounds, sockets, harmed, opened, refused, timedOut>>

Next ==
  \/ Socket \/ NoDescriptor \/ Connected \/ Refused \/ TimesOut \/ NextAddress \/ Breach \/ Certificate
  \/ Session \/ Restored \/ Denied \/ Stalls \/ Send \/ CheckReconnect \/ GiveUp
  \/ OtherOpens \/ OtherCloses

Spec == Init /\ [][Next]_vars

-----------------------------------------------------------------------------
(* Properties *)

TypeOK ==
  /\ pc \in {"socket", "connect2", "close6", "cert", "session", "connected", "retry", "error", "stalled"}
  /\ ipv6 \in BOOLEAN /\ left \in 0..Addresses
  /\ {socket, CLIENT_SOCKET} \subseteq Descriptors \cup {Closed}
  /\ SessionID \in BOOLEAN
  /\ REMOTE_PUBLIC_KEY \in {"none", "cert", "key"} /\ En \in {"none", "cert", "key"}
  /\ tries \in 0..Retries /\ losses \in 0..MaxLosses
  /\ sockets \subseteq Descriptors /\ files \subseteq Descriptors \ sockets

\* The client closes no descriptor of another thread, except a number that connect2
\* had closed already when it reported a refused connection as made.
ClosesItsOwn == harmed \subseteq refused

\* Whatever attempt fails, and where, no socket stays open but the one in use, those
\* left when connect2 timed out, and that of a connection without a session.
NoSocketIsLost ==
  pc \in {"connected", "retry", "error"} => sockets \subseteq {CLIENT_SOCKET} \cup timedOut

\* A connection that is in use has an open socket of its own, also after a refused one.
ConnectedIsOpen == pc = "connected" => CLIENT_SOCKET \in sockets

\* Frames are encrypted with the key the server was sent, unless the session was
\* restored before the first was sent: then REMOTE_PUBLIC_KEY holds the certificate.
ServerHasTheKey == En # "none" /\ ~unsent => En = "key"
=============================================================================
