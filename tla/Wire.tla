-------------------------------- MODULE Wire --------------------------------
(***************************************************************************)
(* A connection of the title bar proxy (decorations/wire.rs over the        *)
(* descriptor passing of sys/fd.rs): messages become bytes of a stream,     *)
(* their descriptors travel with some byte of it, at most MaxFds with one   *)
(* write, and a write may take only part of what it is given.  The other    *)
(* end reads as wire.rs itself does.                                        *)
(***************************************************************************)
EXTENDS Naturals, Sequences

CONSTANTS
  MaxFds,      \* STREAM_MAX_FDS
  MaxMessages, \* messages sent
  MaxSize,     \* the longest message, in units of which the header is one
  MaxCount     \* the most descriptors of a message

VARIABLES
  msgs,      \* messages sent so far: [at, size, fds], `at` their place in the stream
  outFds,    \* Socket::outgoing_fds
  written,   \* Socket::written
  kernel,    \* writes the other end has not read: [bytes, fds]
  got,       \* bytes the other end has read
  inFds,     \* Socket::incoming_fds there
  received,  \* the descriptors of each message it has parsed
  wireFailed     \* a connection that ended with an error

wireVars == <<msgs, outFds, written, kernel, got, inFds, received, wireFailed>>

WireInit ==
  /\ msgs = <<>> /\ outFds = <<>> /\ written = 0
  /\ kernel = <<>> /\ got = 0 /\ inFds = <<>> /\ received = <<>>
  /\ wireFailed = FALSE

\* Where the stream ends: Socket::written and what Socket::outgoing holds.
End == IF msgs = <<>> THEN 0 ELSE LET m == msgs[Len(msgs)] IN m.at + m.size

\* Socket::send.
SocketSend(size, count) ==
  /\ ~wireFailed /\ Len(msgs) < MaxMessages
  /\ LET fds == [j \in 1..count |-> <<Len(msgs) + 1, j>>] IN
     /\ msgs' = Append(msgs, [at |-> End, size |-> size, fds |-> fds])
     /\ outFds' = outFds \o [j \in 1..count |-> [at |-> End, fd |-> fds[j]]]
  /\ UNCHANGED <<written, kernel, got, inFds, received, wireFailed>>

\* How many descriptors the next write takes: those of whole messages.
Batch ==
  LET whole == {n \in 0..Len(outFds) : n <= MaxFds /\ (n = 0 \/ n = Len(outFds) \/ outFds[n + 1].at # outFds[n].at)}
  IN CHOOSE n \in whole : \A o \in whole : o <= n

\* Mutant: wherever it likes.
LimitEnd(n) == End - written

\* Where the next write stops: before a message whose descriptors are left.
Limit(n) == IF n < Len(outFds) THEN outFds[n + 1].at - written ELSE End - written

\* A turn of the loop of Socket::flush: the socket takes some of the bytes.
Flush(bytes) ==
  /\ ~wireFailed /\ End > written
  /\ outFds = <<>> \/ Batch > 0
  /\ bytes \in 1..Limit(Batch)
  /\ written' = written + bytes
  /\ kernel' = Append(kernel, [bytes |-> bytes, fds |-> [j \in 1..Batch |-> outFds[j].fd]])
  /\ outFds' = SubSeq(outFds, Batch + 1, Len(outFds))
  /\ UNCHANGED <<msgs, got, inFds, received, wireFailed>>

\* A message with more descriptors than a write takes.
FlushFails ==
  /\ ~wireFailed /\ End > written /\ outFds # <<>> /\ Batch = 0
  /\ wireFailed' = TRUE
  /\ UNCHANGED <<msgs, outFds, written, kernel, got, inFds, received>>

\* Socket::fill: a read stops at the next write that carries descriptors; those
\* come with its first byte.
Fill(bytes) ==
  /\ ~wireFailed /\ kernel # <<>>
  /\ bytes \in 1..Head(kernel).bytes
  /\ got' = got + bytes
  /\ inFds' = inFds \o Head(kernel).fds
  /\ kernel' = IF bytes = Head(kernel).bytes THEN Tail(kernel)
               ELSE <<[bytes |-> Head(kernel).bytes - bytes, fds |-> <<>>]>> \o Tail(kernel)
  /\ UNCHANGED <<msgs, outFds, written, received, wireFailed>>

\* Mutant: all that have arrived.
WantedAll(m) == Len(inFds)

\* The descriptors a message takes: as many as its signature has.
Wanted(m) == Len(m.fds)

\* Socket::next, parse: a message that has arrived takes its descriptors from
\* those that arrived.
Parse ==
  /\ ~wireFailed /\ Len(received) < Len(msgs)
  /\ LET m == msgs[Len(received) + 1] IN
     /\ got >= m.at + m.size
     /\ IF Wanted(m) > Len(inFds)
        THEN wireFailed' = TRUE /\ UNCHANGED <<inFds, received>>
        ELSE /\ received' = Append(received, SubSeq(inFds, 1, Wanted(m)))
             /\ inFds' = SubSeq(inFds, Wanted(m) + 1, Len(inFds))
             /\ UNCHANGED wireFailed
  /\ UNCHANGED <<msgs, outFds, written, kernel, got>>

WireNext ==
  \/ \E s \in 1..MaxSize, c \in 0..MaxCount : SocketSend(s, c)
  \/ \E b \in 1..(MaxMessages * MaxSize) : Flush(b) \/ Fill(b)
  \/ FlushFails \/ Parse

WireSpec == WireInit /\ [][WireNext]_wireVars

-----------------------------------------------------------------------------
(* Properties *)

(* The connection is a queue of messages with their descriptors: in whatever       *)
(* pieces the bytes are written and read, each message is received once, in order, *)
(* and with its own descriptors.                                                   *)
Queue == INSTANCE MessageQueue WITH sent <- [k \in 1..Len(msgs) |-> msgs[k].fds], received <- received
Implements == Queue!Spec

(* A message that has arrived can be parsed: its descriptors have arrived as well, *)
(* "a message's descriptors go out no later than its first byte".                  *)
DescriptorsArrive ==
  Len(received) < Len(msgs) =>
    LET m == msgs[Len(received) + 1] IN got >= m.at + m.size => Len(inFds) >= Wanted(m)
=============================================================================
