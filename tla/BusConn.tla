------------------------------ MODULE BusConn ------------------------------
(***************************************************************************)
(* What a D-Bus connection of the gateway reads (dbus/conn.rs): first the  *)
(* answers to the calls that set it up, then, in a reader's loop, all that *)
(* comes.  Messages are parts of a stream; their descriptors arrive with   *)
(* their first part and are taken when the message is whole, as many as    *)
(* its header names, even when its body cannot be decoded.                 *)
(***************************************************************************)
EXTENDS Naturals, Sequences, SequencesExt

CONSTANTS
    MaxMessages,    \* messages the bus sends
    MaxSetupCalls,       \* calls made to set the connection up
    MaxSize         \* the longest message, in parts

VARIABLES
    stream,         \* messages sent: [from, re, bad, at, size, fds]
    fill,           \* parts read into ReadState::buf and taken from it
    inFds,          \* ReadState::fds: each with the message it came with
    parsed,         \* messages taken from the buffer
    backlog,        \* ReadState::backlog
    serial,         \* calls sent so far
    waiting,        \* the call `call` waits for, 0 for none
    open,           \* calls the bus has not answered
    reading,        \* a reader has the connection
    got,            \* what recv has returned
    answers,        \* what each call returned: the message, 0 for an error
    failed          \* "message references missing descriptors"

busVars == <<stream, fill, inFds, parsed, backlog, serial, waiting, open, reading, got, answers, failed>>

BusInit ==
    /\ stream = <<>> /\ fill = 0 /\ inFds = <<>> /\ parsed = 0
    /\ backlog = <<>> /\ serial = 0 /\ waiting = 0 /\ open = {}
    /\ reading = FALSE /\ got = <<>> /\ answers = <<>> /\ failed = FALSE

End == IF stream = <<>> THEN 0 ELSE Last(stream).at + Last(stream).size

-----------------------------------------------------------------------------
(* The bus (external): a message of its own, such as NameOwnerChanged, one of *)
(* a peer's, or the answer to a call.                                         *)

Sent(from, re, bad, size, fds) ==
    Append(stream, [from |-> from, re |-> re, bad |-> bad, at |-> End, size |-> size, fds |-> fds])

BusSends(from, bad, size, fds) ==
    /\ Len(stream) < MaxMessages
    /\ stream' = Sent(from, 0, bad, size, fds)
    /\ UNCHANGED <<fill, inFds, parsed, backlog, serial, waiting, open, reading, got, answers, failed>>

BusAnswers(s, bad, fds) ==
    /\ s \in open /\ Len(stream) < MaxMessages
    /\ open' = open \ {s}
    /\ stream' = Sent("peer", s, bad, 1, fds)
    /\ UNCHANGED <<fill, inFds, parsed, backlog, serial, waiting, reading, got, answers, failed>>

-----------------------------------------------------------------------------
(* Conn *)

\* call_fds sends a call with the next serial.
CallFds ==
    /\ ~reading /\ ~failed /\ waiting = 0 /\ serial < MaxSetupCalls
    /\ serial' = serial + 1 /\ waiting' = serial + 1 /\ open' = open \cup {serial + 1}
    /\ UNCHANGED <<stream, fill, inFds, parsed, backlog, reading, got, answers, failed>>

StartReading ==
    /\ ~reading /\ waiting = 0
    /\ reading' = TRUE
    /\ UNCHANGED <<stream, fill, inFds, parsed, backlog, serial, waiting, open, got, answers, failed>>

Whole == parsed < Len(stream) /\ fill >= stream[parsed + 1].at + stream[parsed + 1].size
WantsOne == ~failed /\ (waiting # 0 \/ (reading /\ backlog = <<>>))

\* recvmsg: when the buffer has no whole message.  The kernel ends a read with
\* the message whose descriptors it brings.
Fill(n) ==
    /\ WantsOne /\ ~Whole /\ fill + n <= End
    /\ LET begun == {i \in DOMAIN stream : fill <= stream[i].at /\ stream[i].at < fill + n /\ stream[i].fds > 0} IN
       /\ \A i \in begun : fill + n <= stream[i].at + stream[i].size
       /\ inFds' = inFds \o IF begun = {} THEN <<>>
                            ELSE LET i == CHOOSE i \in begun : TRUE IN [j \in 1..stream[i].fds |-> i]
    /\ fill' = fill + n
    /\ UNCHANGED <<stream, parsed, backlog, serial, waiting, open, reading, got, answers, failed>>

\* Mutant: a message that cannot be decoded leaves its descriptors.
FdsOfDecoded(m) == IF m.bad THEN 0 ELSE m.fds

\* The descriptors a message takes.
FdsOf(m) == m.fds

\* What `call` keeps of the messages that are not its answer.
Kept(m) == m.from = "bus" /\ ~m.bad

Item(m) == [id |-> parsed + 1, fds |-> SubSeq(inFds, 1, FdsOf(m))]

\* read_one, for `call`: the answer, also one that cannot be decoded, ends it.
CallReads ==
    /\ WantsOne /\ waiting # 0 /\ Whole
    /\ LET m == stream[parsed + 1] IN
       IF FdsOf(m) > Len(inFds)
       THEN /\ failed' = TRUE /\ waiting' = 0 /\ answers' = Append(answers, 0)
            /\ UNCHANGED <<inFds, parsed, backlog>>
       ELSE /\ inFds' = SubSeq(inFds, FdsOf(m) + 1, Len(inFds))
            /\ parsed' = parsed + 1
            /\ waiting' = IF m.re = waiting THEN 0 ELSE waiting
            /\ answers' = IF m.re = waiting THEN Append(answers, IF m.bad THEN 0 ELSE parsed + 1) ELSE answers
            /\ backlog' = IF m.re # waiting /\ Kept(m) THEN Append(backlog, Item(m)) ELSE backlog
            /\ UNCHANGED failed
    /\ UNCHANGED <<stream, fill, serial, open, reading, got>>

\* recv: what was kept comes first.
RecvBacklog ==
    /\ reading /\ backlog # <<>>
    /\ got' = Append(got, Head(backlog)) /\ backlog' = Tail(backlog)
    /\ UNCHANGED <<stream, fill, inFds, parsed, serial, waiting, open, reading, answers, failed>>

\* A message that cannot be decoded is an error the reader goes on after.
Recv ==
    /\ WantsOne /\ reading /\ Whole
    /\ LET m == stream[parsed + 1] IN
       IF FdsOf(m) > Len(inFds)
       THEN failed' = TRUE /\ UNCHANGED <<inFds, parsed, got>>
       ELSE /\ inFds' = SubSeq(inFds, FdsOf(m) + 1, Len(inFds))
            /\ parsed' = parsed + 1
            /\ got' = IF m.bad THEN got ELSE Append(got, Item(m))
            /\ UNCHANGED failed
    /\ UNCHANGED <<stream, fill, backlog, serial, waiting, open, reading, answers>>

BusNext ==
    \/ \E from \in {"bus", "peer"}, bad \in BOOLEAN, size \in 1..MaxSize, fds \in 0..1 :
         BusSends(from, bad, size, fds)
    \/ \E s \in 1..MaxSetupCalls, bad \in BOOLEAN, fds \in 0..1 : BusAnswers(s, bad, fds)
    \/ \E n \in 1..(MaxMessages * MaxSize) : Fill(n)
    \/ CallFds \/ StartReading \/ CallReads \/ RecvBacklog \/ Recv

BusSpec == BusInit /\ [][BusNext]_busVars

(* Nothing the bus itself says is lost or moved while a connection is set up:     *)
(* the reader gets every message of the bus's that can be decoded, in the order    *)
(* it was sent and each once; a call gets its own answer; and every message has    *)
(* its own descriptors, whatever came before it.                                   *)
BusHeard ==
    LET seen == got \o backlog
        ids == {seen[i].id : i \in DOMAIN seen}
    IN /\ \A i \in DOMAIN seen :
            seen[i].fds = [j \in 1..stream[seen[i].id].fds |-> seen[i].id]
       /\ \A i \in 1..(Len(seen) - 1) : seen[i].id < seen[i + 1].id
       /\ \A k \in 1..parsed : stream[k].from = "bus" /\ ~stream[k].bad => k \in ids
       /\ \A c \in DOMAIN answers : answers[c] # 0 => stream[answers[c]].re = c
       /\ ~failed
=============================================================================
