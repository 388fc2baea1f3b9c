------------------------------ MODULE Marshal -------------------------------
(***************************************************************************)
(* D-Bus messages as bytes (dbus/value.rs, dbus/message.rs), from a peer,   *)
(* through psbox, to the bus.  The peer writes in either byte order.  psbox *)
(* parses the message, turns the body into little-endian order, changes     *)
(* some of its arguments or none, and encodes it again under a serial of    *)
(* its own; a body it does not change is forwarded as bytes.                *)
(*                                                                          *)
(* A byte is a number below 256, and text and signatures are sequences of   *)
(* them.  One type stands for those written alike: U16 for I16, U32 for I32 *)
(* and Fd, U64 for I64 and Double.  The operators are RECURSIVE, so this    *)
(* module is for TLC alone.                                                 *)
(***************************************************************************)
EXTENDS Integers, Sequences, SequencesExt, FiniteSetsExt

CONSTANTS MaxDepth     \* MAX_DEPTH

VARIABLES at,          \* where the message is
          big,         \* the peer's byte order
          args,        \* what the peer means to send
          declared,    \* the signature it declares
          wire,        \* the bytes on the way in, then those on the way out
          edit,        \* what psbox does to the arguments
          near, far    \* what psbox, and then the receiver, make of the bytes

vars == <<at, big, args, declared, wire, edit, near, far>>

-----------------------------------------------------------------------------
(* Values: a type code, the signature of what a container holds, and a      *)
(* number, a text, or parts.  A dictionary's parts are its entries.         *)

TByte == 121
TBool == 98
TU16 == 113
TU32 == 117
TU64 == 116
TStr == 115
TPath == 111
TSig == 103
TVariant == 118
TArray == 97
TStruct == 40
TEntry == 123

\* What closes a struct and a dictionary entry.
Close(c) == IF c = TStruct THEN 41 ELSE 125

Basic == {TByte, TBool, TU16, TU32, TU64, TStr, TPath, TSig, TVariant}

Value(c, elem, n, text, parts) == [c |-> c, elem |-> elem, n |-> n, text |-> text, parts |-> parts]
Num(c, n)         == Value(c, <<>>, n, <<>>, <<>>)
Text(c, text)     == Value(c, <<>>, 0, text, <<>>)
Struct(parts)     == Value(TStruct, <<>>, 0, <<>>, parts)
Pair(k, v)        == Value(TEntry, <<>>, 0, <<>>, <<k, v>>)
Array(elem, vs)   == Value(TArray, elem, 0, <<>>, vs)
Variant(v)        == Value(TVariant, <<>>, 0, <<>>, <<v>>)

RECURSIVE Signature(_)
Signature(v) ==
  CASE v.c = TArray -> <<TArray>> \o v.elem
    [] v.c \in {TStruct, TEntry} -> <<v.c>> \o FlattenSeq([i \in DOMAIN v.parts |-> Signature(v.parts[i])])
                                      \o <<Close(v.c)>>
    [] OTHER -> <<v.c>>

SignatureOf(vs) == FlattenSeq([i \in DOMAIN vs |-> Signature(vs[i])])

\* The index after what closes at i, which is `first` or later.
After(sig, first, i, close) == IF i > 0 /\ i >= first /\ i <= Len(sig) /\ sig[i] = close THEN i + 1 ELSE 0

\* complete_type_len, as the index after the complete type that begins at i; 0 for an error.
RECURSIVE TypeEnd(_, _, _)
RECURSIVE CloseAt(_, _, _)
TypeEnd(sig, i, depth) ==
  CASE i = 0 \/ i > Len(sig) \/ depth > MaxDepth -> 0
    [] sig[i] \in Basic -> i + 1
    [] sig[i] = TArray -> TypeEnd(sig, i + 1, depth + 1)
    [] sig[i] = TStruct -> After(sig, i + 2, CloseAt(sig, i + 1, depth + 1), Close(TStruct))
    [] sig[i] = TEntry -> After(sig, 0, TypeEnd(sig, TypeEnd(sig, i + 1, depth + 1), depth + 1), Close(TEntry))
    [] OTHER -> 0

\* Where the complete types from i on are closed.
CloseAt(sig, i, depth) ==
  IF i # 0 /\ i <= Len(sig) /\ sig[i] = Close(TStruct) THEN i
  ELSE IF i = 0 THEN 0 ELSE CloseAt(sig, TypeEnd(sig, i, depth), depth)

\* split_signature: where the complete types begin, and the end; 0 at the end for an error.
RECURSIVE Bounds(_, _)
Bounds(sig, bs) ==
  IF Last(bs) = 0 \/ Last(bs) > Len(sig) THEN bs ELSE Bounds(sig, Append(bs, TypeEnd(sig, Last(bs), 0)))

Types(sig, bs) == [i \in 1..(Len(bs) - 1) |-> SubSeq(sig, bs[i], bs[i + 1] - 1)]

Splits(sig)         == Last(Bounds(sig, <<1>>)) # 0
SplitSignature(sig) == Types(sig, Bounds(sig, <<1>>))

Alignment(c) ==
  CASE c \in {TByte, TSig, TVariant} -> 1
    [] c = TU16 -> 2
    [] c \in {TU64, TStruct, TEntry} -> 8
    [] OTHER -> 4

-----------------------------------------------------------------------------
(* Writing.                                                                 *)

\* n as w bytes, the least first unless bigEndian.
Bytes(n, w, bigEndian) ==
  LET digit(i) == IF i > 3 THEN 0 ELSE (n \div 256^i) % 256
  IN [i \in 1..w |-> digit(IF bigEndian THEN w - i ELSE i - 1)]

Aligned(pos, n) == ((pos + n - 1) \div n) * n

Pad(buf, n) == buf \o [i \in 1..(Aligned(Len(buf), n) - Len(buf)) |-> 0]

\* The length of an array, put in when its elements are there; it leaves out the padding before them.
Measured(buf, align, all, bigEndian) ==
  buf \o Bytes(Len(all) - Aligned(Len(buf) + 4, align), 4, bigEndian) \o SubSeq(all, Len(buf) + 5, Len(all))

\* Writer::write.  Its order is little-endian; a peer's may be the other.
RECURSIVE Write(_, _, _)
RECURSIVE WriteAll(_, _, _)
Write(buf0, v, bigEndian) ==
  LET buf == Pad(buf0, Alignment(v.c))
      Parts(from) == WriteAll(from, v.parts, bigEndian)
  IN CASE v.c = TByte -> Append(buf, v.n)
       [] v.c = TU16 -> buf \o Bytes(v.n, 2, bigEndian)
       [] v.c \in {TBool, TU32} -> buf \o Bytes(v.n, 4, bigEndian)
       [] v.c = TU64 -> buf \o Bytes(v.n, 8, bigEndian)
       [] v.c \in {TStr, TPath} -> buf \o Bytes(Len(v.text), 4, bigEndian) \o v.text \o <<0>>
       [] v.c = TSig -> buf \o <<Len(v.text)>> \o v.text \o <<0>>
       [] v.c = TVariant -> Parts(buf \o <<Len(Signature(v.parts[1]))>> \o Signature(v.parts[1]) \o <<0>>)
       [] v.c \in {TStruct, TEntry} -> Parts(buf)
       [] v.c = TArray ->
            Measured(buf, Alignment(v.elem[1]), Parts(Pad(buf \o <<0, 0, 0, 0>>, Alignment(v.elem[1]))), bigEndian)

WriteAll(buf, vs, bigEndian) ==
  IF vs = <<>> THEN buf ELSE WriteAll(Write(buf, Head(vs), bigEndian), Tail(vs), bigEndian)

\* encode_body.
Encode(vs, bigEndian) == WriteAll(<<>>, vs, bigEndian)

-----------------------------------------------------------------------------
(* Reading: what was read, and the position after it; at -1 it failed.      *)

Bad == [v |-> <<>>, pos |-> -1]

Number(buf, pos, w, bigEndian) ==
  LET d(i) == buf[pos + (IF bigEndian THEN w - i ELSE i + 1)]
  IN d(0) + (IF w > 1 THEN 256 * d(1) ELSE 0) + (IF w > 2 THEN 65536 * d(2) ELSE 0)

\* What was read, made into the value it is part of.
Made(r, kind, elem) ==
  IF r.pos = -1 THEN Bad ELSE [v |-> Value(kind, elem, 0, <<>>, r.v), pos |-> r.pos]

One(r)     == IF r.pos = -1 THEN Bad ELSE [v |-> <<r.v>>, pos |-> r.pos]
Upto(r, n) == IF r.pos = n THEN r ELSE Bad

\* Values read so far, and one more.
More(sofar, r) == IF r.pos = -1 THEN Bad ELSE [v |-> Append(sofar.v, r.v), pos |-> r.pos]

From(pos) == [v |-> <<>>, pos |-> pos]

RECURSIVE Read(_, _, _, _, _)
RECURSIVE ReadFields(_, _, _, _, _)
RECURSIVE ReadUntil(_, _, _, _, _, _)

\* Reader::read_depth of the single complete type sig.
Read(buf, pos0, sig, bigEndian, depth) ==
  LET pos      == Aligned(pos0, Alignment(sig[1]))
      Has(n)   == pos + n <= Len(buf)
      Num4     == Number(buf, pos, 4, bigEndian)
      Numeric(w) == IF Has(w) THEN [v |-> Num(sig[1], Number(buf, pos, w, bigEndian)), pos |-> pos + w] ELSE Bad
      Texted(w, n)   == Has(w + n + 1) /\ buf[pos + w + n + 1] = 0
      TextAt(w, n)   == SubSeq(buf, pos + w + 1, pos + w + n)
      Textual(w, n)  == IF Texted(w, n) THEN [v |-> Text(sig[1], TextAt(w, n)), pos |-> pos + w + n + 1] ELSE Bad
      inside   == SubSeq(sig, 2, Len(sig) - 1)
      first    == Aligned(pos + 4, Alignment(sig[2]))
  IN CASE depth > MaxDepth \/ ~Has(0) -> Bad
       [] sig[1] = TByte -> Numeric(1)
       [] sig[1] = TU16 -> Numeric(2)
       [] sig[1] = TU32 -> Numeric(4)
       [] sig[1] = TU64 -> Numeric(8)
       [] sig[1] = TBool -> IF Has(4) /\ Num4 \in {0, 1} THEN Numeric(4) ELSE Bad
       [] sig[1] \in {TStr, TPath} -> IF Has(4) THEN Textual(4, Num4) ELSE Bad
       [] sig[1] = TSig -> IF Has(1) THEN Textual(1, buf[pos + 1]) ELSE Bad
       [] sig[1] = TVariant ->
            IF /\ Has(1) /\ Texted(1, buf[pos + 1])
               /\ Splits(TextAt(1, buf[pos + 1])) /\ Len(SplitSignature(TextAt(1, buf[pos + 1]))) = 1
            THEN Made(One(Read(buf, pos + 2 + buf[pos + 1], TextAt(1, buf[pos + 1]), bigEndian, depth + 1)),
                      TVariant, <<>>)
            ELSE Bad
       [] sig[1] = TStruct ->
            IF Splits(inside)
            THEN Made(ReadFields(buf, From(pos), SplitSignature(inside), bigEndian, depth + 1), TStruct, <<>>)
            ELSE Bad
       [] sig[1] = TArray ->
            IF Has(4) /\ first + Num4 <= Len(buf)
            THEN Made(Upto(ReadUntil(buf, From(first), Tail(sig), first + Num4, bigEndian, depth + 1), first + Num4),
                      TArray, Tail(sig))
            ELSE Bad
       [] OTHER -> Bad

ReadFields(buf, sofar, sigs, bigEndian, depth) ==
  IF sigs = <<>> \/ sofar.pos = -1 THEN sofar
  ELSE ReadFields(buf, More(sofar, Read(buf, sofar.pos, Head(sigs), bigEndian, depth)), Tail(sigs), bigEndian, depth)

\* The elements of an array up to its end.  A dictionary's entries are read here and nowhere else.
ReadUntil(buf, sofar, elem, end, bigEndian, depth) ==
  IF sofar.pos = -1 \/ sofar.pos >= end THEN sofar
  ELSE ReadUntil(buf,
                 More(sofar,
                      IF elem[1] = TEntry
                      THEN Made(ReadFields(buf, From(Aligned(sofar.pos, 8)),
                                           SplitSignature(SubSeq(elem, 2, Len(elem) - 1)), bigEndian, depth),
                                TEntry, <<>>)
                      ELSE Read(buf, sofar.pos, elem, bigEndian, depth)),
                 elem, end, bigEndian, depth)

\* decode_body: every argument, and nothing after the last.
Decode(sig, body, bigEndian) ==
  IF Splits(sig) THEN Upto(ReadFields(body, From(0), SplitSignature(sig), bigEndian, 0), Len(body)) ELSE Bad

-----------------------------------------------------------------------------
(* Messages.  `name` stands for the interface, the member, the error name   *)
(* and the destination, which are texts written alike.                      *)

Call   == 1
Return == 2

Message(kind, serial, path, name, reply, sender, sig, fds, body) ==
  [kind |-> kind, serial |-> serial, path |-> path, name |-> name, reply |-> reply, sender |-> sender,
   sig |-> sig, fds |-> fds, body |-> body]

Field(present, code, v) == IF present THEN <<Struct(<<Num(TByte, code), Variant(v)>>)>> ELSE <<>>

Fields(m) ==
  Field(m.path # <<>>, 1, Text(TPath, m.path)) \o Field(m.reply # 0, 5, Num(TU32, m.reply))
    \o Field(m.name # <<>>, 6, Text(TStr, m.name)) \o Field(m.sig # <<>>, 8, Text(TSig, m.sig))
    \o Field(m.fds # 0, 9, Num(TU32, m.fds))

\* The sender is written by the bus alone, and so is a field psbox does not know.
SenderFields(m) ==
  Field(m.sender # <<>>, 7, Text(TStr, m.sender)) \o Field(m.sender # <<>>, 10, Num(TU64, 1))

HeaderSig == <<TArray, TStruct, TByte, TVariant, 41>>

\* encode: the fixed prefix, the fields, and the body from the next multiple of eight.
EncodeMessage(m, fields, bigEndian) ==
  LET prefix == <<IF bigEndian THEN 66 ELSE 108, m.kind, 0, 1>>
                  \o Bytes(Len(m.body), 4, bigEndian) \o Bytes(m.serial, 4, bigEndian)
  IN Pad(Write(prefix, Array(Tail(HeaderSig), fields), bigEndian), 8) \o m.body

\* frame_len.
FrameLen(buf) == Aligned(16 + Number(buf, 12, 4, buf[1] = 66), 8) + Number(buf, 4, 4, buf[1] = 66)

\* What a header field says, or `none`.
Found(fields, code, c, none) ==
  LET hits == SelectSeq(fields, LAMBDA f : f.parts[1].n = code /\ f.parts[2].parts[1].c = c)
  IN IF hits = <<>> THEN none
     ELSE IF c = TU32 THEN Last(hits).parts[2].parts[1].n ELSE Last(hits).parts[2].parts[1].text

\* What the header fields say.
FromFields(buf, bigEndian, fs) ==
  Message(buf[2], Number(buf, 8, 4, bigEndian), Found(fs, 1, TPath, <<>>), Found(fs, 6, TStr, <<>>),
          Found(fs, 5, TU32, 0), Found(fs, 7, TStr, <<>>), Found(fs, 8, TSig, <<>>), Found(fs, 9, TU32, 0),
          SubSeq(buf, Aligned(16 + Number(buf, 12, 4, bigEndian), 8) + 1, Len(buf)))

\* What parse_header asks of a message: that it is whole, of the one version there is, and
\* that its fields end where its prefix says.
HeaderOK(buf, bigEndian) ==
  /\ Len(buf) >= 16 /\ buf[1] \in {66, 108}
  /\ Len(buf) = FrameLen(buf)
  /\ buf[4] = 1
  /\ Read(buf, 12, HeaderSig, bigEndian, 0).pos = 16 + Number(buf, 12, 4, bigEndian)

\* parse_header.
ParseHeader(buf, bigEndian) == FromFields(buf, bigEndian, Read(buf, 12, HeaderSig, bigEndian, 0).v.parts)

\* Mutant: the body stays in the byte order it came in.
ConvertedNever(m, vs, bigEndian) == m.body

\* parse: a big-endian body becomes a little-endian one.
Converted(m, vs, bigEndian) == IF bigEndian THEN Encode(vs, FALSE) ELSE m.body

\* What a receiver has: the message, and its arguments; ok says whether it parses.
Received(ok, m, vs) == [ok |-> ok, m |-> m, args |-> vs]

NoMessage == Received(FALSE, Message(0, 0, <<>>, <<>>, 0, <<>>, <<>>, 0, <<>>), <<>>)

WithArgs(m, r, bigEndian) ==
  IF r.pos = -1 THEN NoMessage ELSE Received(TRUE, [m EXCEPT !.body = Converted(m, r.v, bigEndian)], r.v)

Decoded(m, bigEndian) == WithArgs(m, Decode(m.sig, m.body, bigEndian), bigEndian)

Parse(buf) ==
  LET bigEndian == buf[1] = 66
  IN IF HeaderOK(buf, bigEndian) THEN Decoded(ParseHeader(buf, bigEndian), bigEndian) ELSE NoMessage

-----------------------------------------------------------------------------
(* What psbox changes: options in a dictionary, and object paths anywhere.  *)

IsDict(v) == v.c = TArray /\ v.elem = <<TEntry, TStr, TVariant, 125>>

Option == <<110>>      \* the key that is set or removed
Held   == Variant(Text(TStr, <<120, 120>>))

DictRemove(d, key) == [d EXCEPT !.parts = SelectSeq(@, LAMBDA e : e.parts[1].text # key)]

DictSet(d, key, v) ==
  IF \E i \in DOMAIN d.parts : d.parts[i].parts[1].text = key
  THEN LET i == CHOOSE i \in DOMAIN d.parts : /\ d.parts[i].parts[1].text = key
                                              /\ \A j \in 1..(i - 1) : d.parts[j].parts[1].text # key
       IN [d EXCEPT !.parts[i] = Pair(d.parts[i].parts[1], v)]
  ELSE [d EXCEPT !.parts = Append(@, Pair(Text(TStr, key), v))]

\* map_paths, which makes every path another and longer one.
RECURSIVE MapPaths(_)
MapPaths(v) ==
  [v EXCEPT !.text = IF v.c = TPath THEN @ \o <<47, 110>> ELSE @,
            !.parts = [i \in DOMAIN @ |-> MapPaths(@[i])]]

Edits == {"none", "set", "remove", "paths", "reply"}

Edited(vs) ==
  [i \in DOMAIN vs |->
     CASE edit = "set" /\ IsDict(vs[i]) -> DictSet(vs[i], Option, Held)
       [] edit = "remove" /\ IsDict(vs[i]) -> DictRemove(vs[i], Option)
       [] edit = "paths" -> MapPaths(vs[i])
       [] OTHER -> vs[i]]

-----------------------------------------------------------------------------
(* The arguments a peer may send: numbers that need padding, texts, and     *)
(* containers, empty and not, of what is aligned otherwise than they are.   *)

SV == <<TEntry, TStr, TVariant, 125>>

Values ==
  {Num(TByte, 7), Num(TU16, 258), Num(TU64, 66051), Num(TBool, 1),
   Text(TPath, <<47>>), Text(TSig, <<TByte, TU32>>),
   Array(<<TByte>>, <<Num(TByte, 1), Num(TByte, 2)>>),
   Array(<<TU64>>, <<>>), Array(<<TU64>>, <<Num(TU64, 5)>>),
   Array(<<TPath>>, <<Text(TPath, <<47>>), Text(TPath, <<47, 97>>)>>),
   Array(<<TStruct, TByte, TU64, 41>>, <<Struct(<<Num(TByte, 3), Num(TU64, 4)>>)>>),
   Array(SV, <<>>),
   Array(SV, <<Pair(Text(TStr, Option), Variant(Num(TU16, 9))), Pair(Text(TStr, <<>>), Variant(Text(TPath, <<47>>)))>>),
   Variant(Variant(Struct(<<Num(TByte, 1), Array(<<TU32>>, <<Num(TU32, 70000)>>)>>))),
   Variant(Variant(Variant(Array(<<TArray, TByte>>, <<Array(<<TByte>>, <<Num(TByte, 1)>>)>>))))}

Argument == {<<>>} \cup {<<v>> : v \in Values} \cup {<<v, w>> : v, w \in Values}

\* A peer may also declare what it does not send.
Declarations(vs) ==
  {SignatureOf(vs)} \cup
    (IF Len(vs) # 1 THEN {}
     ELSE {Signature(v) : v \in Values} \cup {<<TArray>>, <<TStruct, 41>>, <<TEntry, TStr, TVariant, 125>>})

PeerMessage(vs, sig) ==
  Message(Call, 66052, <<47, 112>>, <<109>>, 0, <<58, 49>>, sig, 1, Encode(vs, big))

OwnSerial == 513

-----------------------------------------------------------------------------
Init ==
  /\ at = "peer" /\ big \in BOOLEAN /\ args \in Argument /\ declared \in Declarations(args)
  /\ edit \in Edits
  /\ wire = <<>> /\ near = NoMessage /\ far = NoMessage

\* The peer, through its bus, which adds the sender.
Send ==
  /\ at = "peer" /\ at' = "sent"
  /\ LET m == PeerMessage(args, declared) IN wire' = EncodeMessage(m, Fields(m) \o SenderFields(m), big)
  /\ UNCHANGED <<big, args, declared, edit, near, far>>

Receive ==
  /\ at = "sent"
  /\ near' = Parse(wire)
  /\ at' = IF near'.ok THEN "here" ELSE "refused"
  /\ UNCHANGED <<big, args, declared, edit, wire, far>>

\* The message goes on, its body encoded again if it was changed.
Forward ==
  /\ at = "here" /\ edit # "reply" /\ at' = "gone"
  /\ LET m == [near.m EXCEPT !.serial = OwnSerial,
                             !.body = IF edit = "none" THEN @ ELSE Encode(Edited(near.args), FALSE),
                             !.sig = IF edit = "none" THEN @ ELSE SignatureOf(Edited(near.args))]
     IN wire' = EncodeMessage(m, Fields(m), FALSE)
  /\ UNCHANGED <<big, args, declared, edit, near, far>>

\* method_return, error: psbox answers the call itself, to its sender.
Reply ==
  /\ at = "here" /\ edit = "reply" /\ near.m.kind = Call /\ at' = "gone"
  /\ LET vs == <<Text(TStr, <<101>>)>>
         m == Message(Return, OwnSerial, <<>>, near.m.sender, near.m.serial, <<>>, SignatureOf(vs), 0,
                      Encode(vs, FALSE))
     IN wire' = EncodeMessage(m, Fields(m), FALSE)
  /\ UNCHANGED <<big, args, declared, edit, near, far>>

Arrive ==
  /\ at = "gone"
  /\ far' = Parse(wire)
  /\ at' = IF far'.ok THEN "arrived" ELSE "lost"
  /\ UNCHANGED <<big, args, declared, edit, wire, near>>

Next == Send \/ Receive \/ Forward \/ Reply \/ Arrive

Spec == Init /\ [][Next]_vars

-----------------------------------------------------------------------------
\* How deep a value and its signatures go.
RECURSIVE Nesting(_)
Nesting(v) ==
  IF v.parts = <<>> THEN Len(v.elem)
  ELSE 1 + Max({Nesting(v.parts[i]) : i \in DOMAIN v.parts})

\* A message means to its receiver what it meant to its sender, but for what psbox changed: whatever
\* the byte order it came in and whether its body was forwarded as bytes or encoded again.  An honest
\* message is refused only for its depth; what psbox accepts, honest or not, the receiver can parse,
\* with psbox's serial, without the sender's name, and with the path, name and descriptors it had; a
\* reply reaches the sender of the call under the serial the call had there (message.rs parse, encode).
MeaningKept ==
  /\ at # "lost"
  /\ at = "refused" => declared # SignatureOf(args) \/ \E i \in DOMAIN args : Nesting(args[i]) > MaxDepth
  /\ at \in {"here", "gone", "arrived"} =>
       /\ declared = SignatureOf(args) => near.args = args
       /\ near.m.serial = 66052 /\ near.m.sender = <<58, 49>> /\ near.m.fds = 1
  /\ at = "arrived" /\ edit # "reply" =>
       /\ far.args = Edited(near.args)
       /\ far.m = [near.m EXCEPT !.serial = OwnSerial, !.sender = <<>>, !.sig = SignatureOf(far.args),
                                 !.body = Encode(far.args, FALSE)]
  /\ at = "arrived" /\ edit = "reply" =>
       far.m.kind = Return /\ far.m.reply = near.m.serial /\ far.m.name = near.m.sender /\ Len(far.args) = 1
=============================================================================
