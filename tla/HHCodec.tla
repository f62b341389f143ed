------------------------------- MODULE HHCodec -------------------------------
(***************************************************************************)
(* The hinted-handoff frame codec of store.go: marshalWrite and            *)
(* unmarshalWrite.  A frame is the shard id as 8 big-endian bytes followed *)
(* by each point's line-protocol text and a newline.  Bytes are naturals   *)
(* in 0..255; a point is its text p.String(), a non-empty byte sequence    *)
(* without a newline, so parsing is splitting the body on newlines.        *)
(***************************************************************************)
EXTENDS Naturals, Sequences, SequencesExt

NL == 10   \* '\n'

\* binary.BigEndian.PutUint64 written into k bytes: most significant first.
RECURSIVE PutUint64(_, _)
PutUint64(v, k) ==
    IF k = 0 THEN <<>> ELSE PutUint64(v \div 256, k - 1) \o <<v % 256>>

\* binary.BigEndian.Uint64 of an 8-byte slice: most significant first.
RECURSIVE Uint64(_)
Uint64(b) ==
    IF b = <<>> THEN 0 ELSE Uint64(Front(b)) * 256 + Last(b)

\* One left-to-right pass of models.ParsePoints: line holds the bytes of
\* the point being read, and each newline ends it; empty lines are skipped.
RECURSIVE ParseLines(_, _)
ParseLines(b, line) ==
    CASE b = <<>> /\ line = <<>> -> <<>>
      [] b = <<>>                 -> <<line>>
      [] Head(b) = NL /\ line = <<>> -> ParseLines(Tail(b), <<>>)
      [] Head(b) = NL             -> <<line>> \o ParseLines(Tail(b), <<>>)
      [] OTHER                    -> ParseLines(Tail(b), Append(line, Head(b)))

\* models.ParsePoints: one point per non-empty newline-terminated line;
\* a trailing line without a newline is still a point.
ParsePoints(b) == ParseLines(b, <<>>)

marshalWrite(shardID, points) ==
    PutUint64(shardID, 8)
        \o FlattenSeq([i \in DOMAIN points |-> points[i] \o <<NL>>])

\* Mutant: the body read from the last header byte on (b[7:]).
unmarshalWriteBodyFrom8(b) ==
    IF Len(b) < 8 THEN [ok |-> FALSE]
    ELSE [ok |-> TRUE, shard |-> Uint64(SubSeq(b, 1, 8)),
          points |-> ParsePoints(SubSeq(b, 8, Len(b)))]

\* The error case carries no shard or points: the caller discards them.
unmarshalWrite(b) ==
    IF Len(b) < 8 THEN [ok |-> FALSE]
    ELSE [ok |-> TRUE, shard |-> Uint64(SubSeq(b, 1, 8)),
          points |-> ParsePoints(SubSeq(b, 9, Len(b)))]

=============================================================================
