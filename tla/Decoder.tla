------------------------------- MODULE Decoder -------------------------------
(***************************************************************************)
(* protobuf_decoder.decode and the varint encoders of the client: a        *)
(* message without a schema is walked once, then every field of wire type  *)
(* 2 is taken for a message, a text or bytes, for all its occurrences at   *)
(* once.  Occurrences of a repeated message share a state, as they share a *)
(* type definition in blackboxprotobuf; a change of type between them is   *)
(* left to that library.                                                   *)
(*                                                                         *)
(* The widths are constants: a byte is below 2 * Radix, its upper half is  *)
(* the continuation bit, an integer has up to MaxGroups groups.  Bytes     *)
(* with the upper half set are no text (no multi-byte characters).         *)
(***************************************************************************)
EXTENDS Varints

CONSTANTS
  MaxGroups,   \* 10
  MaxUint,     \* 2^64 - 1
  Fixed32,     \* 4 bytes
  Fixed64,     \* 8 bytes
  MaxDepth     \* 64

ASSUME DecoderAssumption ==
  /\ {MaxGroups, MaxUint, Fixed32, Fixed64, MaxDepth} \subseteq Nat
  /\ Fixed32 # Fixed64

\* The other wire types, and what a LEN field turned out to be.
FIXED64 == 1
FIXED32 == 5
MESSAGE == 10
TEXT == 11
BYTES == 12
Untyped == -1

\* Results: a value and where reading goes on, or an error.  A WireError says
\* that these bytes are no message, an AmbiguousError that only the library
\* knows.
WireError == [st |-> "wire"]
Ambiguous == [st |-> "ambiguous"]
Ok(r) == r.st = "ok"
-----------------------------------------------------------------------------
\* Mutant: any encoding of a value will do.
Canonical_Any(groups) == TRUE

\* A varint of several bytes may not end in a zero.
Canonical(groups) == Len(groups) = 1 \/ Last(groups) # 0

\* The strict reader: minimal and within the width.
Uvarint(groups, next) ==
  IF groups = <<>> \/ ~Canonical(groups) \/ ValueOf(groups) > MaxUint THEN WireError
  ELSE [st |-> "ok", v |-> ValueOf(groups), next |-> next]

\* The groups that begin at pos, none if they do not end in time.
ReadUvarint(buf, pos) ==
  LET stop == Min({i \in pos..Min({Len(buf), pos + MaxGroups - 1}) : buf[i] < Radix} \cup {Len(buf) + 1})
  IN  IF stop > Len(buf) THEN WireError ELSE Uvarint(SubSeq(buf, pos, stop), stop + 1)

Negative(v) == 2 * v > MaxUint
Signed(v) == IF Negative(v) THEN v - (MaxUint + 1) ELSE v

ReadFixed(buf, pos, size) ==
  IF pos + size - 1 > Len(buf) THEN WireError
  ELSE [st |-> "ok", next |-> pos + size,
        v |-> FoldRight(LAMBDA b, v : b + (2 * Radix * v), SubSeq(buf, pos, pos + size - 1), 0)]

Span(buf, length) ==
  IF ~Ok(length) THEN WireError
  ELSE IF Negative(length.v) \/ length.next + length.v - 1 > Len(buf) THEN WireError
  ELSE [st |-> "ok", next |-> length.next + length.v,
        v |-> SubSeq(buf, length.next, length.next + length.v - 1)]

SignedVarint(r) == IF Ok(r) THEN [r EXCEPT !.v = Signed(@)] ELSE r

ReadValue(buf, pos, wire) ==
  CASE wire = VARINT  -> SignedVarint(ReadUvarint(buf, pos))
    [] wire = FIXED32 -> ReadFixed(buf, pos, Fixed32)
    [] wire = FIXED64 -> ReadFixed(buf, pos, Fixed64)
    [] wire = LEN     -> Span(buf, ReadUvarint(buf, pos))
    [] OTHER          -> WireError

\* A field: its tag and its value.
Tagged(buf, tag) ==
  IF ~Ok(tag) THEN WireError
  ELSE [key |-> tag.v \div 8, type |-> tag.v % 8] @@ ReadValue(buf, tag.next, tag.v % 8)
ReadField(buf, pos) == Tagged(buf, ReadUvarint(buf, pos))
-----------------------------------------------------------------------------
\* Pass 1: the fields in the order of their first appearance, each with its wire
\* type and the values of all its occurrences.
Conflict(fields, f) == \E i \in DOMAIN fields : fields[i].key = f.key /\ fields[i].type # f.type

Added(fields, f) ==
  LET at == SelectInSeq(fields, LAMBDA g : g.key = f.key)
  IN  IF at = 0 THEN Append(fields, [key |-> f.key, type |-> f.type, vals |-> <<f.v>>])
      ELSE [fields EXCEPT ![at].vals = Append(@, f.v)]

RECURSIVE Walk(_, _, _), WalkOn(_, _, _)
WalkOn(buf, f, fields) ==
  IF ~Ok(f) \/ Conflict(fields, f) THEN WireError ELSE Walk(buf, f.next, Added(fields, f))

Walk(buf, pos, fields) ==
  IF pos > Len(buf) THEN [st |-> "ok", fields |-> fields]
  ELSE WalkOn(buf, ReadField(buf, pos), fields)

\* The state of a message: none, or what the occurrences so far have had in each
\* field: its type, whether it was repeated, and the state of its messages.
None == [shared |-> FALSE, of |-> <<>>]
Fresh == [shared |-> TRUE, of |-> <<>>]
Seen(state, key) ==
  IF key \in DOMAIN state.of THEN state.of[key]
  ELSE [type |-> Untyped, repeated |-> FALSE, child |-> None]
Update(state, key, fs) ==
  [state EXCEPT !.of = [k \in DOMAIN state.of \cup {key} |->
                          IF k = key THEN fs ELSE state.of[k]]]

IsText(bytes) == \A i \in DOMAIN bytes : bytes[i] < Radix

\* The state the messages of a field are decoded with: that of the occurrences
\* before, a new one if there are several here, or none.
ChildState(shared, fs, n) ==
  IF shared THEN (IF fs.child.shared THEN fs.child ELSE Fresh)
  ELSE IF n > 1 THEN Fresh ELSE None

Listed(repeated, n) == n > 1 \/ repeated

Retyped(fs, type) == fs.type \notin {Untyped, type}

\* A field becomes repeated when several were seen at once, unless they were
\* text or bytes.
Marked(fs, type, n) == fs.repeated \/ (n > 1 /\ type \notin {TEXT, BYTES})

RECURSIVE DecodeMessage(_, _, _, _)

\* What a message, or an attempt to read one, adds to its group.  The messages
\* before the one that fails have changed the state by then.
AfterSpan(acc, m) ==
  CASE m.st = "ambiguous" -> Ambiguous
    [] m.st = "wire"      -> [acc EXCEPT !.st = "wire"]
    [] m.st = "ok"        -> [st |-> "ok", vals |-> Append(acc.vals, m.out), child |-> m.state]

\* With keeps = FALSE (the reference) a failure leaves the state as it was before.
Resolved(all, spans, before, keeps) ==
  CASE all.st = "ambiguous" -> Ambiguous
    [] Ok(all) -> [st |-> "ok", type |-> MESSAGE, vals |-> all.vals, child |-> all.child]
    [] OTHER   -> [st |-> "ok", vals |-> spans, child |-> IF keeps THEN all.child ELSE before,
                   type |-> IF \A i \in DOMAIN spans : IsText(spans[i]) THEN TEXT ELSE BYTES]

\* _decode_len_group.
DecodeLenGroup(spans, before, depth, keeps) ==
  LET Try(acc, span) ==
        IF ~Ok(acc) THEN acc ELSE AfterSpan(acc, DecodeMessage(span, acc.child, depth + 1, keeps))
  IN  Resolved(FoldLeft(Try, [st |-> "ok", vals |-> <<>>, child |-> before], spans),
               spans, before, keeps)

\* The message so far with one field more, which was decoded as a group and
\* whose state was fs.
WithField(acc, field, fs, group, shared) ==
  LET n == Len(field.vals)
      repeated == IF shared THEN Marked(fs, group.type, n) ELSE fs.repeated
  IN IF ~Ok(group) \/ (shared /\ Retyped(fs, group.type)) THEN Ambiguous
     ELSE [st |-> "ok",
           state |-> IF ~shared THEN acc.state
                     ELSE Update(acc.state, field.key,
                            [type |-> group.type, repeated |-> repeated, child |-> group.child]),
           out |-> Append(acc.out, [key |-> field.key, type |-> group.type, vals |-> group.vals,
                                    list |-> Listed(repeated, n)])]

\* One field of pass 2, after the fields before it.
DecodeField(acc, field, shared, depth, keeps) ==
  IF ~Ok(acc) THEN acc
  ELSE LET fs == Seen(acc.state, field.key)
       IN  WithField(acc, field, fs,
             IF field.type = LEN
               THEN DecodeLenGroup(field.vals, ChildState(shared, fs, Len(field.vals)), depth, keeps)
               ELSE [st |-> "ok", type |-> field.type, vals |-> field.vals, child |-> fs.child],
             shared)

DecodeFields(walk, state, depth, keeps) ==
  IF ~Ok(walk) THEN WireError
  ELSE FoldLeft(LAMBDA acc, f : DecodeField(acc, f, state.shared, depth, keeps),
                [st |-> "ok", state |-> state, out |-> <<>>], walk.fields)

DecodeMessage(buf, state, depth, keeps) ==
  IF depth > MaxDepth THEN Ambiguous ELSE DecodeFields(Walk(buf, 1, <<>>), state, depth, keeps)

Decode(payload) == DecodeMessage(payload, None, 0, TRUE)
-----------------------------------------------------------------------------
\* What the decoded message says, written with the encoders of the client.
RECURSIVE Encode(_)
Encode(out) ==
  FlattenSeq([i \in DOMAIN out |->
    LET f == out[i]
        One(v) == CASE f.type = VARINT  -> EncodeVarintField(f.key, v % (MaxUint + 1))
                    [] f.type = MESSAGE -> EncodeBytesField(f.key, Encode(v))
                    [] f.type \in {TEXT, BYTES} -> EncodeBytesField(f.key, v)
                    [] f.type = FIXED32 -> EncodeVarint(f.key * 8 + FIXED32) \o <<v>>
                    [] f.type = FIXED64 -> EncodeVarint(f.key * 8 + FIXED64)
                                             \o <<v % (2 * Radix), v \div (2 * Radix)>>
    IN  FlattenSeq([j \in DOMAIN f.vals |-> One(f.vals[j])])])

\* Nothing is lost and nothing is read in two ways: what was decoded, written
\* again, has the bytes of the payload, up to the order of the fields.
LosesNothing(payload) ==
  \A d \in {Decode(payload)} :
    Ok(d) => SortSeq(Encode(d.out), <) = SortSeq(payload, <)

\* A sub-field that is a list in one occurrence of a message is a list, of the
\* same type, in every later one; lists of texts are the exception.
RECURSIVE Agree(_)
Agree(out) ==
  \A f \in Range(out) : f.type = MESSAGE =>
    /\ \A v \in Range(f.vals) : Agree(v)
    /\ \A i, j \in DOMAIN f.vals : i < j =>
         \A a \in Range(f.vals[i]), b \in Range(f.vals[j]) :
           a.key = b.key => /\ a.type = b.type
                            /\ a.list /\ a.type \notin {TEXT, BYTES} => b.list

OccurrencesAgree(payload) == \A d \in {Decode(payload)} : Ok(d) => Agree(d.out)

\* The attempt to read texts as messages leaves traces in the state; they never
\* show in what is decoded.
NoTraces(payload) ==
  \A d \in {Decode(payload)}, r \in {DecodeMessage(payload, None, 0, FALSE)} :
    Ok(d) => Ok(r) /\ r.out = d.out
=============================================================================
