------------------------------ MODULE Capture -------------------------------
(***************************************************************************)
(* tools/decode_ws_pcap.py: from the packets of a capture to the WebSocket *)
(* frames of a flow.  A packet is a record of its flow, its sequence       *)
(* number and its bytes; that it is TCP to or from port 9002 is given by   *)
(* the flow.                                                               *)
(***************************************************************************)
EXTENDS Integers, SequencesExt, FiniteSetsExt, Bitwise

GET == <<71, 69, 84>>
HTTP == <<72, 84, 84, 80>>
BlankLine == <<13, 10, 13, 10>>

\* The packets that are looked at: those of the flow that carry something.
Kept(packets, flow) == SelectSeq(packets, LAMBDA p : p.flow = flow /\ p.bytes # <<>>)

\* reassemble_streams: of the packets of one number the last, in their order.
Reassembled(packets, flow) ==
  LET kept == Kept(packets, flow)
      seqs == SetToSortSeq({p.seq : p \in Range(kept)}, LAMBDA a, b : a < b)
      LastOf(seq) == kept[Max({i \in DOMAIN kept : kept[i].seq = seq})].bytes
  IN  FlattenSeq([i \in DOMAIN seqs |-> LastOf(seqs[i])])

\* Where the first frame begins: after the request, if the stream has it.  (Three
\* bytes are compared, so an answer is not passed over.)
Preamble(buf) ==
  LET ends == {i \in 1 .. Len(buf) - 3 : SubSeq(buf, i, i + 3) = BlankLine}
  IN  IF SubSeq(buf, 1, 3) \in {GET, HTTP} /\ ends # {} THEN Min(ends) + 4 ELSE 1

BigEndian(bytes) == FoldLeft(LAMBDA n, b : 256 * n + b, 0, bytes)

\* The lengths of the length and of the mask that follow the first two bytes.
LengthBytes(b1) == CASE b1 % 128 = 126 -> 2 [] b1 % 128 = 127 -> 8 [] OTHER -> 0
MaskBytes(b1) == IF b1 >= 128 THEN 4 ELSE 0

\* iter_ws_frames; a frame that is not whole ends it.
RECURSIVE FramesFrom(_, _)
FramesFrom(buf, i) ==
  IF i + 1 > Len(buf) THEN <<>>
  ELSE LET b1 == buf[i + 1]
           mask == i + 2 + LengthBytes(b1)
           data == mask + MaskBytes(b1)
           length == IF LengthBytes(b1) = 0 THEN b1 % 128 ELSE BigEndian(SubSeq(buf, i + 2, mask - 1))
           Byte(k) == IF b1 >= 128 THEN buf[data + k - 1] ^^ buf[mask + ((k - 1) % 4)] ELSE buf[data + k - 1]
       IN  IF data - 1 > Len(buf) \/ data + length - 1 > Len(buf) THEN <<>>
           ELSE <<[opcode |-> buf[i] % 16, payload |-> [k \in 1 .. length |-> Byte(k)]]>>
                  \o FramesFrom(buf, data + length)

IterWsFrames(buf) == FramesFrom(buf, Preamble(buf))

\* A peer of the connection: a frame in one of the forms of its length, masked or
\* not (RFC 6455).
WsFrame(opcode, payload, form, mask) ==
  LET n == Len(payload)
      m == IF mask = <<>> THEN 0 ELSE 128
      Digits(k) == [i \in 1 .. k |-> (n \div 256^(k - i)) % 256]
  IN  <<128 + opcode>>
        \o (CASE form = 7 -> <<m + n>> [] form = 16 -> <<m + 126>> \o Digits(2)
              [] form = 64 -> <<m + 127, 0, 0, 0, 0>> \o Digits(4))
        \o mask
        \o [k \in 1 .. n |-> IF mask = <<>> THEN payload[k] ELSE payload[k] ^^ mask[((k - 1) % 4) + 1]]

\* A stream in pieces that end at the given places; the numbers do not wrap.
Pieces(stream, ends, flow) ==
  [i \in DOMAIN ends |->
    LET from == IF i = 1 THEN 1 ELSE ends[i - 1] + 1
    IN  [flow |-> flow, seq |-> from, bytes |-> SubSeq(stream, from, ends[i])]]

\* Whatever order the pieces of a stream were captured in, acknowledged, sent
\* again, and mixed with another flow, the frames that were sent are shown; of a
\* stream whose end was not captured, those that are whole.
CaptureShows(sent, ends, order) ==
  LET stream == FlattenSeq([i \in DOMAIN sent |-> sent[i].bytes])
      pieces == Pieces(stream, ends, "out")
      noise == <<[flow |-> "out", seq |-> ends[1] + 1, bytes |-> <<>>],
                 [flow |-> "in", seq |-> 1, bytes |-> <<129, 1, 65>>]>>
      packets == [i \in DOMAIN order |-> pieces[order[i]]] \o noise
      shown == IterWsFrames(Reassembled(packets, "out"))
      frames == SelectSeq(sent, LAMBDA f : f.opcode # -1)
      whole == {k \in 0 .. Len(frames) :
                  Len(FlattenSeq([i \in 1 .. Len(sent) - (Len(frames) - k) |-> sent[i].bytes])) <= Last(ends)}
  IN  shown = [i \in 1 .. Max(whole \cup {0}) |-> [opcode |-> frames[i].opcode, payload |-> frames[i].payload]]
=============================================================================
