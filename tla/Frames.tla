------------------------------- MODULE Frames -------------------------------
(***************************************************************************)
(* protocol.py: the frames that carry every command and broadcast, and the *)
(* topics of NarwalClient.  Bytes are numbers, texts their ASCII codes; a  *)
(* byte above 127 stands for what is no UTF-8.                             *)
(***************************************************************************)
EXTENDS Integers, SequencesExt, FiniteSetsExt

FRAME_TYPE_BYTE == 1
PROTOBUF_FIELD_TAG == 34
PROTOBUF_FIELD5_TAG == 42
Slash == 47

Refused == [st |-> "refused"]
Accepted(m) == m.st = "ok"

\* The ValueError of an empty or too long topic.
BuildFrame(topic, payload) ==
  IF Len(topic) \notin 1 .. 255 THEN Refused
  ELSE [st |-> "ok",
        data |-> <<FRAME_TYPE_BYTE, (Len(topic) + 2) % 256, PROTOBUF_FIELD_TAG, Len(topic)>>
                   \o topic \o payload]

\* Mutant: a frame that ends within its topic is taken for a shorter topic.
WholeTopic_Unchecked(data) == TRUE

\* The frame holds all of the topic it announces.
WholeTopic(data) == Len(data) >= 4 + data[4]

ParseFrame(data) ==
  LET end == Min({4 + data[4], Len(data)})
      topic == SubSeq(data, 5, end)
  IN IF /\ Len(data) >= 4
        /\ data[1] = FRAME_TYPE_BYTE
        /\ data[3] \in {PROTOBUF_FIELD_TAG, PROTOBUF_FIELD5_TAG}
        /\ WholeTopic(data)
        /\ \A i \in DOMAIN topic : topic[i] < 128
       THEN [st |-> "ok", topic |-> topic, payload |-> SubSeq(data, end + 1, Len(data)),
             header |-> data[2], tag |-> data[3]]
       ELSE Refused

\* What follows the third slash, the topic itself when there is none.
ShortTopic(topic) ==
  LET slashes == {i \in DOMAIN topic : topic[i] = Slash}
  IN IF Cardinality(slashes) < 3 THEN topic
     ELSE LET third == CHOOSE i \in slashes : Cardinality({j \in slashes : j < i}) = 2
          IN  SubSeq(topic, third + 1, Len(topic))

FullTopic(prefix, id, short) == prefix \o <<Slash>> \o id \o <<Slash>> \o short

\* However much of a frame arrives, it is refused or it is read as the topic and
\* the beginning of the payload that were sent; all of it, as all of them.  A
\* topic is refused only because it does not fit its length byte.
FrameSurvives(prefix, id, short, payload) ==
  LET topic == FullTopic(prefix, id, short)
      frame == BuildFrame(topic, payload)
  IN IF ~Accepted(frame) THEN Len(topic) > 255
     ELSE \A n \in 0 .. Len(frame.data) :
            LET m == ParseFrame(SubSeq(frame.data, 1, n))
            IN /\ Accepted(m) => /\ m.tag = PROTOBUF_FIELD_TAG
                                 /\ ShortTopic(m.topic) = short
                                 /\ IsPrefix(m.payload, payload)
               /\ n = Len(frame.data) => Accepted(m) /\ m.payload = payload
=============================================================================
