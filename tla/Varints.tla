------------------------------- MODULE Varints -------------------------------
(***************************************************************************)
(* Integers and byte strings as the client writes them in a message.  A    *)
(* byte is below 2 * Radix, its upper half is the continuation bit.        *)
(***************************************************************************)
EXTENDS Integers, SequencesExt, FiniteSetsExt

CONSTANT Radix   \* 128

\* The tags of the fields in use here are one byte.
ASSUME RadixAssumption == Radix \in Nat /\ Radix % 8 = 0 /\ Radix >= 32

\* Wire types of integers and of what has a length.
VARINT == 0
LEN == 2

EncodeVarint(v) ==
  LET bytes[n \in 0 .. v] ==
        IF n < Radix THEN <<n>> ELSE <<Radix + (n % Radix)>> \o bytes[n \div Radix]
  IN  bytes[v]

EncodeVarintField(n, v) == EncodeVarint(n * 8 + VARINT) \o EncodeVarint(v)
EncodeBytesField(n, data) == EncodeVarint(n * 8 + LEN) \o EncodeVarint(Len(data)) \o data

\* What the groups of a varint say: the first is the lowest.
ValueOf(groups) ==
  LET value[i \in 0 .. Len(groups)] ==   \* of the last i groups
        IF i = 0 THEN 0 ELSE (groups[Len(groups) - i + 1] % Radix) + Radix * value[i - 1]
  IN  value[Len(groups)]
=============================================================================
