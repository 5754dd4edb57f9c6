------------------------ MODULE ReliableConnectionState ------------------------
(***************************************************************************)
(* The arithmetic of crates/protocol/src/protocol.rs: 16-bit sequence      *)
(* numbers that wrap, the acknowledgement test a sender applies to its     *)
(* unacknowledged packets, and the receive window a receiver keeps.        *)
(*                                                                         *)
(* A sequence number is a number below SeqSpace (2^16 in the code).  The   *)
(* 32-bit received_sequence_bitfield is the set of its one-bits' positions. *)
(* Everything here is a function of its arguments; ReliableChannel and     *)
(* SecureSession keep the state.                                           *)
(*                                                                         *)
(* A definition Name_Variant is Name with a mistake in it: it shows that   *)
(* the properties notice the mistake, and no specification uses it.        *)
(***************************************************************************)
EXTENDS Integers

CONSTANTS
  HALF_RANGE,     \* half the sequence space: 0x8000 in the code
  BITFIELD_BITS   \* width of received_sequence_bitfield: 32 in the code

ASSUME RangeAssumption ==
  /\ HALF_RANGE \in Nat \ {0}
  /\ BITFIELD_BITS \in Nat \ {0}
  /\ BITFIELD_BITS < HALF_RANGE

SeqSpace == 2 * HALF_RANGE
SequenceNumbers == 0 .. SeqSpace - 1
Bitfields == SUBSET (0 .. BITFIELD_BITS - 1)

-------------------------------------------------------------------------------
(* u16 arithmetic. *)

WrappingSub(a, b) == (a - b) % SeqSpace

WrappingAdd_NoWrap(a, b) == a + b

WrappingAdd(a, b) == (a + b) % SeqSpace

IsSequenceMoreRecent_NoWrap(s1, s2) == s1 > s2

IsSequenceMoreRecent_OrEqual(s1, s2) ==
  \/ s1 >= s2 /\ s1 - s2 < HALF_RANGE
  \/ s2 > s1 /\ WrappingSub(s2, s1) > HALF_RANGE

IsSequenceMoreRecent(s1, s2) ==
  \/ s1 > s2 /\ s1 - s2 < HALF_RANGE
  \/ s2 > s1 /\ WrappingSub(s2, s1) > HALF_RANGE

-------------------------------------------------------------------------------
(* Acknowledgements.  A header acknowledges a packet that carries its ack   *)
(* number, or one at most BITFIELD_BITS behind it whose bit is set; the bit *)
(* looked at is diff - 1.                                                   *)

IsAcked_Cumulative(sequence, header) ==
  \/ sequence = header.ack
  \/ IsSequenceMoreRecent(header.ack, sequence)

IsAcked(sequence, header) ==
  \/ sequence = header.ack
  \/ /\ IsSequenceMoreRecent(header.ack, sequence)
     /\ WrappingSub(header.ack, sequence) \in 1 .. BITFIELD_BITS
     /\ WrappingSub(header.ack, sequence) - 1 \in header.ack_bitfield

-------------------------------------------------------------------------------
(* The receive window: the highest sequence number seen and the bit field   *)
(* below it, where bit d stands for highest - d.                            *)

\* field << n, truncated to BITFIELD_BITS bits, for n < BITFIELD_BITS.
ShiftLeft(field, n) == {b \in 0 .. BITFIELD_BITS - 1 : b - n \in field}

\* The bit a release build addresses when it shifts by n: shift counts are
\* taken modulo the width.  (A build with overflow checks panics on n >= width,
\* see ShiftOverflows.)
ShiftCount(n) == n % BITFIELD_BITS

AdvanceField_NoMark(field, diff) ==
  IF diff < BITFIELD_BITS THEN ShiftLeft(field, diff) ELSE {}

AdvanceField_NoReset(field, diff) ==
  IF diff < BITFIELD_BITS THEN ShiftLeft(field, diff) \cup {0} ELSE field \cup {0}

\* The window after a packet more recent than everything seen.
AdvanceField(field, diff) ==
  IF diff < BITFIELD_BITS THEN ShiftLeft(field, diff) \cup {0} ELSE {0}

IsDuplicateOrTooOld_BitBelow(highest, field, sequence) ==
  LET diff == WrappingSub(highest, sequence)
  IN  \/ diff = 0
      \/ diff > BITFIELD_BITS
      \/ ShiftCount(diff - 1) \in field

\* A packet that is not more recent, and is the highest one again, behind the
\* window, or already marked in it.
IsDuplicateOrTooOld(highest, field, sequence) ==
  LET diff == WrappingSub(highest, sequence)
  IN  \/ diff = 0
      \/ diff > BITFIELD_BITS
      \/ ShiftCount(diff) \in field

\* The test `diff > 32` lets diff = 32 through to the shift by diff.
ShiftOverflows(highest, sequence) ==
  /\ ~IsSequenceMoreRecent(sequence, highest)
  /\ WrappingSub(highest, sequence) = BITFIELD_BITS

===============================================================================
