---------------------------- MODULE PacketHeader ----------------------------
(***************************************************************************)
(* DataPacketHeader: the header of a packet and its twelve bytes on the    *)
(* wire, most significant byte first.  B is the number of values of a      *)
(* byte, 256 in the program.                                               *)
(***************************************************************************)
EXTENDS Integers

CONSTANT B

ASSUME ByteAssumption == B \in Nat \ {0} /\ B % 2 = 0

B2 == B * B
B3 == B2 * B
B4 == B3 * B

(* (x >> 8 * k) & 0xFF                                                     *)
Byte0(x) == x % B
Byte1(x) == Byte0(x \div B)
Byte2(x) == Byte1(x \div B)
Byte3(x) == Byte2(x \div B)

(* The value v of m possible ones, read as a signed number.                *)
Signed(v, m) == IF 2 * v < m THEN v ELSE v - m

SetHeader(h) ==
  << Byte0(h.type),
     Byte2(h.totalLen), Byte1(h.totalLen), Byte0(h.totalLen),
     Byte1(h.chunkSeq), Byte0(h.chunkSeq),
     Byte1(h.chunkTotalCount), Byte0(h.chunkTotalCount),
     Byte3(h.msgSeq), Byte2(h.msgSeq), Byte1(h.msgSeq), Byte0(h.msgSeq) >>

Value2(a, b) == a * B + b
Value3(a, b, c) == Value2(a, b) * B + c
Value4(a, b, c, d) == Value3(a, b, c) * B + d

(* Bug: the length is read in the other order.                             *)
GetHeader_Swapped(b) ==
  [ type            |-> b[1],
    totalLen        |-> Value3(b[4], b[3], b[2]),
    chunkSeq        |-> Signed(Value2(b[5], b[6]), B2),
    chunkTotalCount |-> Signed(Value2(b[7], b[8]), B2),
    msgSeq          |-> Signed(Value4(b[9], b[10], b[11], b[12]), B4) ]

(* msgSeq is assembled as an int and sign-extended to a long.              *)
GetHeader(b) ==
  [ type            |-> b[1],
    totalLen        |-> Value3(b[2], b[3], b[4]),
    chunkSeq        |-> Signed(Value2(b[5], b[6]), B2),
    chunkTotalCount |-> Signed(Value2(b[7], b[8]), B2),
    msgSeq          |-> Signed(Value4(b[9], b[10], b[11], b[12]), B4) ]

(* The types of the fields: size_t and long are wider than the wire.       *)
Header == [type : 0..(B - 1), totalLen : Nat, msgSeq : Int,
           chunkSeq : {x \in Int : -B2 <= 2 * x /\ 2 * x < B2},
           chunkTotalCount : {x \in Int : -B2 <= 2 * x /\ 2 * x < B2}]

(* What the receiver makes of a header.                                    *)
OnTheWire(h) == GetHeader(SetHeader(h))
=============================================================================
