------------------------- MODULE PacketHeaderProofs -------------------------
(***************************************************************************)
(* What the wire does to a header, for every size of a byte.               *)
(***************************************************************************)
EXTENDS PacketHeader, TLAPS

(* Division with remainder.                                                *)
LEMMA DivMod ==
  ASSUME NEW m \in Nat \ {0}, NEW x \in Int
  PROVE  /\ x \div m \in Int /\ x % m \in 0..(m - 1)
         /\ x = (x \div m) * m + (x % m)
  BY SMT

(* A remainder is the only number of its range that differs from x by a    *)
(* multiple of m.                                                          *)
LEMMA Remainder ==
  ASSUME NEW m \in Nat \ {0}, NEW x \in Int, NEW q \in Int, NEW r \in 0..(m - 1),
         x = q * m + r
  PROVE  x % m = r
  BY SMT

(* A number that is in the range already is its own remainder.             *)
LEMMA Small ==
  ASSUME NEW m \in Nat \ {0}, NEW x \in 0..(m - 1)
  PROVE  x % m = x
  BY SMT

(* A multiple of an even number is even.                                   *)
LEMMA Even ==
  ASSUME NEW a \in Int, NEW b \in Int, b % 2 = 0
  PROVE  (a * b) % 2 = 0
  <1> DEFINE c == b \div 2
  <1>1. c \in Int /\ b = c * 2
    BY DivMod, SMT
  <1> HIDE DEF c
  <1>2. a * b = (a * c) * 2 + 0
    BY <1>1, SMT
  <1>. QED  BY <1>1, <1>2, Remainder, SMT

(* One more byte below a number of m values gives one of m * B.            *)
LEMMA Shift ==
  ASSUME NEW m \in Nat \ {0}, NEW x \in Int
  PROVE  /\ m * B \in Nat \ {0}
         /\ ((x \div B) % m) * B + (x % B) = x % (m * B)
  <1> DEFINE y == x \div B  r == x % B  q == y \div m  s == y % m
  <1>1. y \in Int /\ r \in 0..(B - 1) /\ x = y * B + r
    BY DivMod, ByteAssumption
  <1>2. q \in Int /\ s \in 0..(m - 1) /\ y = q * m + s
    BY <1>1, DivMod
  <1> HIDE DEF y, r, q, s
  <1>3. m * B \in Nat \ {0}
    BY ByteAssumption, SMT
  <1>4. x = q * (m * B) + (s * B + r)
    <2>1. x = (q * m + s) * B + r
      BY <1>1, <1>2
    <2>2. (q * m + s) * B = q * (m * B) + s * B
      BY <1>2, ByteAssumption, SMT
    <2>. QED  BY <2>1, <2>2, <1>1, <1>2, <1>3, ByteAssumption, SMT
  <1>5. s * B + r \in 0..(m * B - 1)
    <2>1. s * B <= (m - 1) * B /\ s * B \in Nat
      BY <1>2, ByteAssumption, SMT
    <2>2. (m - 1) * B = m * B - B
      BY ByteAssumption, SMT
    <2>. QED  BY <2>1, <2>2, <1>1, <1>3, ByteAssumption, SMT
  <1>6. x % (m * B) = s * B + r
    BY <1>3, <1>4, <1>5, <1>2, Remainder
  <1>. QED  BY <1>3, <1>6 DEF y, r, s

(* The bytes of a number put together again are its remainder.             *)
LEMMA Value2Of ==
  ASSUME NEW x \in Int
  PROVE  B2 \in Nat \ {0} /\ Value2(Byte1(x), Byte0(x)) = x % B2
  BY Shift, ByteAssumption DEF Value2, Byte1, Byte0, B2

LEMMA Value3Of ==
  ASSUME NEW x \in Int
  PROVE  B3 \in Nat \ {0} /\ Value3(Byte2(x), Byte1(x), Byte0(x)) = x % B3
  <1>1. x \div B \in Int
    BY DivMod, ByteAssumption
  <1>2. B2 \in Nat \ {0} /\ Value2(Byte2(x), Byte1(x)) = (x \div B) % B2
    BY <1>1, Value2Of DEF Byte2, Byte1
  <1>. QED  BY <1>2, Shift DEF Value3, Byte0, B3

LEMMA Value4Of ==
  ASSUME NEW x \in Int
  PROVE  B4 \in Nat \ {0} /\ Value4(Byte3(x), Byte2(x), Byte1(x), Byte0(x)) = x % B4
  <1>1. x \div B \in Int
    BY DivMod, ByteAssumption
  <1>2. B3 \in Nat \ {0} /\ Value3(Byte3(x), Byte2(x), Byte1(x)) = (x \div B) % B3
    BY <1>1, Value3Of DEF Byte3, Byte2, Byte1
  <1>. QED  BY <1>2, Shift DEF Value4, Byte0, B4

(* A signed number that fits is read back from its remainder.              *)
LEMMA SignedOf ==
  ASSUME NEW m \in Nat \ {0}, m % 2 = 0, NEW x \in Int, -m <= 2 * x, 2 * x < m
  PROVE  Signed(x % m, m) = x
  <1>1. CASE x >= 0
    <2>1. x % m = x
      BY <1>1, Small, SMT
    <2>. QED  BY <2>1 DEF Signed
  <1>2. CASE x < 0
    <2>1. x = (-1) * m + (x + m) /\ x + m \in 0..(m - 1)
      BY <1>2, SMT
    <2>2. x % m = x + m
      BY <2>1, Remainder, SMT
    <2>. QED  BY <1>2, <2>2, SMT DEF Signed
  <1>. QED  BY <1>1, <1>2, SMT

(* The type and the two counters arrive as they were; the total length     *)
(* loses what three bytes do not hold, the number of the message what four *)
(* do not hold.                                                            *)
THEOREM Wire ==
  ASSUME NEW h \in Header
  PROVE  OnTheWire(h) = [type |-> h.type, totalLen |-> h.totalLen % B3,
                         chunkSeq |-> h.chunkSeq,
                         chunkTotalCount |-> h.chunkTotalCount,
                         msgSeq |-> Signed(h.msgSeq % B4, B4)]
  <1>1. h.type \in 0..(B - 1) /\ h.totalLen \in Nat /\ h.msgSeq \in Int
        /\ h.chunkSeq \in Int /\ h.chunkTotalCount \in Int
        /\ -B2 <= 2 * h.chunkSeq /\ 2 * h.chunkSeq < B2
        /\ -B2 <= 2 * h.chunkTotalCount /\ 2 * h.chunkTotalCount < B2
    BY DEF Header
  <1>2. Byte0(h.type) = h.type
    BY <1>1, Small, ByteAssumption DEF Byte0
  <1>3. Value3(Byte2(h.totalLen), Byte1(h.totalLen), Byte0(h.totalLen)) = h.totalLen % B3
    BY <1>1, Value3Of
  <1>4. B2 \in Nat \ {0} /\ B2 % 2 = 0
    BY Value2Of, Even, ByteAssumption, SMT DEF B2
  <1>5. Signed(Value2(Byte1(h.chunkSeq), Byte0(h.chunkSeq)), B2) = h.chunkSeq
    BY <1>1, <1>4, Value2Of, SignedOf
  <1>6. Signed(Value2(Byte1(h.chunkTotalCount), Byte0(h.chunkTotalCount)), B2)
          = h.chunkTotalCount
    BY <1>1, <1>4, Value2Of, SignedOf
  <1>7. Value4(Byte3(h.msgSeq), Byte2(h.msgSeq), Byte1(h.msgSeq), Byte0(h.msgSeq))
          = h.msgSeq % B4
    BY <1>1, Value4Of
  <1>. QED
    BY <1>2, <1>3, <1>5, <1>6, <1>7 DEF OnTheWire, SetHeader, GetHeader

(* A header whose length and number fit is read back as it was written.    *)
THEOREM RoundTrip ==
  ASSUME NEW h \in Header, h.totalLen < B3, -B4 <= 2 * h.msgSeq, 2 * h.msgSeq < B4
  PROVE  OnTheWire(h) = h
  <1>1. h.totalLen \in Nat /\ h.msgSeq \in Int
    BY DEF Header
  <1>2. h.totalLen % B3 = h.totalLen
    <2>1. B3 \in Nat \ {0}
      BY <1>1, Value3Of
    <2>. QED  BY <1>1, <2>1, Small, SMT
  <1>3. B4 \in Nat \ {0} /\ B4 % 2 = 0
    <2>1. B4 \in Nat \ {0}
      BY <1>1, Value4Of
    <2>2. B3 \in Int /\ B \in Int /\ B % 2 = 0
      BY <1>1, Value3Of, ByteAssumption, SMT
    <2>3. B4 % 2 = 0
      BY <2>2, Even DEF B4
    <2>. QED  BY <2>1, <2>3
  <1>4. Signed(h.msgSeq % B4, B4) = h.msgSeq
    BY <1>1, <1>3, SignedOf
  <1>. QED  BY <1>2, <1>4, Wire DEF Header

(* A number read as signed fits.                                           *)
LEMMA SignedFits ==
  ASSUME NEW m \in Nat \ {0}, NEW x \in Int
  PROVE  -m <= 2 * Signed(x % m, m) /\ 2 * Signed(x % m, m) < m
  <1>1. x % m \in 0..(m - 1)
    BY DivMod
  <1> DEFINE r == x % m
  <1> HIDE DEF r
  <1>2. r \in Int /\ 0 <= r /\ r <= m - 1
    BY <1>1 DEF r
  <1>3. -m <= 2 * Signed(r, m) /\ 2 * Signed(r, m) < m
    BY <1>2, SMT DEF Signed
  <1>. QED  BY <1>3 DEF r

(* What is read of a length is less than three bytes can count.            *)
LEMMA LengthFits ==
  ASSUME NEW x \in Nat
  PROVE  B3 \in Nat \ {0} /\ x % B3 \in Nat /\ x % B3 < B3
  <1>1. x \in Int
    OBVIOUS
  <1>2. B3 \in Nat \ {0}
    BY <1>1, Value3Of
  <1>3. x % B3 \in 0..(B3 - 1)
    BY <1>1, <1>2, DivMod
  <1>. QED  BY <1>2, <1>3

(* No other header is: the three bytes of the length and the four of the   *)
(* number are all there is to tell headers apart.                          *)
THEOREM OnlyWhatFitsComesBack ==
  ASSUME NEW h \in Header
  PROVE  OnTheWire(h) = h <=> h.totalLen < B3 /\ -B4 <= 2 * h.msgSeq /\ 2 * h.msgSeq < B4
  <1>1. h.totalLen \in Nat /\ h.msgSeq \in Int /\ B3 \in Nat \ {0} /\ B4 \in Nat \ {0}
    BY Value3Of, Value4Of DEF Header
  <1>2. ASSUME OnTheWire(h) = h
        PROVE  h.totalLen < B3 /\ -B4 <= 2 * h.msgSeq /\ 2 * h.msgSeq < B4
    <2>1. h.totalLen % B3 = h.totalLen /\ Signed(h.msgSeq % B4, B4) = h.msgSeq
      <3>1. OnTheWire(h).totalLen = h.totalLen % B3
            /\ OnTheWire(h).msgSeq = Signed(h.msgSeq % B4, B4)
        BY Wire
      <3>. QED  BY <1>2, <3>1
    <2>2. h.totalLen % B3 < B3
      BY <1>1, LengthFits
    <2>3. h.totalLen < B3
      BY <1>1, <2>1, <2>2
    <2>4. -B4 <= 2 * Signed(h.msgSeq % B4, B4) /\ 2 * Signed(h.msgSeq % B4, B4) < B4
      BY <1>1, SignedFits
    <2>. QED  BY <2>1, <2>3, <2>4
  <1>. QED  BY <1>2, RoundTrip

(* A message that is too long for the header arrives with a smaller total *)
(* length than it has.                                                     *)
THEOREM TooLongArrivesShorter ==
  ASSUME NEW h \in Header, h.totalLen >= B3
  PROVE  OnTheWire(h).totalLen < h.totalLen
  <1>1. h.totalLen \in Nat /\ B3 \in Nat \ {0}
    BY Value3Of DEF Header
  <1>2. h.totalLen % B3 \in Nat /\ h.totalLen % B3 < B3
    BY <1>1, LengthFits
  <1>3. OnTheWire(h).totalLen = h.totalLen % B3
    BY Wire
  <1>. QED  BY <1>1, <1>2, <1>3
=============================================================================
