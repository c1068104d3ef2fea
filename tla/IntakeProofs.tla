---------------------------- MODULE IntakeProofs ----------------------------
(***************************************************************************)
(* Theorems about Intake: for every width of a byte, every limit, every    *)
(* name and every message, the two ends of a transfer read what the other  *)
(* wrote, there is one encoding of every meaning, and the name and the     *)
(* paths of a file are safe.                                               *)
(*                                                                         *)
(* The first half is about the operators: what it is for a buffer to hold  *)
(* a number, a header, a message, an acknowledgement and the metadata of a *)
(* file (each in the form "the buffer is what the encoder writes exactly   *)
(* if the decoder reads these fields"), then what pd_filename_sanitize     *)
(* and pd_win32_append_component make of any bytes.  The second half is    *)
(* the inductive invariant IntakeInv and the six invariants of the run.    *)
(***************************************************************************)
EXTENDS Intake, SequenceTheorems, WellFoundedInduction, TLAPS

\* A number of two digits of any base.
LEMMA TwoDigits ==
  ASSUME NEW B \in Nat, B > 0
  PROVE  /\ \A v \in 0 .. B * B - 1 :
               v \div B \in 0 .. B - 1 /\ v % B \in 0 .. B - 1 /\ B * (v \div B) + (v % B) = v
         /\ \A h, l \in 0 .. B - 1 :
               /\ B * h + l \in 0 .. B * B - 1
               /\ (B * h + l) \div B = h /\ (B * h + l) % B = l
  <1>1. \A v \in Nat : v \div B \in Nat /\ v % B \in 0 .. B - 1 /\ B * (v \div B) + (v % B) = v
    OBVIOUS
  <1>2. ASSUME NEW h \in 0 .. B - 1, NEW l \in 0 .. B - 1
        PROVE  /\ B * h + l \in 0 .. B * B - 1
               /\ (B * h + l) \div B = h /\ (B * h + l) % B = l
    <2>1. B * h + l \in Nat
      OBVIOUS
    <2>2. B * h + l \in 0 .. B * B - 1
      <3>1. B * h <= B * (B - 1)
        OBVIOUS
      <3>2. B * (B - 1) = B * B - B
        OBVIOUS
      <3> QED BY <2>1, <3>1, <3>2
    <2> DEFINE v == B * h + l
               q == v \div B
               r == v % B
    <2>3. q \in Nat /\ r \in 0 .. B - 1 /\ B * q + r = B * h + l
      BY <1>1, <2>1
    <2> HIDE DEF q, r
    <2>4. B * (q - h) = l - r
      BY <2>3
    <2>5. ~(q - h >= 1)
      <3>1. q - h >= 1 => B * (q - h) >= B
        BY <2>3
      <3> QED BY <2>3, <2>4, <3>1
    <2>6. ~(q - h <= -1)
      <3>1. q - h <= -1 => B * (q - h) <= -B
        BY <2>3
      <3> QED BY <2>3, <2>4, <3>1
    <2>7. q = h
      BY <2>3, <2>5, <2>6
    <2> QED BY <2>2, <2>3, <2>7 DEF q, r, v
  <1>3. ASSUME NEW v \in 0 .. B * B - 1
        PROVE  v \div B \in 0 .. B - 1
    <2> DEFINE q == v \div B
    <2>1. q \in Nat /\ v % B \in 0 .. B - 1 /\ B * q + (v % B) = v /\ v < B * B
      BY <1>1
    <2> HIDE DEF q
    <2>2. q >= B => B * q >= B * B
      BY <2>1
    <2> QED BY <2>1, <2>2 DEF q
  <1> QED BY <1>1, <1>2, <1>3

\* The token at a place of a concatenation.
LEMMA Joined ==
  ASSUME NEW S, NEW x \in Seq(S), NEW y \in Seq(S)
  PROVE  /\ x \o y \in Seq(S) /\ Len(x \o y) = Len(x) + Len(y)
         /\ \A i \in 1 .. Len(x) : (x \o y)[i] = x[i]
         /\ \A i \in 1 .. Len(y) : (x \o y)[Len(x) + i] = y[i]
  <1>1. Len(x) \in Nat /\ Len(y) \in Nat
    OBVIOUS
  <1>2. /\ x \o y \in Seq(S) /\ Len(x \o y) = Len(x) + Len(y)
        /\ \A i \in 1 .. Len(x) + Len(y) : (x \o y)[i] = IF i <= Len(x) THEN x[i] ELSE y[i - Len(x)]
    BY ConcatProperties
  <1>3. \A i \in 1 .. Len(x) : i \in 1 .. Len(x) + Len(y) /\ i <= Len(x)
    BY <1>1
  <1>4. \A i \in 1 .. Len(y) : /\ Len(x) + i \in 1 .. Len(x) + Len(y)
                               /\ ~(Len(x) + i <= Len(x)) /\ Len(x) + i - Len(x) = i
    BY <1>1
  <1> HIDE <1>1
  <1> QED BY <1>2, <1>3, <1>4

U16 == 0 .. TwoBytes - 1
U32 == 0 .. FourBytes - 1

\* The widths.
LEMMA Widths ==
  /\ Base \in Nat /\ Base > 7 /\ TwoBytes \in Nat /\ TwoBytes > 0
  /\ FourBytes \in Nat /\ FourBytes > 0
  /\ 0 \in Byte /\ 0 \in U16 /\ 0 .. 7 \subseteq Byte
  <1>1. Base \in Nat /\ Base > 7
    BY LimitAssumption
  <1>2. TwoBytes \in Nat /\ TwoBytes > 0
    BY <1>1 DEF TwoBytes
  <1>3. FourBytes \in Nat /\ FourBytes > 0
    BY <1>2 DEF FourBytes
  <1> QED BY <1>1, <1>2, <1>3 DEF Byte, U16

\* A buffer has n bytes at an offset; it has these bytes there.
Bytes(b, o, n) == \A i \in 1 .. n : b[o + i] \in Byte
Holds(b, o, s) == \A i \in 1 .. Len(s) : b[o + i] = s[i]

\* It has two texts one after the other.
LEMMA HoldsBoth ==
  ASSUME NEW b, NEW o \in Nat, NEW x \in Seq(Byte), NEW y \in Seq(Byte)
  PROVE  /\ x \o y \in Seq(Byte) /\ Len(x \o y) = Len(x) + Len(y)
         /\ Holds(b, o, x \o y) <=> Holds(b, o, x) /\ Holds(b, o + Len(x), y)
  <1> DEFINE w == x \o y
             m == Len(x)
             n == Len(y)
  <1>1. /\ w \in Seq(Byte) /\ Len(w) = m + n /\ m \in Nat /\ n \in Nat
        /\ \A i \in 1 .. m : w[i] = x[i]
        /\ \A i \in 1 .. n : w[m + i] = y[i]
    BY Joined
  <1>2. Holds(b, o, w) <=> \A i \in 1 .. m + n : b[o + i] = w[i]
    <2> HIDE DEF w, m, n
    <2> QED BY <1>1 DEF Holds
  <1>3. Holds(b, o, x) <=> \A i \in 1 .. m : b[o + i] = x[i]
    BY DEF Holds
  <1>4. Holds(b, o + m, y) <=> \A i \in 1 .. n : b[(o + m) + i] = y[i]
    BY DEF Holds
  <1> HIDE DEF w, m, n
  <1>5. \A i \in 1 .. m : i \in 1 .. m + n
    BY <1>1
  <1>6. \A i \in 1 .. n : m + i \in 1 .. m + n /\ (o + m) + i = o + (m + i)
    BY <1>1
  <1>7. \A i \in 1 .. m + n : i \in 1 .. m \/ (i - m \in 1 .. n /\ m + (i - m) = i)
    BY <1>1
  <1>8. ASSUME Holds(b, o, w) PROVE Holds(b, o, x) /\ Holds(b, o + m, y)
    BY <1>1, <1>2, <1>3, <1>4, <1>5, <1>6, <1>8
  <1>9. ASSUME Holds(b, o, x), Holds(b, o + m, y) PROVE Holds(b, o, w)
    <2> SUFFICES ASSUME NEW i \in 1 .. m + n PROVE b[o + i] = w[i]
      BY <1>2
    <2>1. CASE i \in 1 .. m
      BY <1>1, <1>3, <1>9, <2>1
    <2>2. ASSUME NEW j \in 1 .. n, i = m + j PROVE b[o + i] = w[i]
      <3>1. b[(o + m) + j] = y[j]
        BY <1>4, <1>9
      <3>2. w[m + j] = y[j] /\ (o + m) + j = o + (m + j)
        BY <1>1, <1>6
      <3> QED BY <2>2, <3>1, <3>2
    <2> QED BY <1>7, <2>1, <2>2
  <1> QED BY <1>1, <1>8, <1>9 DEF w, m

\* A buffer holds v exactly if v is what is read there: two bytes ...
LEMMA Field16 ==
  ASSUME NEW b, NEW o \in Nat, Bytes(b, o, 2), NEW v \in U16
  PROVE  /\ WriteU16(v) \in Seq(Byte) /\ Len(WriteU16(v)) = 2 /\ ReadU16(b, o) \in U16
         /\ Holds(b, o, WriteU16(v)) <=> ReadU16(b, o) = v
  <1>1. 1 .. 2 = {1, 2}
    OBVIOUS
  <1>2. b[o + 1] \in Byte /\ b[o + 2] \in Byte
    BY <1>1 DEF Bytes
  <1>3. /\ v \div Base \in Byte /\ v % Base \in Byte /\ Base * (v \div Base) + (v % Base) = v
        /\ \A h, l \in Byte : /\ Base * h + l \in U16
                              /\ (Base * h + l) \div Base = h /\ (Base * h + l) % Base = l
    BY Widths, TwoDigits DEF Byte, U16, TwoBytes
  <1>4. (v \div Base) % Base = v \div Base
    <2>1. \A q \in Byte : q % Base = (Base * 0 + q) % Base
      BY Widths DEF Byte
    <2> QED BY <1>3, <2>1, Widths
  <1>5. WriteU16(v) = <<v \div Base, v % Base>>
    BY <1>4 DEF WriteU16
  <1>6. Holds(b, o, WriteU16(v)) <=> b[o + 1] = v \div Base /\ b[o + 2] = v % Base
    BY <1>1, <1>5 DEF Holds
  <1> QED BY <1>2, <1>3, <1>5, <1>6 DEF ReadU16

\* ... four ...
LEMMA Field32 ==
  ASSUME NEW b, NEW o \in Nat, Bytes(b, o, 4), NEW v \in U32
  PROVE  /\ WriteU32(v) \in Seq(Byte) /\ Len(WriteU32(v)) = 4 /\ ReadU32(b, o) \in U32
         /\ Holds(b, o, WriteU32(v)) <=> ReadU32(b, o) = v
  <1> DEFINE x == WriteU16(v \div TwoBytes)
             y == WriteU16(v % TwoBytes)
             h == ReadU16(b, o)
             l == ReadU16(b, o + 2)
  <1>1. /\ v \div TwoBytes \in U16 /\ v % TwoBytes \in U16
        /\ TwoBytes * (v \div TwoBytes) + (v % TwoBytes) = v
        /\ \A j, k \in U16 :
              /\ TwoBytes * j + k \in U32
              /\ (TwoBytes * j + k) \div TwoBytes = j /\ (TwoBytes * j + k) % TwoBytes = k
    BY Widths, TwoDigits DEF U16, U32, FourBytes
  <1>2. Bytes(b, o, 2) /\ Bytes(b, o + 2, 2) /\ o + 2 \in Nat
    <2>1. \A i \in 1 .. 2 : i \in 1 .. 4 /\ 2 + i \in 1 .. 4 /\ (o + 2) + i = o + (2 + i)
      OBVIOUS
    <2> QED BY <2>1 DEF Bytes
  <1>3. /\ x \in Seq(Byte) /\ Len(x) = 2 /\ h \in U16
        /\ Holds(b, o, x) <=> h = v \div TwoBytes
    BY <1>1, <1>2, Field16
  <1>4. /\ y \in Seq(Byte) /\ Len(y) = 2 /\ l \in U16
        /\ Holds(b, o + 2, y) <=> l = v % TwoBytes
    BY <1>1, <1>2, Field16
  <1>5. ReadU32(b, o) = TwoBytes * h + l
    BY DEF ReadU32
  <1>6. WriteU32(v) = x \o y
    BY DEF WriteU32
  <1> HIDE DEF x, y, h, l
  <1>7. x \in Seq(Byte) /\ y \in Seq(Byte)
    BY <1>3, <1>4
  <1>8. /\ WriteU32(v) \in Seq(Byte) /\ Len(WriteU32(v)) = Len(x) + Len(y)
        /\ Holds(b, o, WriteU32(v)) <=> Holds(b, o, x) /\ Holds(b, o + Len(x), y)
    BY <1>6, <1>7, HoldsBoth
  <1>9. h = v \div TwoBytes /\ l = v % TwoBytes <=> ReadU32(b, o) = v
    BY <1>1, <1>3, <1>4, <1>5
  <1> HIDE <1>6
  <1> QED BY <1>1, <1>3, <1>4, <1>5, <1>8, <1>9

\* ... and eight.
LEMMA Field64 ==
  ASSUME NEW b, NEW o \in Nat, Bytes(b, o, 8), NEW v \in U64
  PROVE  /\ WriteU64(v) \in Seq(Byte) /\ Len(WriteU64(v)) = 8 /\ ReadU64(b, o) \in U64
         /\ Holds(b, o, WriteU64(v)) <=> ReadU64(b, o) = v
  <1> DEFINE x == WriteU32(v \div FourBytes)
             y == WriteU32(v % FourBytes)
             h == ReadU32(b, o)
             l == ReadU32(b, o + 4)
  <1>1. /\ v \div FourBytes \in U32 /\ v % FourBytes \in U32
        /\ FourBytes * (v \div FourBytes) + (v % FourBytes) = v
        /\ \A j, k \in U32 :
              /\ FourBytes * j + k \in U64
              /\ (FourBytes * j + k) \div FourBytes = j /\ (FourBytes * j + k) % FourBytes = k
    BY Widths, TwoDigits DEF U32, U64
  <1>2. Bytes(b, o, 4) /\ Bytes(b, o + 4, 4) /\ o + 4 \in Nat
    <2>1. \A i \in 1 .. 4 : i \in 1 .. 8 /\ 4 + i \in 1 .. 8 /\ (o + 4) + i = o + (4 + i)
      OBVIOUS
    <2> QED BY <2>1 DEF Bytes
  <1>3. /\ x \in Seq(Byte) /\ Len(x) = 4 /\ h \in U32
        /\ Holds(b, o, x) <=> h = v \div FourBytes
    BY <1>1, <1>2, Field32
  <1>4. /\ y \in Seq(Byte) /\ Len(y) = 4 /\ l \in U32
        /\ Holds(b, o + 4, y) <=> l = v % FourBytes
    BY <1>1, <1>2, Field32
  <1>5. ReadU64(b, o) = FourBytes * h + l
    BY DEF ReadU64
  <1>6. WriteU64(v) = x \o y
    BY DEF WriteU64
  <1> HIDE DEF x, y, h, l
  <1>7. x \in Seq(Byte) /\ y \in Seq(Byte)
    BY <1>3, <1>4
  <1>8. /\ WriteU64(v) \in Seq(Byte) /\ Len(WriteU64(v)) = Len(x) + Len(y)
        /\ Holds(b, o, WriteU64(v)) <=> Holds(b, o, x) /\ Holds(b, o + Len(x), y)
    BY <1>6, <1>7, HoldsBoth
  <1>9. h = v \div FourBytes /\ l = v % FourBytes <=> ReadU64(b, o) = v
    BY <1>1, <1>3, <1>4, <1>5
  <1> HIDE <1>6
  <1> QED BY <1>1, <1>3, <1>4, <1>5, <1>8, <1>9

-----------------------------------------------------------------------------
\* Frames.

\* A buffer and a text of the same length are the same if the one holds the other.
LEMMA SameBytes ==
  ASSUME NEW m \in Seq(Byte), NEW w \in Seq(Byte)
  PROVE  m = w <=> Len(m) = Len(w) /\ Holds(m, 0, w)
  <1>1. \A i \in 1 .. Len(w) : 0 + i = i
    OBVIOUS
  <1>2. Holds(m, 0, w) <=> \A i \in 1 .. Len(w) : m[i] = w[i]
    BY <1>1 DEF Holds
  <1> QED BY <1>2, SeqEqual

\* What is cut out of a buffer.
LEMMA CutOut ==
  ASSUME NEW m \in Seq(Byte), NEW o \in Nat, NEW n \in Nat, o + n <= Len(m), NEW s \in Seq(Byte),
         Len(s) = n
  PROVE  /\ At(m, o, n) \in Seq(Byte) /\ Len(At(m, o, n)) = n
         /\ At(m, o, n) = s <=> Holds(m, o, s)
  <1> DEFINE c == SubSeq(m, o + 1, o + n)
  <1>1. \A i \in (o + 1) .. (o + n) : m[i] \in Byte
    <2>1. \A i \in (o + 1) .. (o + n) : i \in 1 .. Len(m)
      OBVIOUS
    <2> QED BY <2>1
  <1>2. /\ c \in Seq(Byte)
        /\ Len(c) = IF o + 1 <= o + n THEN (o + n) - (o + 1) + 1 ELSE 0
        /\ \A i \in 1 .. (o + n) - (o + 1) + 1 : c[i] = m[(o + 1) + i - 1]
    BY <1>1, SubSeqProperties, SMTT(30)
  <1>3. /\ (IF o + 1 <= o + n THEN (o + n) - (o + 1) + 1 ELSE 0) = n
        /\ (o + n) - (o + 1) + 1 = n /\ \A i \in 1 .. n : (o + 1) + i - 1 = o + i
    OBVIOUS
  <1> HIDE DEF c
  <1>4. c \in Seq(Byte) /\ Len(c) = n /\ \A i \in 1 .. n : c[i] = m[o + i]
    BY <1>2, <1>3
  <1>5. c = s <=> \A i \in 1 .. n : c[i] = s[i]
    BY <1>4, SeqEqual
  <1>6. c = s <=> Holds(m, o, s)
    BY <1>4, <1>5 DEF Holds
  <1> QED BY <1>4, <1>6 DEF At, c

\* The rest of a buffer.
LEMMA Rest ==
  ASSUME NEW m \in Seq(Byte), NEW o \in Nat, o <= Len(m)
  PROVE  /\ From(m, o) \in Seq(Byte) /\ Len(From(m, o)) = Len(m) - o /\ Holds(m, o, From(m, o))
         /\ \A s \in Seq(Byte) : From(m, o) = s <=> Len(m) = o + Len(s) /\ Holds(m, o, s)
  <1> DEFINE n == Len(m) - o
  <1>1. n \in Nat /\ o + n = Len(m)
    OBVIOUS
  <1>2. From(m, o) = At(m, o, n)
    BY <1>1 DEF From, At
  <1> HIDE DEF n
  <1>3. \A s \in Seq(Byte) : Len(s) = n => /\ At(m, o, n) \in Seq(Byte) /\ Len(At(m, o, n)) = n
                                           /\ At(m, o, n) = s <=> Holds(m, o, s)
    BY <1>1, CutOut
  <1>4. \E s \in Seq(Byte) : Len(s) = n
    <2> DEFINE s == [i \in 1 .. n |-> 0]
    <2>1. s \in Seq(Byte) /\ Len(s) = n
      BY <1>1, Widths
    <2> QED BY <2>1
  <1>5. From(m, o) \in Seq(Byte) /\ Len(From(m, o)) = n
    BY <1>2, <1>3, <1>4
  <1>6. \A s \in Seq(Byte) : Len(m) = o + Len(s) <=> Len(s) = n
    BY <1>1
  <1>7. \A s \in Seq(Byte) : From(m, o) = s <=> Len(m) = o + Len(s) /\ Holds(m, o, s)
    BY <1>2, <1>3, <1>5, <1>6
  <1>8. Holds(m, o, From(m, o))
    BY <1>5, <1>7
  <1> QED BY <1>5, <1>7, <1>8 DEF n

\* The header of a frame of the type t with n bytes of payload.
HeaderOf(t, n) == Magic \o <<Version, t>> \o WriteU16(0) \o WriteU32(n)

\* A buffer holds it exactly if its fields are read there.
LEMMA HeaderHolds ==
  ASSUME NEW b, Bytes(b, 0, 12), NEW t \in 1 .. 7, NEW n \in U32
  PROVE  /\ HeaderOf(t, n) \in Seq(Byte) /\ Len(HeaderOf(t, n)) = 12
         /\ Holds(b, 0, HeaderOf(t, n)) <=>
               /\ Holds(b, 0, Magic) /\ b[5] = Version /\ b[6] = t
               /\ ReadU16(b, 6) = 0 /\ ReadU32(b, 8) = n
         /\ Magic \in Seq(Byte) /\ Len(Magic) = 4 /\ b[6] \in Byte
         /\ ReadU16(b, 6) \in U16 /\ ReadU32(b, 8) \in U32
  <1> DEFINE w == <<Version, t>>
             x == WriteU16(0)
             y == WriteU32(n)
  <1>1. Magic \in Seq(Byte) /\ Len(Magic) = 4
    BY LimitAssumption
  <1>2. w \in Seq(Byte) /\ Len(w) = 2 /\ (Holds(b, 4, w) <=> b[5] = Version /\ b[6] = t)
    <2>1. Version \in Byte /\ t \in Byte
      BY Widths DEF Version
    <2>2. 1 .. 2 = {1, 2} /\ 4 + 1 = 5 /\ 4 + 2 = 6
      OBVIOUS
    <2>3. Len(w) = 2 /\ w[1] = Version /\ w[2] = t
      OBVIOUS
    <2>4. Holds(b, 4, w) <=> b[5] = Version /\ b[6] = t
      BY <2>2, <2>3 DEF Holds
    <2> QED BY <2>1, <2>3, <2>4
  <1>3. Bytes(b, 6, 2) /\ Bytes(b, 8, 4) /\ b[6] \in Byte
    <2>1. /\ \A i \in 1 .. 2 : 6 + i \in 1 .. 12 /\ 0 + (6 + i) = 6 + i
          /\ \A i \in 1 .. 4 : 8 + i \in 1 .. 12 /\ 0 + (8 + i) = 8 + i
          /\ 6 \in 1 .. 12 /\ 0 + 6 = 6
      OBVIOUS
    <2> QED BY <2>1 DEF Bytes
  <1>4. /\ x \in Seq(Byte) /\ Len(x) = 2 /\ ReadU16(b, 6) \in U16
        /\ Holds(b, 6, x) <=> ReadU16(b, 6) = 0
    BY <1>3, Widths, Field16
  <1>5. /\ y \in Seq(Byte) /\ Len(y) = 4 /\ ReadU32(b, 8) \in U32
        /\ Holds(b, 8, y) <=> ReadU32(b, 8) = n
    BY <1>3, Field32
  <1> HIDE DEF w, x, y
  <1>6. Magic \in Seq(Byte) /\ w \in Seq(Byte) /\ x \in Seq(Byte) /\ y \in Seq(Byte)
    BY <1>1, <1>2, <1>4, <1>5
  <1> DEFINE p == Magic \o w
             q == p \o x
             r == q \o y
  <1>7. /\ p \in Seq(Byte) /\ Len(p) = Len(Magic) + Len(w)
        /\ Holds(b, 0, p) <=> Holds(b, 0, Magic) /\ Holds(b, 0 + Len(Magic), w)
    BY <1>6, HoldsBoth
  <1> HIDE DEF p
  <1>8. /\ q \in Seq(Byte) /\ Len(q) = Len(p) + Len(x)
        /\ Holds(b, 0, q) <=> Holds(b, 0, p) /\ Holds(b, 0 + Len(p), x)
    BY <1>6, <1>7, HoldsBoth
  <1> HIDE DEF q
  <1>9. /\ r \in Seq(Byte) /\ Len(r) = Len(q) + Len(y)
        /\ Holds(b, 0, r) <=> Holds(b, 0, q) /\ Holds(b, 0 + Len(q), y)
    BY <1>6, <1>8, HoldsBoth
  <1> HIDE DEF r
  <1>10. Len(p) = 6 /\ Len(q) = 8 /\ Len(r) = 12
    BY <1>1, <1>2, <1>4, <1>5, <1>7, <1>8, <1>9
  <1>11. 0 + Len(Magic) = 4 /\ 0 + Len(p) = 6 /\ 0 + Len(q) = 8
    BY <1>1, <1>10
  <1>12. Holds(b, 0, r) <=> /\ Holds(b, 0, Magic) /\ Holds(b, 4, w)
                            /\ Holds(b, 6, x) /\ Holds(b, 8, y)
    BY <1>7, <1>8, <1>9, <1>11
  <1>13. HeaderOf(t, n) = r
    BY Zenon DEF HeaderOf, w, x, y, p, q, r
  <1>14. r \in Seq(Byte)
    BY <1>9
  <1> QED BY <1>1, <1>2, <1>3, <1>4, <1>5, <1>10, <1>12, <1>13, <1>14

HeaderRecord(t, n) == [type |-> t, flags |-> 0, payload_length |-> n]

\* pd_frame_decode_header reads a header exactly where pd_frame_encode_header wrote it.
LEMMA HeaderIs ==
  ASSUME NEW m \in Seq(Byte), Len(m) >= 12
  PROVE  /\ DecodeHeader(m) # None =>
               \E t \in 1 .. 7, n \in 0 .. FrameMax :
                  DecodeHeader(m) = HeaderRecord(t, n) /\ Holds(m, 0, HeaderOf(t, n))
         /\ \A t \in 1 .. 7, n \in 0 .. FrameMax :
               Holds(m, 0, HeaderOf(t, n)) => DecodeHeader(m) = HeaderRecord(t, n)
  <1>1. Bytes(m, 0, 12)
    <2>1. \A i \in 1 .. 12 : 0 + i = i /\ i \in 1 .. Len(m)
      OBVIOUS
    <2> QED BY <2>1 DEF Bytes
  <1>2. \A n \in 0 .. FrameMax : n \in U32 /\ n \in Nat
    BY LimitAssumption, Widths DEF U32
  <1>3. /\ 0 \in U32
        /\ Magic \in Seq(Byte) /\ Len(Magic) = 4 /\ m[6] \in Byte
        /\ ReadU16(m, 6) \in U16 /\ ReadU32(m, 8) \in U32
    <2>1. 0 \in U32 /\ 1 \in 1 .. 7
      BY Widths DEF U32
    <2> QED BY <1>1, <2>1, HeaderHolds
  <1>4. At(m, 0, 4) = Magic <=> Holds(m, 0, Magic)
    <2>1. \A o, n \in Nat : o + n <= Len(m) /\ Len(Magic) = n =>
              (At(m, o, n) = Magic <=> Holds(m, o, Magic))
      BY <1>3, CutOut
    <2>2. 0 \in Nat /\ 4 \in Nat /\ 0 + 4 <= Len(m)
      OBVIOUS
    <2> QED BY <1>3, <2>1, <2>2
  <1>5. \A t \in 1 .. 7, n \in 0 .. FrameMax :
           Holds(m, 0, HeaderOf(t, n)) <=>
               /\ Holds(m, 0, Magic) /\ m[5] = Version /\ m[6] = t
               /\ ReadU16(m, 6) = 0 /\ ReadU32(m, 8) = n
    BY <1>1, <1>2, HeaderHolds
  <1> DEFINE good == /\ At(m, 0, 4) = Magic /\ m[5] = Version /\ m[6] \in 1 .. 7
                     /\ ReadU16(m, 6) = 0 /\ ~(ReadU32(m, 8) > FrameMax)
  <1>6. DecodeHeader(m) = IF good THEN HeaderRecord(m[6], ReadU32(m, 8)) ELSE None
    BY DEF DecodeHeader, MessageTypeValid, HeaderRecord
  <1>7. ~(ReadU32(m, 8) > FrameMax) => ReadU32(m, 8) \in 0 .. FrameMax
    BY <1>3, LimitAssumption, Widths DEF U32
  <1>8. ASSUME DecodeHeader(m) # None
        PROVE  \E t \in 1 .. 7, n \in 0 .. FrameMax :
                  DecodeHeader(m) = HeaderRecord(t, n) /\ Holds(m, 0, HeaderOf(t, n))
    <2>1. good
      BY <1>6, <1>8
    <2>2. m[6] \in 1 .. 7 /\ ReadU32(m, 8) \in 0 .. FrameMax
      BY <1>7, <2>1
    <2>3. Holds(m, 0, HeaderOf(m[6], ReadU32(m, 8)))
      BY <1>4, <1>5, <2>1, <2>2
    <2> QED BY <1>6, <2>1, <2>2, <2>3
  <1>9. ASSUME NEW t \in 1 .. 7, NEW n \in 0 .. FrameMax, Holds(m, 0, HeaderOf(t, n))
        PROVE  DecodeHeader(m) = HeaderRecord(t, n)
    <2>1. /\ Holds(m, 0, Magic) /\ m[5] = Version /\ m[6] = t
          /\ ReadU16(m, 6) = 0 /\ ReadU32(m, 8) = n
      BY <1>5, <1>9
    <2>2. ~(n > FrameMax)
      BY LimitAssumption
    <2>3. good
      BY <1>4, <2>1, <2>2
    <2> QED BY <1>6, <2>1, <2>3
  <1> QED BY <1>8, <1>9

FrameView(t, p) == [header |-> HeaderRecord(t, Len(p)), payload |-> p]

\* The greatest payload of a message.
LEMMA PayloadRoom ==
  /\ RelayMaxPayload \in Nat /\ RelayMaxPayload <= FrameMax /\ MessageMax = 12 + RelayMaxPayload
  /\ \A p \in Seq(Byte) : Len(p) <= RelayMaxPayload => Len(p) \in 0 .. FrameMax /\ Len(p) \in U32
  /\ \A t \in 1 .. 7, p \in Seq(Byte) :
        Len(p) <= RelayMaxPayload => /\ FrameView(t, p) \in View
                                     /\ FrameView(t, p) # None /\ HeaderRecord(t, Len(p)) # None
  <1>1. FilenameMax \in Nat /\ Sha256Bytes \in Nat /\ MessageMax \in Nat
    BY LimitAssumption
  <1>2. HeaderSize + FixedSize + FilenameMax >= 12
    BY <1>1 DEF HeaderSize, FixedSize
  <1>3. RelayMaxPayload \in Nat /\ MessageMax = 12 + RelayMaxPayload
    BY <1>1, <1>2, LimitAssumption DEF RelayMaxPayload, HeaderSize, FixedSize
  <1>4. \A p \in Seq(Byte) : Len(p) <= RelayMaxPayload => Len(p) \in 0 .. FrameMax /\ Len(p) \in U32
    <2>1. FourBytes \in Nat
      BY Widths
    <2> QED BY <1>3, <2>1, LimitAssumption DEF U32
  <1>5. ASSUME NEW t \in 1 .. 7, NEW p \in Seq(Byte), Len(p) <= RelayMaxPayload
        PROVE  /\ FrameView(t, p) \in View
               /\ FrameView(t, p) # None /\ HeaderRecord(t, Len(p)) # None
    <2>1. Len(p) \in 0 .. FrameMax
      BY <1>4, <1>5
    <2>2. HeaderRecord(t, Len(p)) \in Header
      BY <2>1 DEF Header, HeaderRecord
    <2> QED BY <2>2, IntakeAssumption DEF FrameView, View
  <1> QED BY <1>3, <1>4, <1>5, LimitAssumption

\* A header and a payload, one after the other.
Message(t, p) == HeaderOf(t, Len(p)) \o p

\* What it is for a buffer to be a message.
LEMMA MessageHolds ==
  ASSUME NEW m \in Seq(Byte), NEW t \in 1 .. 7, NEW p \in Seq(Byte), Len(p) <= RelayMaxPayload
  PROVE  /\ Message(t, p) \in Seq(Byte) /\ Len(Message(t, p)) = 12 + Len(p)
         /\ m = Message(t, p) <=>
               Len(m) = 12 + Len(p) /\ Holds(m, 0, HeaderOf(t, Len(p))) /\ Holds(m, 12, p)
  <1> DEFINE h == HeaderOf(t, Len(p))
             w == h \o p
  <1>1. Len(p) \in U32
    BY PayloadRoom
  <1>2. h \in Seq(Byte) /\ Len(h) = 12
    <2> DEFINE b == [i \in 1 .. 12 |-> 0]
    <2>1. Bytes(b, 0, 12)
      <3>1. \A i \in 1 .. 12 : 0 + i = i
        OBVIOUS
      <3> QED BY <3>1, Widths DEF Bytes
    <2> HIDE DEF b
    <2> QED BY <1>1, <2>1, HeaderHolds
  <1> HIDE DEF h
  <1>3. h \in Seq(Byte)
    BY <1>2
  <1>4. /\ w \in Seq(Byte) /\ Len(w) = Len(h) + Len(p)
        /\ Holds(m, 0, w) <=> Holds(m, 0, h) /\ Holds(m, 0 + Len(h), p)
    BY <1>3, HoldsBoth
  <1> HIDE DEF w
  <1>5. m = w <=> Len(m) = Len(w) /\ Holds(m, 0, w)
    BY <1>4, SameBytes
  <1>6. 0 + Len(h) = 12
    BY <1>2
  <1>7. m = w <=> Len(m) = 12 + Len(p) /\ Holds(m, 0, h) /\ Holds(m, 12, p)
    BY <1>2, <1>4, <1>5, <1>6
  <1>8. Message(t, p) = w
    BY Zenon DEF Message, w, h
  <1> QED BY <1>2, <1>4, <1>7, <1>8 DEF h

\* pd_relay_message_decode takes a buffer exactly if it is a message, and finds what was
\* put into it.
LEMMA MessageIs ==
  ASSUME NEW m \in Seq(Byte)
  PROVE  /\ RelayMessageDecode(m) # None =>
               \E t \in 1 .. 7, p \in Seq(Byte) :
                  /\ Len(p) <= RelayMaxPayload /\ m = Message(t, p)
                  /\ RelayMessageDecode(m) = FrameView(t, p)
         /\ \A t \in 1 .. 7, p \in Seq(Byte) :
               Len(p) <= RelayMaxPayload /\ m = Message(t, p) =>
                  RelayMessageDecode(m) = FrameView(t, p) /\ Len(m) <= MessageMax
  <1> DEFINE header == DecodeHeader(m)
             payload == From(m, HeaderSize)
             good == /\ ~(Len(m) < HeaderSize) /\ ~(Len(m) > MessageMax) /\ header # None
                     /\ ~(Len(payload) > RelayMaxPayload) /\ header.payload_length = Len(payload)
  <1>1. RelayMessageDecode(m) = IF good THEN [header |-> header, payload |-> payload] ELSE None
    BY DEF RelayMessageDecode
  <1>2. HeaderSize = 12 /\ Len(m) \in Nat /\ RelayMaxPayload \in Nat
        /\ MessageMax = 12 + RelayMaxPayload /\ 12 \in Nat
    BY PayloadRoom DEF HeaderSize
  <1>3. Len(m) >= 12 =>
           /\ payload \in Seq(Byte) /\ Len(payload) = Len(m) - 12 /\ Holds(m, 12, payload)
           /\ \A p \in Seq(Byte) : payload = p <=> Len(m) = 12 + Len(p) /\ Holds(m, 12, p)
    BY <1>2, Rest
  <1>4. ASSUME RelayMessageDecode(m) # None
        PROVE  \E t \in 1 .. 7, p \in Seq(Byte) :
                  /\ Len(p) <= RelayMaxPayload /\ m = Message(t, p)
                  /\ RelayMessageDecode(m) = FrameView(t, p)
    <2>1. good
      BY <1>1, <1>4
    <2>2. Len(m) >= 12
      BY <1>2, <2>1
    <2>3. payload \in Seq(Byte) /\ Len(m) = 12 + Len(payload) /\ Holds(m, 12, payload)
          /\ Len(payload) <= RelayMaxPayload
      BY <1>2, <1>3, <2>1, <2>2
    <2>4. PICK t \in 1 .. 7, n \in 0 .. FrameMax :
             header = HeaderRecord(t, n) /\ Holds(m, 0, HeaderOf(t, n))
      BY <2>1, <2>2, HeaderIs
    <2>5. n = Len(payload)
      BY <2>1, <2>4 DEF HeaderRecord
    <2> HIDE DEF payload, header
    <2>6. m = Message(t, payload)
      BY <2>3, <2>4, <2>5, MessageHolds
    <2>7. RelayMessageDecode(m) = FrameView(t, payload)
      BY <1>1, <2>1, <2>4, <2>5 DEF FrameView
    <2> QED BY <2>3, <2>6, <2>7
  <1>5. ASSUME NEW t \in 1 .. 7, NEW p \in Seq(Byte), Len(p) <= RelayMaxPayload, m = Message(t, p)
        PROVE  RelayMessageDecode(m) = FrameView(t, p) /\ Len(m) <= MessageMax
    <2>1. Len(m) = 12 + Len(p) /\ Holds(m, 0, HeaderOf(t, Len(p))) /\ Holds(m, 12, p)
      BY <1>5, MessageHolds
    <2>2. Len(m) >= 12 /\ Len(m) <= MessageMax /\ Len(p) \in 0 .. FrameMax
      BY <1>2, <1>5, <2>1, PayloadRoom
    <2>3. header = HeaderRecord(t, Len(p)) /\ header # None
      BY <1>5, <2>1, <2>2, HeaderIs, PayloadRoom
    <2>4. payload = p
      BY <1>3, <2>1, <2>2
    <2> HIDE DEF payload, header
    <2>5. header.payload_length = Len(p)
      BY <2>3 DEF HeaderRecord
    <2>6. good
      BY <1>2, <1>5, <2>2, <2>3, <2>4, <2>5
    <2> QED BY <1>1, <2>2, <2>3, <2>4, <2>6 DEF FrameView
  <1> QED BY <1>4, <1>5

\* Both encoders make messages.
LEMMA BothEncode ==
  ASSUME NEW t \in 1 .. 7, NEW p \in Seq(Byte)
  PROVE  /\ Len(p) <= RelayMaxPayload =>
               /\ PageEncodeFrame(t, p) = Message(t, p)
               /\ RelayMessageEncode(HeaderRecord(t, Len(p)), p) = Message(t, p)
         /\ PageEncodeFrame(t, p) # None => Len(p) <= RelayMaxPayload
  <1>1. RelayMaxPayload \in Nat /\ Len(p) \in Nat
    BY PayloadRoom
  <1>2. MessageTypeValid(t)
    BY DEF MessageTypeValid
  <1>3. Len(p) <= RelayMaxPayload => PageEncodeFrame(t, p) = Message(t, p)
    BY <1>1, <1>2 DEF PageEncodeFrame, Message, HeaderOf
  <1>4. PageEncodeFrame(t, p) # None => Len(p) <= RelayMaxPayload
    BY <1>1 DEF PageEncodeFrame
  <1>5. ASSUME Len(p) <= RelayMaxPayload
        PROVE  RelayMessageEncode(HeaderRecord(t, Len(p)), p) = Message(t, p)
    <2> DEFINE h == HeaderRecord(t, Len(p))
    <2>1. h.type = t /\ h.flags = 0 /\ h.payload_length = Len(p)
      BY DEF HeaderRecord
    <2> HIDE DEF h
    <2>2. Len(p) \in 0 .. FrameMax /\ Len(p) \in U32 /\ FrameMax \in Nat
      BY <1>5, PayloadRoom, LimitAssumption
    <2>3. ~(Len(p) > FrameMax)
      BY <2>2
    <2>4. EncodeHeader(h) = HeaderOf(t, Len(p))
      BY <1>2, <2>1, <2>3 DEF EncodeHeader, HeaderOf
    <2>5. HeaderOf(t, Len(p)) \in Seq(Byte)
      <3> DEFINE b == [i \in 1 .. 12 |-> 0]
      <3>1. Bytes(b, 0, 12)
        <4>1. \A i \in 1 .. 12 : 0 + i = i
          OBVIOUS
        <4> QED BY <4>1, Widths DEF Bytes
      <3> HIDE DEF b
      <3> QED BY <2>2, <3>1, HeaderHolds
    <2>6. EncodeHeader(h) # None
      BY <2>4, <2>5, IntakeAssumption
    <2>7. ~(Len(p) > RelayMaxPayload)
      BY <1>1, <1>5
    <2>8. RelayMessageEncode(h, p) = EncodeHeader(h) \o p
      BY <2>1, <2>6, <2>7 DEF RelayMessageEncode
    <2> QED BY <2>4, <2>8 DEF Message, h
  <1> QED BY <1>3, <1>4, <1>5

\* decodeFrame takes what pd_relay_message_decode takes.
LEMMA PageFrame ==
  ASSUME NEW m \in Seq(Byte)
  PROVE  /\ RelayMessageDecode(m) = None => PageDecodeFrame(m) = None
         /\ \A t \in 1 .. 7, p \in Seq(Byte) :
               Len(p) <= RelayMaxPayload /\ m = Message(t, p) =>
                  PageDecodeFrame(m) = [type |-> t, payload |-> p]
  <1>1. HeaderSize = 12 /\ Len(m) \in Nat /\ RelayMaxPayload \in Nat /\ FrameMax \in Nat
        /\ RelayMaxPayload <= FrameMax /\ MessageMax = 12 + RelayMaxPayload
    BY PayloadRoom, LimitAssumption DEF HeaderSize
  <1> DEFINE n == ReadU32(m, 8)
             payload == From(m, HeaderSize)
             good == /\ ~(Len(m) < HeaderSize) /\ ~(Len(m) > MessageMax)
                     /\ At(m, 0, 4) = Magic /\ m[5] = Version /\ m[6] \in 1 .. 7
                     /\ ReadU16(m, 6) = 0 /\ ~(n > RelayMaxPayload) /\ HeaderSize + n = Len(m)
  <1>2. PageDecodeFrame(m) = IF good THEN [type |-> m[6], payload |-> payload] ELSE None
    BY DEF PageDecodeFrame, MessageTypeValid
  <1>3. ASSUME good PROVE RelayMessageDecode(m) # None
    <2>1. Len(m) >= 12
      BY <1>1, <1>3
    <2>2. n \in U32
      <3>1. Bytes(m, 0, 12)
        <4>1. \A i \in 1 .. 12 : 0 + i = i /\ i \in 1 .. Len(m)
          BY <2>1
        <4> QED BY <4>1 DEF Bytes
      <3>2. 1 \in 1 .. 7 /\ 0 \in U32
        BY Widths DEF U32
      <3> QED BY <3>1, <3>2, HeaderHolds
    <2>3. n \in Nat /\ n <= RelayMaxPayload /\ Len(m) = 12 + n
      BY <1>1, <1>3, <2>2, Widths DEF U32
    <2>4. payload \in Seq(Byte) /\ Len(payload) = n
      BY <1>1, <2>1, <2>3, Rest
    <2> HIDE DEF payload, n
    <2>5. DecodeHeader(m) = HeaderRecord(m[6], n)
      BY <1>1, <1>3, <2>3 DEF DecodeHeader, MessageTypeValid, HeaderRecord, n
    <2>6. m[6] \in 1 .. 7
      BY <1>3
    <2>7. /\ DecodeHeader(m) = HeaderRecord(m[6], Len(payload)) /\ DecodeHeader(m) # None
          /\ FrameView(m[6], payload) # None
      BY <2>3, <2>4, <2>5, <2>6, PayloadRoom
    <2>8. DecodeHeader(m).payload_length = Len(payload)
      BY <2>7 DEF HeaderRecord
    <2>9. RelayMessageDecode(m) = FrameView(m[6], payload)
      BY <1>1, <1>3, <2>3, <2>4, <2>7, <2>8 DEF RelayMessageDecode, FrameView, payload
    <2> QED BY <2>7, <2>9
  <1>4. ASSUME NEW t \in 1 .. 7, NEW p \in Seq(Byte), Len(p) <= RelayMaxPayload, m = Message(t, p)
        PROVE  PageDecodeFrame(m) = [type |-> t, payload |-> p]
    <2>1. Len(m) = 12 + Len(p) /\ Holds(m, 0, HeaderOf(t, Len(p))) /\ Holds(m, 12, p)
      BY <1>4, MessageHolds
    <2>2. Len(m) >= 12 /\ Len(m) <= MessageMax /\ Len(p) \in U32 /\ Len(p) \in Nat
      BY <1>1, <1>4, <2>1, PayloadRoom
    <2>3. Bytes(m, 0, 12)
      <3>1. \A i \in 1 .. 12 : 0 + i = i /\ i \in 1 .. Len(m)
        BY <2>2
      <3> QED BY <3>1 DEF Bytes
    <2>4. /\ Holds(m, 0, Magic) /\ m[5] = Version /\ m[6] = t
          /\ ReadU16(m, 6) = 0 /\ n = Len(p) /\ Magic \in Seq(Byte) /\ Len(Magic) = 4
      BY <2>1, <2>2, <2>3, HeaderHolds
    <2>5. At(m, 0, 4) = Magic
      <3>1. \A o, k \in Nat : o + k <= Len(m) /\ Len(Magic) = k =>
                (At(m, o, k) = Magic <=> Holds(m, o, Magic))
        BY <2>4, CutOut
      <3>2. 0 \in Nat /\ 4 \in Nat /\ 0 + 4 <= Len(m)
        BY <2>2
      <3> QED BY <2>4, <3>1, <3>2
    <2>6. payload = p
      BY <1>1, <2>1, <2>2, Rest
    <2> HIDE DEF payload, n
    <2>7. good
      BY <1>1, <1>4, <2>1, <2>2, <2>4, <2>5
    <2> QED BY <1>2, <2>4, <2>6, <2>7
  <1> QED BY <1>2, <1>3, <1>4

-----------------------------------------------------------------------------
\* Acknowledgements.

AckBytes(t, s, r) == <<t, s, 0, 0>> \o WriteU64(r)

\* A buffer is the bytes of an acknowledgement exactly if its fields are read there.
LEMMA AckHolds ==
  ASSUME NEW b \in Seq(Byte), NEW t \in {FILE_BEGIN, CHUNK, FILE_END}, NEW s \in AckStatus,
         NEW r \in U64
  PROVE  /\ AckBytes(t, s, r) \in Seq(Byte) /\ Len(AckBytes(t, s, r)) = 12
         /\ b = AckBytes(t, s, r) <=>
               /\ Len(b) = 12 /\ b[1] = t /\ b[2] = s /\ b[3] = 0 /\ b[4] = 0
               /\ ReadU64(b, 4) = r
  <1> DEFINE x == <<t, s, 0, 0>>
             y == WriteU64(r)
             w == x \o y
  <1>1. t \in Byte /\ s \in Byte /\ 0 \in Byte
    <2>1. t \in 0 .. 7 /\ s \in 0 .. 7
      BY DEF FILE_BEGIN, CHUNK, FILE_END, AckStatus
    <2> QED BY <2>1, Widths
  <1>2. x \in Seq(Byte) /\ Len(x) = 4
    BY <1>1
  <1>3. y \in Seq(Byte) /\ Len(y) = 8
    <2> DEFINE c == [i \in 1 .. 8 |-> 0]
    <2>1. Bytes(c, 0, 8)
      <3>1. \A i \in 1 .. 8 : 0 + i = i
        OBVIOUS
      <3> QED BY <1>1, <3>1 DEF Bytes
    <2> HIDE DEF c
    <2> QED BY <2>1, Field64
  <1>4. \A o \in Nat : Holds(b, o, x) <=>
           b[o + 1] = t /\ b[o + 2] = s /\ b[o + 3] = 0 /\ b[o + 4] = 0
    <2>1. Len(x) = 4 /\ x[1] = t /\ x[2] = s /\ x[3] = 0 /\ x[4] = 0
      OBVIOUS
    <2> HIDE DEF x
    <2>2. \A i : i \in 1 .. 4 <=> i = 1 \/ i = 2 \/ i = 3 \/ i = 4
      OBVIOUS
    <2> QED BY <2>1, <2>2 DEF Holds
  <1>5. Len(b) = 12 => (Holds(b, 4, y) <=> ReadU64(b, 4) = r)
    <2>1. ASSUME Len(b) = 12 PROVE Bytes(b, 4, 8)
      <3>1. \A i \in 1 .. 8 : 4 + i \in 1 .. Len(b)
        BY <2>1
      <3>2. \A i \in 1 .. Len(b) : b[i] \in Byte
        OBVIOUS
      <3> HIDE <2>1
      <3> QED BY <3>1, <3>2 DEF Bytes
    <2> QED BY <2>1, Field64
  <1> HIDE DEF x, y
  <1>6. x \in Seq(Byte) /\ y \in Seq(Byte)
    BY <1>2, <1>3
  <1>7. /\ w \in Seq(Byte) /\ Len(w) = Len(x) + Len(y)
        /\ Holds(b, 0, w) <=> Holds(b, 0, x) /\ Holds(b, 0 + Len(x), y)
    BY <1>6, HoldsBoth
  <1> HIDE DEF w
  <1>8. w \in Seq(Byte)
    BY <1>7
  <1>9. Len(w) = 12 /\ 0 + Len(x) = 4
    BY <1>2, <1>3, <1>7
  <1>10. b = w <=> Len(b) = Len(w) /\ Holds(b, 0, w)
    BY <1>8, SameBytes
  <1>11. Holds(b, 0, x) <=> b[1] = t /\ b[2] = s /\ b[3] = 0 /\ b[4] = 0
    <2>1. 0 \in Nat /\ 0 + 1 = 1 /\ 0 + 2 = 2 /\ 0 + 3 = 3 /\ 0 + 4 = 4
      OBVIOUS
    <2> QED BY <1>4, <2>1
  <1>12. AckBytes(t, s, r) = w
    BY Zenon DEF AckBytes, x, y, w
  <1> QED BY <1>5, <1>7, <1>8, <1>9, <1>10, <1>11, <1>12

\* An acknowledgement of these fields.
AckRecord(t, s, r) == [type |-> t, status |-> s, received |-> r]

\* pd_ack_decode reads exactly what pd_ack_encode writes.
LEMMA AckIs ==
  ASSUME NEW b \in Seq(Byte)
  PROVE  /\ AckDecode(b) # None =>
               AckDecode(b) \in Ack /\ b = AckEncode(AckDecode(b))
         /\ \A a \in Ack : b = AckEncode(a) => AckDecode(b) = a
  <1>1. \A t \in {FILE_BEGIN, CHUNK, FILE_END}, s \in AckStatus, r \in U64 :
           AckRecord(t, s, r) \in Ack /\ AckEncode(AckRecord(t, s, r)) = AckBytes(t, s, r)
    BY DEF AckRecord, Ack, AckEncode, AckBytes, AckTypeAllowed
  <1> DEFINE good == /\ Len(b) = AckSize /\ b[3] = 0 /\ b[4] = 0
                     /\ b[1] \in {FILE_BEGIN, CHUNK, FILE_END} /\ b[2] \in AckStatus
  <1>2. AckDecode(b) = IF good THEN AckRecord(b[1], b[2], ReadU64(b, 4)) ELSE None
    BY DEF AckDecode, AckRecord, AckTypeAllowed
  <1>3. AckSize = 12
    BY DEF AckSize
  <1>4. ASSUME AckDecode(b) # None
        PROVE  AckDecode(b) \in Ack /\ b = AckEncode(AckDecode(b))
    <2>1. good
      BY <1>2, <1>4
    <2>2. ReadU64(b, 4) \in U64
      <3>1. \A i \in 1 .. 8 : 4 + i \in 1 .. Len(b)
        BY <1>3, <2>1
      <3>2. Bytes(b, 4, 8)
        <4>1. \A i \in 1 .. Len(b) : b[i] \in Byte
          OBVIOUS
        <4> QED BY <3>1, <4>1 DEF Bytes
      <3>3. 0 \in U64 /\ 4 \in Nat
        BY Widths DEF U64
      <3> QED BY <3>2, <3>3, Field64
    <2>3. b = AckBytes(b[1], b[2], ReadU64(b, 4))
      BY <1>3, <2>1, <2>2, AckHolds
    <2> QED BY <1>1, <1>2, <2>1, <2>2, <2>3
  <1>5. ASSUME NEW a \in Ack, b = AckEncode(a)
        PROVE  AckDecode(b) = a
    <2>1. PICK t \in {FILE_BEGIN, CHUNK, FILE_END}, s \in AckStatus, r \in U64 :
             a = AckRecord(t, s, r)
      BY DEF Ack, AckRecord
    <2>2. b = AckBytes(t, s, r)
      BY <1>1, <1>5, <2>1
    <2>3. /\ Len(b) = 12 /\ b[1] = t /\ b[2] = s /\ b[3] = 0 /\ b[4] = 0
          /\ ReadU64(b, 4) = r
      BY <2>2, AckHolds
    <2>4. good
      BY <1>3, <2>3
    <2> QED BY <1>2, <2>1, <2>3, <2>4
  <1> QED BY <1>4, <1>5

\* The bytes of an acknowledgement fit a message.
LEMMA AckFits ==
  ASSUME NEW a \in Ack
  PROVE  /\ AckEncode(a) \in Seq(Byte) /\ Len(AckEncode(a)) = 12
         /\ 12 <= RelayMaxPayload
  <1>1. PICK t \in {FILE_BEGIN, CHUNK, FILE_END}, s \in AckStatus, r \in U64 :
           a = AckRecord(t, s, r)
    BY DEF Ack, AckRecord
  <1>2. AckEncode(a) = AckBytes(t, s, r)
    BY <1>1 DEF AckRecord, Ack, AckEncode, AckBytes, AckTypeAllowed
  <1>3. Magic \in Seq(Byte)
    BY LimitAssumption
  <1>4. AckBytes(t, s, r) \in Seq(Byte) /\ Len(AckBytes(t, s, r)) = 12
    BY <1>3, AckHolds
  <1>5. 12 <= RelayMaxPayload
    BY LimitAssumption DEF RelayMaxPayload, AckSize, HeaderSize
  <1> QED BY <1>2, <1>4, <1>5

\* decodeAck reads what pd_ack_decode reads in an ACK message.
LEMMA PageAck ==
  ASSUME NEW m \in Seq(Byte)
  PROVE  PageDecodeAck(m) =
            IF RelayMessageDecode(m) = None \/ RelayMessageDecode(m).header.type # ACK THEN None
            ELSE AckDecode(RelayMessageDecode(m).payload)
  <1>1. CASE RelayMessageDecode(m) = None
    <2>1. PageDecodeFrame(m) = None
      BY <1>1, PageFrame
    <2> QED BY <1>1, <2>1 DEF PageDecodeAck
  <1>2. CASE RelayMessageDecode(m) # None
    <2>1. PICK t \in 1 .. 7, p \in Seq(Byte) :
             /\ Len(p) <= RelayMaxPayload /\ m = Message(t, p)
             /\ RelayMessageDecode(m) = FrameView(t, p)
      BY <1>2, MessageIs
    <2>2. PageDecodeFrame(m) = [type |-> t, payload |-> p]
      BY <2>1, PageFrame
    <2>3. PageDecodeFrame(m) # None
      BY <2>2, IntakeAssumption
    <2>4. RelayMessageDecode(m).header.type = t /\ RelayMessageDecode(m).payload = p
      BY <2>1 DEF FrameView, HeaderRecord
    <2>5. PageDecodeFrame(m).type = t /\ PageDecodeFrame(m).payload = p
      BY <2>2
    <2>6. PageDecodeAck(m) = IF t # ACK THEN None ELSE AckDecode(p)
      BY <2>3, <2>5 DEF PageDecodeAck, AckDecode, AckTypeAllowed
    <2> QED BY <1>2, <2>4, <2>6
  <1> QED BY <1>1, <1>2

-----------------------------------------------------------------------------
\* The metadata of a file.

BeginBytes(v, d, f) == WriteU64(v) \o d \o WriteU16(Len(f)) \o f

\* A buffer is the bytes of metadata exactly if its fields are read there.
LEMMA BeginHolds ==
  ASSUME NEW b \in Seq(Byte), NEW v \in U64, NEW d \in Seq(Byte), Len(d) = Sha256Bytes,
         NEW f \in Seq(Byte), Len(f) <= FilenameMax
  PROVE  /\ BeginBytes(v, d, f) \in Seq(Byte)
         /\ Len(BeginBytes(v, d, f)) = FixedSize + Len(f)
         /\ b = BeginBytes(v, d, f) <=>
               /\ Len(b) = FixedSize + Len(f)
               /\ ReadU64(b, 0) = v /\ At(b, 8, Sha256Bytes) = d
               /\ ReadU16(b, 8 + Sha256Bytes) = Len(f) /\ From(b, FixedSize) = f
  <1> DEFINE S == Sha256Bytes
             x == WriteU64(v)
             y == WriteU16(Len(f))
             p == x \o d
             q == p \o y
             r == q \o f
  <1>1. /\ S \in Nat /\ FixedSize = 10 + S /\ FixedSize \in Nat /\ Len(f) \in Nat /\ Len(b) \in Nat
        /\ Len(f) \in U16 /\ 8 + S \in Nat
    <2>1. FilenameMax \in Nat /\ FilenameMax < TwoBytes /\ TwoBytes \in Nat /\ S \in Nat
      BY LimitAssumption, Widths
    <2>2. Len(f) \in Nat /\ Len(b) \in Nat
      OBVIOUS
    <2> QED BY <2>1, <2>2 DEF FixedSize, U16
  <1>2. /\ x \in Seq(Byte) /\ Len(x) = 8 /\ y \in Seq(Byte) /\ Len(y) = 2
    <2> DEFINE c == [i \in 1 .. 8 |-> 0]
    <2>1. Bytes(c, 0, 8) /\ Bytes(c, 0, 2)
      <3>1. (\A i \in 1 .. 8 : 0 + i = i) /\ (\A i \in 1 .. 2 : 0 + i \in 1 .. 8)
        OBVIOUS
      <3> QED BY Widths, <3>1 DEF Bytes
    <2> HIDE DEF c
    <2> QED BY <1>1, <2>1, Field64, Field16
  <1> HIDE DEF S
  <1>3. Len(b) = FixedSize + Len(f) =>
           /\ Holds(b, 0, x) <=> ReadU64(b, 0) = v
           /\ Holds(b, 8, d) <=> At(b, 8, S) = d
           /\ Holds(b, 8 + S, y) <=> ReadU16(b, 8 + S) = Len(f)
           /\ Holds(b, FixedSize, f) <=> From(b, FixedSize) = f
    <2> HAVE Len(b) = FixedSize + Len(f)
    <2>1. \A i \in 1 .. Len(b) : b[i] \in Byte
      OBVIOUS
    <2>2. /\ \A i \in 1 .. 8 : 0 + i \in 1 .. Len(b)
          /\ \A i \in 1 .. 2 : (8 + S) + i \in 1 .. Len(b)
          /\ 8 + S <= Len(b) /\ FixedSize <= Len(b)
      BY <1>1
    <2>3. Bytes(b, 0, 8) /\ Bytes(b, 8 + S, 2)
      BY <2>1, <2>2 DEF Bytes
    <2>4. Holds(b, 0, x) <=> ReadU64(b, 0) = v
      BY <2>3, Field64
    <2>5. Holds(b, 8 + S, y) <=> ReadU16(b, 8 + S) = Len(f)
      BY <1>1, <2>3, Field16
    <2>6. Holds(b, 8, d) <=> At(b, 8, S) = d
      <3>1. \A o, k \in Nat : o + k <= Len(b) /\ Len(d) = k =>
                (At(b, o, k) = d <=> Holds(b, o, d))
        BY CutOut
      <3> QED BY <1>1, <2>2, <3>1 DEF S
    <2>7. Holds(b, FixedSize, f) <=> From(b, FixedSize) = f
      BY <1>1, <2>2, Rest
    <2> QED BY <2>4, <2>5, <2>6, <2>7
  <1> HIDE DEF x, y
  <1>4. x \in Seq(Byte) /\ y \in Seq(Byte)
    BY <1>2
  <1>5. /\ p \in Seq(Byte) /\ Len(p) = Len(x) + Len(d)
        /\ Holds(b, 0, p) <=> Holds(b, 0, x) /\ Holds(b, 0 + Len(x), d)
    BY <1>4, HoldsBoth
  <1> HIDE DEF p
  <1>6. /\ q \in Seq(Byte) /\ Len(q) = Len(p) + Len(y)
        /\ Holds(b, 0, q) <=> Holds(b, 0, p) /\ Holds(b, 0 + Len(p), y)
    BY <1>4, <1>5, HoldsBoth
  <1> HIDE DEF q
  <1>7. /\ r \in Seq(Byte) /\ Len(r) = Len(q) + Len(f)
        /\ Holds(b, 0, r) <=> Holds(b, 0, q) /\ Holds(b, 0 + Len(q), f)
    BY <1>6, HoldsBoth
  <1> HIDE DEF r
  <1>8. r \in Seq(Byte)
    BY <1>7
  <1>9. /\ 0 + Len(x) = 8 /\ 0 + Len(p) = 8 + S /\ 0 + Len(q) = FixedSize
        /\ Len(r) = FixedSize + Len(f)
    BY <1>1, <1>2, <1>5, <1>6, <1>7 DEF S
  <1>10. b = r <=> Len(b) = Len(r) /\ Holds(b, 0, r)
    BY <1>8, SameBytes
  <1>11. Holds(b, 0, r) <=> /\ Holds(b, 0, x) /\ Holds(b, 8, d)
                            /\ Holds(b, 8 + S, y) /\ Holds(b, FixedSize, f)
    BY <1>5, <1>6, <1>7, <1>9
  <1>12. BeginBytes(v, d, f) = r
    BY Zenon DEF BeginBytes, x, y, p, q, r
  <1> QED BY <1>3, <1>8, <1>9, <1>10, <1>11, <1>12 DEF S

\* The metadata of these fields.
FileRecord(v, d, f) == [file_size |-> v, sha256 |-> d, filename |-> f]

\* pd_file_begin_decode takes a payload exactly if pd_file_begin_encode makes it of what
\* is found there, and encodeFileBegin of the page makes the same.
LEMMA BeginIs ==
  ASSUME NEW b \in Seq(Byte)
  PROVE  /\ FileBeginDecode(b) # None =>
               /\ FileBeginDecode(b) \in Metadata /\ b = FileBeginEncode(FileBeginDecode(b))
               /\ Len(FileBeginDecode(b).filename) \in 1 .. FilenameMax
         /\ \A v, d, n, f :
               /\ d \in Seq(Byte) /\ f \in Seq(Byte) /\ b = PageEncodeFileBegin(v, d, n, f)
               => FileBeginDecode(b) = FileRecord(v, d, f)
  <1> DEFINE n == ReadU16(b, 8 + Sha256Bytes)
             filename == From(b, FixedSize)
             size == ReadU64(b, 0)
             digest == At(b, 8, Sha256Bytes)
             good == /\ ~(Len(b) < FixedSize) /\ n # 0 /\ ~(n > FilenameMax)
                     /\ Len(b) = FixedSize + n /\ ~Contains(filename, 0)
  <1>1. FileBeginDecode(b) = IF good THEN FileRecord(size, digest, filename) ELSE None
    BY DEF FileBeginDecode, FileRecord
  <1>2. /\ Sha256Bytes \in Nat /\ FixedSize = 10 + Sha256Bytes /\ FixedSize \in Nat
        /\ Len(b) \in Nat /\ FilenameMax \in Nat /\ 8 + Sha256Bytes \in Nat
        /\ FilenameMax < TwoBytes /\ TwoBytes \in Nat
    <2>1. Len(b) \in Nat
      OBVIOUS
    <2> QED BY <2>1, LimitAssumption, Widths DEF FixedSize
  <1>3. ASSUME Len(b) >= FixedSize
        PROVE  /\ size \in U64 /\ digest \in Seq(Byte) /\ Len(digest) = Sha256Bytes
               /\ n \in U16 /\ filename \in Seq(Byte) /\ Len(b) = FixedSize + Len(filename)
    <2>1. \A i \in 1 .. Len(b) : b[i] \in Byte
      OBVIOUS
    <2>2. /\ \A i \in 1 .. 8 : 0 + i \in 1 .. Len(b)
          /\ \A i \in 1 .. 2 : (8 + Sha256Bytes) + i \in 1 .. Len(b)
          /\ 8 + Sha256Bytes <= Len(b) /\ FixedSize <= Len(b)
      BY <1>2, <1>3
    <2>3. Bytes(b, 0, 8) /\ Bytes(b, 8 + Sha256Bytes, 2)
      BY <2>1, <2>2 DEF Bytes
    <2>4. 0 \in U64 /\ 0 \in U16 /\ 0 \in Nat /\ 8 \in Nat
      BY Widths DEF U64, U16
    <2>5. size \in U64 /\ n \in U16
      BY <1>2, <2>3, <2>4, Field64, Field16
    <2>6. digest \in Seq(Byte) /\ Len(digest) = Sha256Bytes
      <3>1. \A o, k \in Nat : \A s \in Seq(Byte) : o + k <= Len(b) /\ Len(s) = k =>
                At(b, o, k) \in Seq(Byte) /\ Len(At(b, o, k)) = k
        BY CutOut
      <3>2. \E s \in Seq(Byte) : Len(s) = Sha256Bytes
        <4> DEFINE z == [i \in 1 .. Sha256Bytes |-> 0]
        <4>1. z \in Seq(Byte) /\ Len(z) = Sha256Bytes
          BY <1>2, Widths
        <4> QED BY <4>1
      <3> QED BY <1>2, <2>2, <2>4, <3>1, <3>2
    <2>7. filename \in Seq(Byte) /\ Len(filename) = Len(b) - FixedSize
      BY <1>2, <2>2, Rest
    <2>8. Len(b) = FixedSize + Len(filename)
      BY <1>2, <2>7
    <2> QED BY <2>5, <2>6, <2>7, <2>8
  <1>4. ASSUME FileBeginDecode(b) # None
        PROVE  /\ FileBeginDecode(b) \in Metadata /\ b = FileBeginEncode(FileBeginDecode(b))
               /\ Len(FileBeginDecode(b).filename) \in 1 .. FilenameMax
    <2>1. good /\ FileBeginDecode(b) = FileRecord(size, digest, filename)
      BY <1>1, <1>4
    <2>2. Len(b) >= FixedSize
      BY <1>2, <2>1
    <2>3. /\ size \in U64 /\ digest \in Seq(Byte) /\ Len(digest) = Sha256Bytes
          /\ n \in U16 /\ filename \in Seq(Byte) /\ Len(b) = FixedSize + Len(filename)
      BY <1>3, <2>2
    <2>4. Len(filename) \in Nat
      BY <2>3
    <2>5. n = Len(filename) /\ Len(filename) \in 1 .. FilenameMax /\ Len(filename) <= FilenameMax
      BY <1>2, <2>1, <2>3, <2>4 DEF U16
    <2>6. b = BeginBytes(size, digest, filename)
      BY <2>3, <2>5, BeginHolds
    <2> HIDE DEF n, filename, size, digest
    <2>7. FileRecord(size, digest, filename) \in Metadata
      BY <2>3 DEF FileRecord, Metadata
    <2>8. Len(filename) # 0 /\ ~(Len(filename) > FilenameMax)
      BY <1>2, <2>4, <2>5
    <2>9. FileBeginEncode(FileRecord(size, digest, filename)) = BeginBytes(size, digest, filename)
      BY <2>8 DEF FileRecord, FileBeginEncode, BeginBytes
    <2>10. FileRecord(size, digest, filename).filename = filename
      BY DEF FileRecord
    <2> QED BY <2>1, <2>5, <2>6, <2>7, <2>9, <2>10
  <1>5. ASSUME NEW v, NEW d, NEW k, NEW f,
               d \in Seq(Byte), f \in Seq(Byte), b = PageEncodeFileBegin(v, d, k, f)
        PROVE  FileBeginDecode(b) = FileRecord(v, d, f)
    <2>1. b # None
      BY IntakeAssumption
    <2>2. /\ v \in U64 /\ Len(d) = Sha256Bytes /\ ~Contains(f, 0)
          /\ Len(f) # 0 /\ ~(Len(f) > FilenameMax) /\ b = BeginBytes(v, d, f)
      BY <1>5, <2>1 DEF PageEncodeFileBegin, BeginBytes
    <2>3. Len(f) \in Nat /\ Len(f) <= FilenameMax
      BY <1>2, <1>5, <2>2
    <2>4. /\ Len(b) = FixedSize + Len(f) /\ size = v /\ digest = d
          /\ n = Len(f) /\ filename = f
      BY <1>5, <2>2, <2>3, BeginHolds
    <2> HIDE DEF n, filename, size, digest
    <2>5. good
      BY <1>2, <2>2, <2>3, <2>4
    <2> QED BY <1>1, <2>4, <2>5
  <1> QED BY <1>4, <1>5

\* What the page makes of a file fits a message.
LEMMA BeginFits ==
  ASSUME NEW v, NEW d \in Seq(Byte), NEW n, NEW f \in Seq(Byte),
         PageEncodeFileBegin(v, d, n, f) # None
  PROVE  /\ PageEncodeFileBegin(v, d, n, f) \in Seq(Byte)
         /\ Len(PageEncodeFileBegin(v, d, n, f)) <= RelayMaxPayload
         /\ Len(f) \in 1 .. FilenameMax
  <1>1. /\ v \in U64 /\ Len(d) = Sha256Bytes /\ Len(f) # 0 /\ ~(Len(f) > FilenameMax)
        /\ PageEncodeFileBegin(v, d, n, f) = BeginBytes(v, d, f)
    BY DEF PageEncodeFileBegin, BeginBytes
  <1>2. Len(f) \in Nat /\ FilenameMax \in Nat /\ Magic \in Seq(Byte)
    BY LimitAssumption
  <1>3. Len(f) \in 1 .. FilenameMax /\ Len(f) <= FilenameMax
    BY <1>1, <1>2
  <1>4. BeginBytes(v, d, f) \in Seq(Byte) /\ Len(BeginBytes(v, d, f)) = FixedSize + Len(f)
    BY <1>1, <1>2, <1>3, BeginHolds
  <1>5. FixedSize + Len(f) <= RelayMaxPayload
    BY <1>2, <1>3, LimitAssumption DEF RelayMaxPayload, FixedSize, HeaderSize
  <1> QED BY <1>1, <1>3, <1>4, <1>5

-----------------------------------------------------------------------------
\* File names.

\* A set of natural numbers that has a member has a least one.
LEMMA LeastMember ==
  ASSUME NEW S \in SUBSET Nat, S # {}
  PROVE  Min(S) \in S /\ \A y \in S : Min(S) <= y
  <1> DEFINE Below == {pair \in Nat \X Nat : pair[1] < pair[2]}
  <1>1. IsWellFoundedOn(Below, Nat)
    BY NatLessThanWellFounded, Zenon DEF OpToRel
  <1>2. \E x \in S : \A y \in S : ~(<<y, x>> \in Below)
    <2> HIDE DEF Below
    <2> QED BY <1>1, WFMin
  <1>3. \E x \in S : \A y \in S : x <= y
    <2>1. \A x, y \in Nat : ~(<<y, x>> \in Below) => x <= y
      OBVIOUS
    <2> HIDE DEF Below
    <2> QED BY <1>2, <2>1
  <1> QED BY <1>3 DEF Min

\* The beginning of a sequence.
LEMMA Beginning ==
  ASSUME NEW S, NEW s \in Seq(S), NEW k \in 0 .. Len(s)
  PROVE  /\ SubSeq(s, 1, k) \in Seq(S) /\ Len(SubSeq(s, 1, k)) = k
         /\ DOMAIN SubSeq(s, 1, k) = 1 .. k
         /\ \A i \in 1 .. k : SubSeq(s, 1, k)[i] = s[i]
  <1>1. Len(s) \in Nat
    OBVIOUS
  <1>2. k \in Nat /\ k <= Len(s)
    BY <1>1
  <1> QED BY <1>2

\* The bytes of a name, in upper case, up to a place are those of a word.
StartsWith(n, k, word) == Len(word) = k /\ \A i \in 1 .. k : Upper[n[i]] = word[i]

\* A device's name ends at a place of a name.
DeviceAt(n, k) ==
    \/ \E word \in Device : StartsWith(n, k, word)
    \/ k > 0 /\ n[k] \in Digit1to9 /\ \E word \in NumberedDevice : StartsWith(n, k - 1, word)

\* The upper case of a beginning is in a set of words if it starts with one.
LEMMA UpperIs ==
  ASSUME NEW n \in Seq(Byte), NEW k \in 0 .. Len(n), NEW Words, Words \subseteq Seq(Byte)
  PROVE  UpperCase(SubSeq(n, 1, k)) \in Words <=> \E word \in Words : StartsWith(n, k, word)
  <1> DEFINE u == UpperCase(SubSeq(n, 1, k))
  <1>1. k \in Nat
    OBVIOUS
  <1>2. u = [i \in 1 .. k |-> Upper[n[i]]]
    BY Beginning DEF UpperCase
  <1> HIDE DEF u
  <1>3. ASSUME NEW word \in Words PROVE u = word <=> StartsWith(n, k, word)
    <2>1. word \in Seq(Byte) /\ Len(word) \in Nat /\ DOMAIN word = 1 .. Len(word)
      OBVIOUS
    <2>2. word = [i \in 1 .. Len(word) |-> word[i]]
      BY <2>1
    <2>3. u = word => Len(word) = k
      <3> HAVE u = word
      <3>1. \A i : i \in 1 .. Len(word) <=> i \in 1 .. k
        BY <1>2, <2>1
      <3>2. /\ Len(word) = 0 \/ Len(word) \in 1 .. Len(word)
            /\ k = 0 \/ k \in 1 .. k
        BY <1>1, <2>1
      <3>3. /\ Len(word) = 0 \/ Len(word) \in 1 .. k
            /\ k = 0 \/ k \in 1 .. Len(word)
        BY <3>1, <3>2
      <3>4. \A a, b \in Nat : (a = 0 \/ a \in 1 .. b) /\ (b = 0 \/ b \in 1 .. a) => a = b
        OBVIOUS
      <3> QED BY Zenon, <1>1, <2>1, <3>3, <3>4
    <2>4. u = word => \A i \in 1 .. k : Upper[n[i]] = word[i]
      BY <1>2
    <2>5. StartsWith(n, k, word) => u = word
      BY <1>2, <2>2 DEF StartsWith
    <2> QED BY <2>3, <2>4, <2>5 DEF StartsWith
  <1> QED BY <1>3 DEF u

\* There is no dot and no underscore in a device's name.
LEMMA NoDotInDevice ==
  ASSUME NEW n \in Seq(Byte), NEW k \in 0 .. Len(n), DeviceAt(n, k)
  PROVE  k > 0 /\ \A i \in 1 .. k : n[i] \notin {Dot, Underscore}
  <1>1. /\ Device \cup NumberedDevice \subseteq Seq(Byte \ {Dot, Underscore})
        /\ <<>> \notin Device /\ Upper[Dot] = Dot /\ Upper[Underscore] = Underscore
        /\ Digit1to9 \subseteq Byte \ {Dot, Underscore}
    BY NameAssumption
  <1>2. \A j \in Nat : \A word \in Device \cup NumberedDevice :
           StartsWith(n, j, word) => \A i \in 1 .. j : n[i] \notin {Dot, Underscore}
    <2> TAKE j \in Nat
    <2> TAKE word \in Device \cup NumberedDevice
    <2> HAVE StartsWith(n, j, word)
    <2> TAKE i \in 1 .. j
    <2>1. i \in 1 .. Len(word) /\ word \in Seq(Byte \ {Dot, Underscore}) /\ Upper[n[i]] = word[i]
      BY <1>1 DEF StartsWith
    <2>2. word[i] \in Byte \ {Dot, Underscore}
      BY <2>1
    <2> QED BY <1>1, <2>1, <2>2
  <1>3. CASE \E word \in Device : StartsWith(n, k, word)
    <2>1. PICK word \in Device : StartsWith(n, k, word)
      BY <1>3
    <2>2. k # 0
      <3>1. word \in Seq(Byte \ {Dot, Underscore}) /\ word # <<>>
        BY <1>1
      <3>2. Len(word) # 0
        BY <3>1
      <3> QED BY <2>1, <3>2 DEF StartsWith
    <2> QED BY <1>2, <2>1, <2>2
  <1>4. CASE /\ k > 0 /\ n[k] \in Digit1to9
             /\ \E word \in NumberedDevice : StartsWith(n, k - 1, word)
    <2>1. PICK word \in NumberedDevice : StartsWith(n, k - 1, word)
      BY <1>4
    <2>2. k - 1 \in Nat
      BY <1>4
    <2>3. \A i \in 1 .. k - 1 : n[i] \notin {Dot, Underscore}
      BY <1>2, <2>1, <2>2
    <2>4. \A i \in 1 .. k : i = k \/ i \in 1 .. k - 1
      OBVIOUS
    <2> QED BY <1>1, <1>4, <2>3, <2>4
  <1> QED BY <1>3, <1>4 DEF DeviceAt

\* The stem ends at the first dot, or where the name does.
LEMMA StemIs ==
  ASSUME NEW n \in Seq(Byte)
  PROVE  \E k \in 0 .. Len(n) : /\ Stem(n) = SubSeq(n, 1, k)
                                /\ \A i \in 1 .. k : n[i] # Dot
                                /\ k = Len(n) \/ n[k + 1] = Dot
  <1> DEFINE D == {i \in 1 .. Len(n) : n[i] = Dot}
             dot == SelectInSeq(n, LAMBDA b : b = Dot)
  <1>1. dot = IF D # {} THEN Min(D) ELSE 0
    BY DEF SelectInSeq
  <1>2. Len(n) \in Nat
    OBVIOUS
  <1>3. Stem(n) = IF dot = 0 THEN n ELSE SubSeq(n, 1, dot - 1)
    BY DEF Stem
  <1> HIDE DEF dot
  <1>4. CASE D = {}
    <2>1. n = SubSeq(n, 1, Len(n))
      OBVIOUS
    <2>2. Stem(n) = SubSeq(n, 1, Len(n)) /\ Len(n) \in 0 .. Len(n)
      BY <1>1, <1>2, <1>3, <1>4, <2>1
    <2>3. \A i \in 1 .. Len(n) : n[i] # Dot
      BY <1>4
    <2> QED BY <2>2, <2>3
  <1>5. CASE D # {}
    <2>1. D \in SUBSET Nat
      BY <1>2
    <2>2. dot \in D /\ \A i \in D : dot <= i
      BY <1>1, <1>5, <2>1, LeastMember
    <2>3. dot \in 1 .. Len(n) /\ n[dot] = Dot
      BY <2>2
    <2>4. /\ dot - 1 \in 0 .. Len(n) /\ (dot - 1) + 1 = dot /\ dot # 0
          /\ \A i \in 1 .. dot - 1 : i \in 1 .. Len(n) /\ ~(dot <= i)
      BY <1>2, <2>3
    <2>5. \A i \in 1 .. dot - 1 : n[i] # Dot
      BY <2>2, <2>4
    <2> QED BY <1>3, <2>3, <2>4, <2>5
  <1> QED BY <1>4, <1>5

\* pd_is_windows_reserved_device_name finds a device's name that ends at a dot or with
\* the name.
LEMMA ReservedIs ==
  ASSUME NEW n \in Seq(Byte)
  PROVE  Reserved(n) <=> \E k \in 0 .. Len(n) : DeviceAt(n, k) /\ (k = Len(n) \/ n[k + 1] = Dot)
  <1>1. PICK k \in 0 .. Len(n) : /\ Stem(n) = SubSeq(n, 1, k)
                                 /\ \A i \in 1 .. k : n[i] # Dot
                                 /\ k = Len(n) \/ n[k + 1] = Dot
    BY StemIs
  <1> DEFINE stem == Stem(n)
  <1>2. /\ stem \in Seq(Byte) /\ Len(stem) = k /\ \A i \in 1 .. k : stem[i] = n[i]
    BY <1>1, Beginning
  <1>3. k \in Nat /\ Len(n) \in Nat /\ k <= Len(n)
    OBVIOUS
  <1>4. /\ Device \subseteq Seq(Byte) /\ NumberedDevice \subseteq Seq(Byte)
    <2>1. Seq(Byte \ {Dot, Underscore}) \subseteq Seq(Byte)
      OBVIOUS
    <2> QED BY <2>1, NameAssumption
  <1>5. UpperCase(stem) \in Device <=> \E word \in Device : StartsWith(n, k, word)
    BY <1>1, <1>4, UpperIs
  <1>6. stem # <<>> <=> k > 0
    BY <1>2, <1>3
  <1>7. k > 0 => /\ Last(stem) = n[k]
                 /\ UpperCase(Front(stem)) \in NumberedDevice <=>
                       \E word \in NumberedDevice : StartsWith(n, k - 1, word)
    <2> HAVE k > 0
    <2>1. k - 1 \in 0 .. Len(stem) /\ k \in 1 .. k
      BY <1>2, <1>3
    <2>2. Last(stem) = n[k]
      BY <1>2, <2>1 DEF Last
    <2>3. Front(stem) = SubSeq(stem, 1, k - 1)
      BY <1>2 DEF Front
    <2>4. UpperCase(Front(stem)) \in NumberedDevice <=>
             \E word \in NumberedDevice : StartsWith(stem, k - 1, word)
      BY <1>2, <1>4, <2>1, <2>3, UpperIs
    <2>5. \A i \in 1 .. k - 1 : i \in 1 .. k
      BY <1>3
    <2>6. \A word : StartsWith(stem, k - 1, word) <=> StartsWith(n, k - 1, word)
      BY <1>2, <2>5 DEF StartsWith
    <2> QED BY <2>2, <2>4, <2>6
  <1>8. Reserved(n) <=> \/ UpperCase(stem) \in Device
                        \/ /\ stem # <<>> /\ UpperCase(Front(stem)) \in NumberedDevice
                           /\ Last(stem) \in Digit1to9
    BY DEF Reserved
  <1> HIDE DEF stem
  <1>9. Reserved(n) <=> DeviceAt(n, k)
    BY <1>5, <1>6, <1>7, <1>8 DEF DeviceAt
  <1>10. ASSUME NEW j \in 0 .. Len(n), DeviceAt(n, j), j = Len(n) \/ n[j + 1] = Dot
         PROVE  j = k
    <2>1. j \in Nat /\ j <= Len(n) /\ \A i \in 1 .. j : n[i] # Dot
      BY <1>3, <1>10, NoDotInDevice
    <2>2. ~(j < k)
      <3>1. j < k => j + 1 \in 1 .. k /\ j # Len(n)
        BY <1>3, <2>1
      <3> QED BY <1>1, <1>10, <3>1
    <2>3. ~(k < j)
      <3>1. k < j => k + 1 \in 1 .. j /\ k # Len(n)
        BY <1>3, <2>1
      <3> QED BY <1>1, <2>1, <3>1
    <2> QED BY <1>3, <2>1, <2>2, <2>3
  <1> QED BY <1>1, <1>9, <1>10

\* Names that agree up to a place have the same devices there.
LEMMA SameDevice ==
  ASSUME NEW m, NEW n, NEW k \in Nat, \A i \in 1 .. k : m[i] = n[i]
  PROVE  DeviceAt(m, k) <=> DeviceAt(n, k)
  <1>1. k > 0 => k \in 1 .. k /\ \A i \in 1 .. k - 1 : i \in 1 .. k
    OBVIOUS
  <1>2. \A word : StartsWith(m, k, word) <=> StartsWith(n, k, word)
    BY DEF StartsWith
  <1>3. k > 0 => /\ m[k] = n[k]
                 /\ \A word : StartsWith(m, k - 1, word) <=> StartsWith(n, k - 1, word)
    BY <1>1 DEF StartsWith
  <1> QED BY <1>2, <1>3 DEF DeviceAt

\* A name without the bytes that Windows forbids and without a dot or a space at its end.
Clean(n) == /\ n \in Seq(Byte) /\ n # <<>> /\ Len(n) <= FilenameMax
            /\ \A i \in 1 .. Len(n) : n[i] \notin Forbidden
            /\ Last(n) \notin {Dot, Space}

\* The staging name of a file is a device's only if the name is.
LEMMA OrdinaryIs ==
  ASSUME NEW n \in Seq(Byte)
  PROVE  Ordinary(n) <=> Clean(n) /\ ~Reserved(n)
  <1> DEFINE p == n \o PartSuffix
             Free(entry) ==
               \A k \in DOMAIN entry :
                 k = Len(entry) \/ entry[k + 1] = Dot =>
                    /\ UpperCase(SubSeq(entry, 1, k)) \notin Device
                    /\ ~(UpperCase(SubSeq(entry, 1, k - 1)) \in NumberedDevice
                           /\ entry[k] \in Digit1to9)
  <1>1. Ordinary(n) <=> /\ n # <<>> /\ Len(n) <= FilenameMax
                        /\ ToSet(n) \cap Forbidden = {} /\ Last(n) \notin {Dot, Space}
                        /\ Free(n) /\ Free(p)
    BY DEF Ordinary
  <1>2. ToSet(n) \cap Forbidden = {} <=> \A i \in 1 .. Len(n) : n[i] \notin Forbidden
    BY DEF ToSet
  <1>3. /\ PartSuffix \in Seq(Byte) /\ PartSuffix[1] = Dot /\ Len(PartSuffix) >= 1
        /\ Device \subseteq Seq(Byte) /\ NumberedDevice \subseteq Seq(Byte)
    <2>1. /\ Seq(Byte \ {Dot, Underscore}) \subseteq Seq(Byte)
          /\ Seq(Byte \ {Backslash}) \subseteq Seq(Byte)
      OBVIOUS
    <2>2. PartSuffix \in Seq(Byte) /\ PartSuffix # <<>> /\ PartSuffix[1] = Dot
      BY <2>1, NameAssumption
    <2> QED BY <2>1, <2>2, NameAssumption
  <1>4. ASSUME NEW entry \in Seq(Byte)
        PROVE  Free(entry) <=> ~Reserved(entry)
    <2>1. DOMAIN entry = 1 .. Len(entry) /\ Len(entry) \in Nat
      OBVIOUS
    <2>2. \A k \in 1 .. Len(entry) :
             /\ k \in 0 .. Len(entry) /\ k - 1 \in 0 .. Len(entry) /\ k > 0
             /\ UpperCase(SubSeq(entry, 1, k)) \in Device <=>
                   \E word \in Device : StartsWith(entry, k, word)
             /\ UpperCase(SubSeq(entry, 1, k - 1)) \in NumberedDevice <=>
                   \E word \in NumberedDevice : StartsWith(entry, k - 1, word)
      <3> TAKE k \in 1 .. Len(entry)
      <3>1. k \in 0 .. Len(entry) /\ k - 1 \in 0 .. Len(entry) /\ k > 0
        BY <2>1
      <3> QED BY <1>3, <3>1, UpperIs
    <2>3. Free(entry) <=> \A k \in 1 .. Len(entry) :
                             k = Len(entry) \/ entry[k + 1] = Dot => ~DeviceAt(entry, k)
      BY <2>1, <2>2 DEF DeviceAt
    <2>4. \A k \in 0 .. Len(entry) : DeviceAt(entry, k) => k \in 1 .. Len(entry)
      BY <2>1, NoDotInDevice
    <2> HIDE DEF Free
    <2> QED BY <2>2, <2>3, <2>4, ReservedIs
  <1> HIDE DEF Free
  <1>5. /\ p \in Seq(Byte) /\ Len(p) = Len(n) + Len(PartSuffix)
        /\ \A i \in 1 .. Len(n) : p[i] = n[i]
        /\ \A i \in 1 .. Len(PartSuffix) : p[Len(n) + i] = PartSuffix[i]
    BY <1>3, Joined
  <1> HIDE DEF p
  <1>6. Reserved(p) => Reserved(n)
    <2> HAVE Reserved(p)
    <2>1. PICK k \in 0 .. Len(p) : DeviceAt(p, k) /\ (k = Len(p) \/ p[k + 1] = Dot)
      BY <1>5, ReservedIs
    <2>2. \A i \in 1 .. k : p[i] # Dot
      BY <1>5, <2>1, NoDotInDevice
    <2>3. Len(n) \in Nat /\ Len(PartSuffix) \in Nat /\ k \in Nat
      BY <1>3, <1>5
    <2>4. p[Len(n) + 1] = Dot
      BY <1>3, <1>5, <2>3
    <2>5. k <= Len(n)
      <3>1. k > Len(n) => Len(n) + 1 \in 1 .. k
        BY <2>3
      <3> QED BY <2>2, <2>3, <2>4, <3>1
    <2>6. \A i \in 1 .. k : p[i] = n[i]
      BY <1>5, <2>3, <2>5
    <2>7. DeviceAt(n, k)
      BY <2>1, <2>3, <2>6, SameDevice
    <2>8. k = Len(n) \/ n[k + 1] = Dot
      <3>1. k # Len(n) => k + 1 \in 1 .. Len(n) /\ k # Len(p)
        BY <1>5, <2>3, <2>5
      <3> QED BY <1>5, <2>1, <3>1
    <2> QED BY <2>3, <2>5, <2>7, <2>8, ReservedIs
  <1>7. Free(n) /\ Free(p) <=> ~Reserved(n)
    BY <1>4, <1>5, <1>6
  <1> QED BY <1>1, <1>2, <1>7 DEF Clean

\* What TrimEnd leaves.
LEMMA TrimEndIs ==
  ASSUME NEW n \in Seq(Byte)
  PROVE  \E k \in 0 .. Len(n) : /\ TrimEnd(n) = SubSeq(n, 1, k)
                                /\ \A i \in k + 1 .. Len(n) : n[i] \in {Dot, Space}
                                /\ k = 0 \/ n[k] \notin {Dot, Space}
  <1> DEFINE K == {k \in 0 .. Len(n) : \A i \in k + 1 .. Len(n) : n[i] \in {Dot, Space}}
             k == Min(K)
  <1>1. Len(n) \in Nat
    OBVIOUS
  <1>2. TrimEnd(n) = SubSeq(n, 1, k)
    BY DEF TrimEnd
  <1>3. K \in SUBSET Nat
    BY <1>1
  <1>4. Len(n) \in K
    <2>1. Len(n) \in 0 .. Len(n) /\ \A i \in Len(n) + 1 .. Len(n) : FALSE
      BY <1>1
    <2> QED BY <2>1
  <1>5. k \in K /\ \A j \in K : k <= j
    BY <1>3, <1>4, LeastMember
  <1> HIDE DEF k
  <1>6. k \in 0 .. Len(n) /\ \A i \in k + 1 .. Len(n) : n[i] \in {Dot, Space}
    BY <1>5
  <1>7. k = 0 \/ n[k] \notin {Dot, Space}
    <2> SUFFICES ASSUME k # 0, n[k] \in {Dot, Space} PROVE FALSE
      OBVIOUS
    <2>1. /\ k - 1 \in 0 .. Len(n) /\ ~(k <= k - 1)
          /\ \A i \in (k - 1) + 1 .. Len(n) : i = k \/ i \in k + 1 .. Len(n)
      BY <1>1, <1>6
    <2>2. k - 1 \in K
      BY <1>6, <2>1
    <2> QED BY <1>5, <2>1, <2>2
  <1> QED BY <1>2, <1>6, <1>7

\* What Replaced leaves.
LEMMA ReplacedIs ==
  ASSUME NEW n \in Seq(Byte)
  PROVE  /\ Replaced(n) \in Seq(Byte) /\ Len(Replaced(n)) = Len(n)
         /\ \A i \in 1 .. Len(n) :
               /\ Replaced(n)[i] = IF n[i] \in Forbidden THEN Underscore ELSE n[i]
               /\ Replaced(n)[i] \notin Forbidden
               /\ Replaced(n)[i] = Dot <=> n[i] = Dot
  <1>1. /\ Underscore \in Byte /\ Underscore \notin Forbidden /\ Dot \notin Forbidden
        /\ Underscore # Dot
    BY NameAssumption
  <1>2. Len(n) \in Nat /\ DOMAIN n = 1 .. Len(n) /\ \A i \in 1 .. Len(n) : n[i] \in Byte
    OBVIOUS
  <1> DEFINE r == [i \in 1 .. Len(n) |-> IF n[i] \in Forbidden THEN Underscore ELSE n[i]]
  <1>3. Replaced(n) = r
    BY <1>2 DEF Replaced
  <1>4. r \in Seq(Byte) /\ Len(r) = Len(n)
    BY <1>1, <1>2
  <1>5. \A i \in 1 .. Len(n) : r[i] = IF n[i] \in Forbidden THEN Underscore ELSE n[i]
    OBVIOUS
  <1> HIDE DEF r
  <1> QED BY <1>1, <1>3, <1>4, <1>5

\* The candidate of pd_filename_sanitize.
Candidate(n) ==
    LET trimmed == TrimEnd(Replaced(n))
    IN  IF trimmed \in {<<>>, <<Dot>>, <<Dot, Dot>>} THEN Fallback ELSE trimmed

\* It is clean: what is left of the name, or the fallback.
LEMMA CandidateIs ==
  ASSUME NEW n \in Seq(Byte), Len(n) <= FilenameMax
  PROVE  /\ Clean(Candidate(n))
         /\ \/ Candidate(n) = Fallback
            \/ \E k \in 1 .. Len(n) : /\ Candidate(n) = SubSeq(Replaced(n), 1, k)
                                      /\ \A i \in k + 1 .. Len(n) : n[i] \in {Dot, Space}
  <1> DEFINE r == Replaced(n)
             t == TrimEnd(r)
  <1>1. /\ r \in Seq(Byte) /\ Len(r) = Len(n) /\ Len(n) \in Nat /\ FilenameMax \in Nat
        /\ \A i \in 1 .. Len(n) : /\ r[i] \notin Forbidden
                                  /\ r[i] = IF n[i] \in Forbidden THEN Underscore ELSE n[i]
    BY ReplacedIs, LimitAssumption
  <1> HIDE DEF r
  <1>2. PICK k \in 0 .. Len(r) : /\ t = SubSeq(r, 1, k)
                                 /\ \A i \in k + 1 .. Len(r) : r[i] \in {Dot, Space}
                                 /\ k = 0 \/ r[k] \notin {Dot, Space}
    BY <1>1, TrimEndIs
  <1>3. /\ t \in Seq(Byte) /\ Len(t) = k /\ (\A i \in 1 .. k : t[i] = r[i])
    BY <1>1, <1>2, Beginning
  <1> HIDE DEF t
  <1>4. k \in Nat /\ k <= Len(n) /\ k <= FilenameMax
    BY <1>1
  <1>5. Candidate(n) = IF t \in {<<>>, <<Dot>>, <<Dot, Dot>>} THEN Fallback ELSE t
    BY DEF Candidate, r, t
  <1>6. Clean(Fallback)
    <2>1. /\ Fallback \in Seq(Byte \ (Forbidden \cup {Dot, Space})) /\ FilenameMax \in Nat
          /\ Len(Fallback) \in 1 .. FilenameMax - 1
      BY NameAssumption, LimitAssumption
    <2>2. /\ Fallback \in Seq(Byte) /\ Fallback # <<>> /\ Len(Fallback) <= FilenameMax
          /\ \A i \in 1 .. Len(Fallback) : Fallback[i] \notin Forbidden \cup {Dot, Space}
          /\ Len(Fallback) \in 1 .. Len(Fallback)
      BY <2>1
    <2> QED BY <2>2 DEF Clean, Last
  <1>7. CASE k = 0
    <2>1. t = <<>>
      BY <1>3, <1>7
    <2> QED BY <1>5, <1>6, <2>1
  <1>8. CASE k # 0
    <2>1. k \in 1 .. k /\ k \in 1 .. Len(n)
      BY <1>1, <1>8
    <2>2. t # <<>> /\ Last(t) \notin {Dot, Space}
      BY <1>2, <1>3, <1>8, <2>1 DEF Last
    <2>3. t \notin {<<>>, <<Dot>>, <<Dot, Dot>>}
      <3>1. Last(<<Dot>>) = Dot /\ Last(<<Dot, Dot>>) = Dot
        BY DEF Last
      <3> QED BY <2>2, <3>1
    <2>4. \A i \in 1 .. k : t[i] \notin Forbidden
      BY <1>1, <1>3, <1>4
    <2>5. Clean(t)
      BY <1>3, <1>4, <2>2, <2>4 DEF Clean
    <2>6. \A i \in k + 1 .. Len(n) : n[i] \in {Dot, Space}
      <3>1. \A i \in k + 1 .. Len(n) : i \in 1 .. Len(n) /\ i \in k + 1 .. Len(r)
        BY <1>1, <1>4
      <3>2. Underscore \notin {Dot, Space}
        BY NameAssumption
      <3> QED BY <1>1, <1>2, <3>1, <3>2
    <2> QED BY <1>2, <1>5, <2>1, <2>3, <2>5, <2>6 DEF r
  <1> QED BY <1>7, <1>8

\* The prefix makes a name that is no device's.
LEMMA PrefixedIs ==
  ASSUME NEW c, Clean(c), Len(c) <= FilenameMax - 1
  PROVE  /\ Clean(<<Underscore>> \o c) /\ ~Reserved(<<Underscore>> \o c)
         /\ Len(<<Underscore>> \o c) = Len(c) + 1 /\ (<<Underscore>> \o c)[1] = Underscore
         /\ \A i \in 1 .. Len(c) : (<<Underscore>> \o c)[i + 1] = c[i]
  <1> DEFINE u == <<Underscore>>
             x == u \o c
  <1>1. /\ Underscore \in Byte \ Forbidden /\ FilenameMax \in Nat
        /\ c \in Seq(Byte) /\ c # <<>> /\ Last(c) \notin {Dot, Space}
        /\ \A i \in 1 .. Len(c) : c[i] \notin Forbidden
    BY NameAssumption, LimitAssumption DEF Clean
  <1>2. u \in Seq(Byte) /\ Len(u) = 1 /\ u[1] = Underscore
    BY <1>1
  <1> HIDE DEF u
  <1>3. u \in Seq(Byte)
    BY <1>2
  <1>4. /\ x \in Seq(Byte) /\ Len(x) = Len(u) + Len(c)
        /\ \A i \in 1 .. Len(u) : x[i] = u[i]
        /\ \A i \in 1 .. Len(c) : x[Len(u) + i] = c[i]
    BY <1>1, <1>3, Joined
  <1> HIDE DEF x
  <1>5. Len(c) \in Nat /\ Len(c) > 0
    BY <1>1
  <1>6. /\ Len(x) = Len(c) + 1 /\ x[1] = Underscore
        /\ \A i \in 1 .. Len(c) : x[i + 1] = c[i]
    <2>1. 1 \in 1 .. Len(u) /\ \A i \in 1 .. Len(c) : Len(u) + i = i + 1
      BY <1>2, <1>5
    <2> QED BY <1>2, <1>4, <1>5, <2>1
  <1> HIDE <1>2
  <1>7. \A i \in 1 .. Len(x) : i = 1 \/ (i - 1 \in 1 .. Len(c) /\ (i - 1) + 1 = i)
    BY <1>5, <1>6
  <1>8. \A i \in 1 .. Len(x) : x[i] \notin Forbidden
    BY <1>1, <1>6, <1>7
  <1>9. x # <<>> /\ Last(x) = Last(c)
    <2>1. Len(c) \in 1 .. Len(c) /\ Len(x) = Len(c) + 1 /\ Len(x) # 0
      BY <1>5, <1>6
    <2> QED BY <1>4, <1>6, <2>1 DEF Last
  <1>10. Clean(x)
    BY <1>1, <1>4, <1>5, <1>6, <1>8, <1>9 DEF Clean
  <1>11. ~Reserved(x)
    <2>1. ASSUME NEW k \in 0 .. Len(x), DeviceAt(x, k) PROVE FALSE
      <3>1. k > 0 /\ \A i \in 1 .. k : x[i] # Underscore
        BY <1>4, <2>1, NoDotInDevice
      <3>2. 1 \in 1 .. k
        BY <3>1
      <3> QED BY <1>6, <3>1, <3>2
    <2> QED BY <1>4, <2>1, ReservedIs
  <1> QED BY <1>6, <1>10, <1>11 DEF x, u

\* pd_filename_sanitize by cases.
LEMMA SanitizeIs ==
  ASSUME NEW n \in Seq(Byte), Len(n) <= FilenameMax
  PROVE  /\ ~Reserved(Candidate(n)) => Sanitize(n) = Candidate(n)
         /\ Reserved(Candidate(n)) =>
               /\ Len(Candidate(n)) <= FilenameMax - 1 =>
                     Sanitize(n) = <<Underscore>> \o Candidate(n)
               /\ ~(Len(Candidate(n)) <= FilenameMax - 1) => Sanitize(n) = None
  <1> DEFINE c == Candidate(n)
             prefix == IF Reserved(c) THEN <<Underscore>> ELSE <<>>
  <1>1. Sanitize(n) = IF Len(n) > FilenameMax \/ Len(c) > FilenameMax - Len(prefix)
                      THEN None ELSE prefix \o c
    BY DEF Sanitize, Candidate
  <1>2. c \in Seq(Byte) /\ Len(c) \in Nat /\ Len(c) <= FilenameMax
    BY CandidateIs DEF Clean
  <1>3. Len(n) \in Nat /\ FilenameMax \in Nat
    BY LimitAssumption
  <1> HIDE DEF c
  <1>4. Len(<<>>) = 0 /\ Len(<<Underscore>>) = 1
    OBVIOUS
  <1>5. <<>> \o c = c
    BY <1>2
  <1>6. CASE ~Reserved(c)
    <2>1. prefix = <<>>
      BY <1>6
    <2> HIDE DEF prefix
    <2>2. FilenameMax - Len(prefix) = FilenameMax
      BY <1>3, <1>4, <2>1
    <2>3. ~(Len(n) > FilenameMax) /\ ~(Len(c) > FilenameMax - Len(prefix))
      BY <1>2, <1>3, <2>2
    <2> QED BY <1>1, <1>5, <1>6, <2>1, <2>3 DEF c
  <1>7. CASE Reserved(c)
    <2>1. prefix = <<Underscore>>
      BY <1>7
    <2> HIDE DEF prefix
    <2>2. FilenameMax - Len(prefix) = FilenameMax - 1
      BY <1>4, <2>1
    <2>3. /\ ~(Len(n) > FilenameMax)
          /\ Len(c) > FilenameMax - Len(prefix) <=> ~(Len(c) <= FilenameMax - 1)
      BY <1>2, <1>3, <2>2
    <2> QED BY <1>1, <1>7, <2>1, <2>3 DEF c
  <1> QED BY <1>6, <1>7 DEF c

\* The name that pd_filename_sanitize makes is that of an ordinary file.
LEMMA SanitizeSafe ==
  ASSUME NEW n \in Seq(Byte), Len(n) <= FilenameMax, Sanitize(n) # None
  PROVE  Sanitize(n) \in Seq(Byte) /\ Ordinary(Sanitize(n))
  <1>1. Clean(Candidate(n))
    BY CandidateIs
  <1>2. Clean(Sanitize(n)) /\ ~Reserved(Sanitize(n))
    <2>1. CASE ~Reserved(Candidate(n))
      BY <1>1, <2>1, SanitizeIs
    <2>2. CASE Reserved(Candidate(n))
      <3>1. /\ Len(Candidate(n)) <= FilenameMax - 1
            /\ Sanitize(n) = <<Underscore>> \o Candidate(n)
        BY <2>2, SanitizeIs
      <3> HIDE DEF Candidate
      <3> QED BY Zenon, <1>1, <3>1, PrefixedIs
    <2> QED BY <2>1, <2>2
  <1>3. Sanitize(n) \in Seq(Byte)
    BY <1>2 DEF Clean
  <1> QED BY <1>2, <1>3, OrdinaryIs

\* It leaves such a name alone.
LEMMA SanitizeKeeps ==
  ASSUME NEW n \in Seq(Byte), Ordinary(n)
  PROVE  Sanitize(n) = n
  <1>1. /\ Clean(n) /\ ~Reserved(n)
    BY OrdinaryIs
  <1>2. /\ n # <<>> /\ Len(n) <= FilenameMax /\ Last(n) \notin {Dot, Space}
        /\ \A i \in 1 .. Len(n) : n[i] \notin Forbidden
    BY <1>1 DEF Clean
  <1>3. Len(n) \in Nat /\ Len(n) # 0 /\ DOMAIN n = 1 .. Len(n)
    BY <1>2
  <1>4. Replaced(n) = n
    BY <1>2, <1>3 DEF Replaced
  <1>5. PICK k \in 0 .. Len(n) : /\ TrimEnd(n) = SubSeq(n, 1, k)
                                 /\ \A i \in k + 1 .. Len(n) : n[i] \in {Dot, Space}
    BY TrimEndIs
  <1>6. k = Len(n)
    <2>1. \A a \in Nat : \A b \in 0 .. a : b # a => a \in b + 1 .. a
      OBVIOUS
    <2>2. k # Len(n) => Len(n) \in k + 1 .. Len(n)
      BY Zenon, <1>3, <2>1
    <2> QED BY <1>2, <1>5, <2>2 DEF Last
  <1>7. TrimEnd(Replaced(n)) = n
    <2>1. SubSeq(n, 1, Len(n)) = n
      OBVIOUS
    <2> QED BY <1>4, <1>5, <1>6, <2>1
  <1>8. n \notin {<<>>, <<Dot>>, <<Dot, Dot>>}
    <2>1. Last(<<Dot>>) = Dot /\ Last(<<Dot, Dot>>) = Dot
      BY DEF Last
    <2> QED BY <1>2, <2>1
  <1>9. Candidate(n) = n
    BY <1>7, <1>8 DEF Candidate
  <1> QED BY <1>1, <1>2, <1>9, SanitizeIs

\* It cuts no character in two.
LEMMA SanitizeUtf8 ==
  ASSUME NEW n \in Seq(Byte), Len(n) <= FilenameMax, Sanitize(n) # None, ValidUtf8(n)
  PROVE  ValidUtf8(Sanitize(n))
  <1> DEFINE c == Candidate(n)
             r == Replaced(n)
  <1>1. /\ Lead \cap (Forbidden \cup {Dot, Space, Underscore}) = {}
        /\ Continuation \cap (Forbidden \cup {Dot, Space, Underscore}) = {}
    BY NameAssumption
  <1>2. /\ Clean(c)
        /\ \/ c = Fallback
           \/ \E k \in 1 .. Len(n) : /\ c = SubSeq(r, 1, k)
                                     /\ \A i \in k + 1 .. Len(n) : n[i] \in {Dot, Space}
    BY CandidateIs
  <1>3. c \in Seq(Byte) /\ Len(c) \in Nat /\ DOMAIN c = 1 .. Len(c)
    BY <1>2 DEF Clean
  <1>4. ValidUtf8(c)
    <2>1. CASE c = Fallback
      BY <2>1, NameAssumption
    <2>2. ASSUME NEW k \in 1 .. Len(n), c = SubSeq(r, 1, k),
                 \A i \in k + 1 .. Len(n) : n[i] \in {Dot, Space}
          PROVE  ValidUtf8(c)
      <3>1. /\ r \in Seq(Byte) /\ Len(r) = Len(n) /\ Len(n) \in Nat
            /\ \A i \in 1 .. Len(n) : r[i] = IF n[i] \in Forbidden THEN Underscore ELSE n[i]
        BY ReplacedIs
      <3> HIDE DEF r, c
      <3>2. k \in 0 .. Len(r) /\ k \in Nat /\ k <= Len(n)
        BY <3>1
      <3>3. Len(c) = k /\ \A i \in 1 .. k : c[i] = r[i]
        BY <2>2, <3>1, <3>2, Beginning
      <3>4. \A i \in 1 .. k : /\ i \in 1 .. Len(n)
                              /\ c[i] \in Lead <=> n[i] \in Lead
                              /\ c[i] \in Continuation <=> n[i] \in Continuation
        <4> TAKE i \in 1 .. k
        <4>1. i \in 1 .. Len(n)
          BY <3>1, <3>2
        <4>2. c[i] = IF n[i] \in Forbidden THEN Underscore ELSE n[i]
          BY <3>1, <3>3, <4>1
        <4> QED BY <1>1, <4>1, <4>2
      <3>5. DOMAIN n = 1 .. Len(n) /\ DOMAIN c = 1 .. k
        BY <1>3, <3>3
      <3>6. ASSUME NEW i \in 1 .. k
            PROVE  /\ c[i] \in Lead => i < k /\ c[i + 1] \in Continuation
                   /\ c[i] \in Continuation => i > 1 /\ c[i - 1] \in Lead
        <4>1. /\ n[i] \in Lead => i < Len(n) /\ n[i + 1] \in Continuation
              /\ n[i] \in Continuation => i > 1 /\ n[i - 1] \in Lead
          BY <3>4, <3>5 DEF ValidUtf8
        <4>2. i = k /\ i < Len(n) => i + 1 \in k + 1 .. Len(n)
          BY <3>1, <3>2
        <4>3. n[i] \in Lead => i # k
          BY <1>1, <2>2, <4>1, <4>2
        <4>4. i # k => i < k /\ i + 1 \in 1 .. k
          BY <3>2
        <4>5. i > 1 => i - 1 \in 1 .. k
          BY <3>2
        <4> QED BY <3>4, <4>1, <4>3, <4>4, <4>5
      <3> QED BY <3>3, <3>5, <3>6 DEF ValidUtf8
    <2> QED BY <1>2, <2>1, <2>2
  <1>5. CASE ~Reserved(c)
    BY <1>4, <1>5, SanitizeIs
  <1>6. CASE Reserved(c)
    <2>1. Len(c) <= FilenameMax - 1 /\ Sanitize(n) = <<Underscore>> \o c
      BY <1>6, SanitizeIs
    <2> DEFINE x == <<Underscore>> \o c
    <2> HIDE DEF c
    <2>2. /\ Clean(x) /\ Len(x) = Len(c) + 1 /\ x[1] = Underscore
          /\ \A i \in 1 .. Len(c) : x[i + 1] = c[i]
      BY <1>2, <2>1, PrefixedIs
    <2>3. Sanitize(n) = x
      BY <2>1
    <2> HIDE DEF x
    <2> HIDE <2>1
    <2>4. x \in Seq(Byte)
      BY <2>2 DEF Clean
    <2>5. DOMAIN x = 1 .. Len(x)
      BY <2>4
    <2>6. ASSUME NEW i \in 1 .. Len(x)
          PROVE  /\ x[i] \in Lead => i < Len(x) /\ x[i + 1] \in Continuation
                 /\ x[i] \in Continuation => i > 1 /\ x[i - 1] \in Lead
      <3>1. CASE i = 1
        BY <1>1, <2>2, <3>1
      <3>2. CASE i # 1
        <4>1. i - 1 \in 1 .. Len(c) /\ (i - 1) + 1 = i
          BY <1>3, <2>2, <3>2
        <4>2. x[i] = c[i - 1]
          BY <2>2, <4>1
        <4>3. /\ c[i - 1] \in Lead => i - 1 < Len(c) /\ c[(i - 1) + 1] \in Continuation
              /\ c[i - 1] \in Continuation => i - 1 > 1 /\ c[(i - 1) - 1] \in Lead
          BY <1>3, <1>4, <4>1 DEF ValidUtf8
        <4>4. i - 1 < Len(c) => i < Len(x) /\ i \in 1 .. Len(c)
          BY <1>3, <2>2, <4>1
        <4>5. i - 1 > 1 => i > 1 /\ (i - 1) - 1 \in 1 .. Len(c) /\ ((i - 1) - 1) + 1 = i - 1
          BY <1>3, <2>2, <4>1
        <4> QED BY <2>2, <4>1, <4>2, <4>3, <4>4, <4>5
      <3> QED BY <3>1, <3>2
    <2> QED BY <2>3, <2>5, <2>6 DEF ValidUtf8
  <1> QED BY <1>5, <1>6

\* A name is refused only if it is a device's and leaves no room for the prefix.
LEMMA SanitizeRefuses ==
  ASSUME NEW n \in Seq(Byte), Len(n) <= FilenameMax, Sanitize(n) = None
  PROVE  Len(n) = FilenameMax /\ Reserved(n)
  <1> DEFINE c == Candidate(n)
             r == Replaced(n)
  <1>1. /\ Clean(c)
        /\ \/ c = Fallback
           \/ \E k \in 1 .. Len(n) : c = SubSeq(r, 1, k)
    BY CandidateIs
  <1>2. c \in Seq(Byte) /\ c # None /\ Len(c) \in Nat /\ Len(c) <= FilenameMax
    BY <1>1, IntakeAssumption DEF Clean
  <1>3. FilenameMax \in Nat /\ Len(n) \in Nat /\ Len(Fallback) \in 1 .. FilenameMax - 1
    BY LimitAssumption, NameAssumption
  <1>4. Reserved(c)
    BY <1>2, SanitizeIs
  <1>5. Len(c) = FilenameMax
    <2>1. Len(c) <= FilenameMax - 1 => Sanitize(n) = <<Underscore>> \o c
      BY <1>4, SanitizeIs
    <2>2. Len(c) <= FilenameMax - 1 => <<Underscore>> \o c \in Seq(Byte)
      <3> HIDE DEF c
      <3> HAVE Len(c) <= FilenameMax - 1
      <3>1. Clean(<<Underscore>> \o c)
        BY <1>1, PrefixedIs
      <3> DEFINE x == <<Underscore>> \o c
      <3> HIDE DEF x
      <3>2. Clean(x)
        BY <3>1 DEF x
      <3>3. x \in Seq(Byte)
        BY <3>2 DEF Clean
      <3> QED BY Zenon, <3>3 DEF x
    <2> HIDE DEF c
    <2> DEFINE y == <<Underscore>> \o c
    <2>3. Len(c) <= FilenameMax - 1 => Sanitize(n) \in Seq(Byte)
      BY Zenon, <2>1, <2>2
    <2>4. ~(Len(c) <= FilenameMax - 1)
      BY <2>3, IntakeAssumption
    <2> QED BY <1>2, <1>3, <2>4
  <1>6. /\ r \in Seq(Byte) /\ Len(r) = Len(n)
        /\ \A i \in 1 .. Len(n) : /\ r[i] = IF n[i] \in Forbidden THEN Underscore ELSE n[i]
                                  /\ r[i] = Dot <=> n[i] = Dot
    BY ReplacedIs
  <1> HIDE DEF c, r
  <1>7. PICK k \in 1 .. Len(n) : c = SubSeq(r, 1, k)
    <2>1. c # Fallback
      BY <1>3, <1>5
    <2> QED BY <1>1, <2>1
  <1>8. k \in 0 .. Len(r)
    BY <1>6
  <1>9. Len(c) = k /\ \A i \in 1 .. k : c[i] = r[i]
    BY <1>6, <1>7, <1>8, Beginning
  <1>10. k = Len(n) /\ Len(n) = FilenameMax
    BY <1>3, <1>5, <1>9
  <1>11. PICK j \in 0 .. Len(c) : DeviceAt(c, j) /\ (j = Len(c) \/ c[j + 1] = Dot)
    BY <1>2, <1>4, ReservedIs
  <1>12. j \in Nat /\ j <= Len(n)
    BY <1>2, <1>9, <1>10
  <1>13. \A i \in 1 .. j : c[i] = n[i]
    <2>1. \A i \in 1 .. j : c[i] # Underscore
      BY <1>2, <1>11, NoDotInDevice
    <2>2. \A i \in 1 .. j : i \in 1 .. Len(n) /\ i \in 1 .. k
      BY <1>3, <1>10, <1>12
    <2> QED BY <1>6, <1>9, <2>1, <2>2
  <1>14. DeviceAt(n, j)
    BY <1>11, <1>12, <1>13, SameDevice
  <1>15. j = Len(n) \/ n[j + 1] = Dot
    <2>1. j # Len(n) => j + 1 \in 1 .. Len(n) /\ j # Len(c)
      BY <1>3, <1>9, <1>10, <1>12
    <2> QED BY <1>6, <1>9, <1>10, <1>11, <2>1
  <1>16. Reserved(n)
    BY <1>12, <1>14, <1>15, ReservedIs
  <1> QED BY <1>10, <1>16

\* pd_win32_append_component: the path, a separator unless it ends with one, and the
\* component, if that fits.
LEMMA AppendIs ==
  ASSUME NEW path \in Seq(Byte), path # <<>>, NEW component \in Seq(Byte)
  PROVE  LET extended == AppendComponent(path, component)
             m == Len(path) + (IF Last(path) \in Separator THEN 0 ELSE 1)
         IN  /\ m + Len(component) + 1 > PathCapacity => extended = None
             /\ ~(m + Len(component) + 1 > PathCapacity) =>
                   /\ extended # None
                   /\ extended \in Seq(Byte) /\ Len(extended) = m + Len(component)
                   /\ \A i \in 1 .. Len(component) : extended[m + i] = component[i]
                   /\ Last(path) \notin Separator =>
                         /\ SubSeq(extended, 1, m) = path \o <<Backslash>>
                         /\ From(extended, m) = component
  <1> DEFINE separator == IF Last(path) \in Separator THEN <<>> ELSE <<Backslash>>
             q == path \o separator
             e == q \o component
             m == Len(path) + (IF Last(path) \in Separator THEN 0 ELSE 1)
  <1>1. AppendComponent(path, component) = IF Len(e) + 1 > PathCapacity THEN None ELSE e
    BY DEF AppendComponent
  <1>2. Backslash \in Byte
    BY NameAssumption DEF Separator
  <1>3. separator \in Seq(Byte) /\ Len(separator) = IF Last(path) \in Separator THEN 0 ELSE 1
    BY <1>2
  <1>4. Last(path) \notin Separator => q = path \o <<Backslash>>
    OBVIOUS
  <1> HIDE DEF separator
  <1>5. separator \in Seq(Byte) /\ Len(separator) \in Nat
    BY <1>3
  <1>6. q \in Seq(Byte) /\ Len(q) = Len(path) + Len(separator)
    BY <1>5, Joined
  <1> HIDE DEF q
  <1>7. Len(q) = m
    BY <1>3, <1>6
  <1>8. /\ e \in Seq(Byte) /\ Len(e) = Len(q) + Len(component)
        /\ \A i \in 1 .. Len(q) : e[i] = q[i]
        /\ \A i \in 1 .. Len(component) : e[Len(q) + i] = component[i]
    <2>1. q \in Seq(Byte)
      BY <1>6
    <2> HIDE <1>6
    <2> QED BY <2>1, Joined
  <1> HIDE DEF e, m
  <1>9. Len(q) \in Nat /\ Len(component) \in Nat
    BY <1>6
  <1>10. SubSeq(e, 1, m) = q
    <2>1. m \in 0 .. Len(e)
      BY <1>7, <1>8, <1>9
    <2>2. /\ SubSeq(e, 1, m) \in Seq(Byte) /\ Len(SubSeq(e, 1, m)) = m
          /\ \A i \in 1 .. m : SubSeq(e, 1, m)[i] = e[i]
      BY <1>8, <2>1, Beginning
    <2> DEFINE s == SubSeq(e, 1, m)
    <2> HIDE DEF s
    <2>3. /\ s \in Seq(Byte) /\ Len(s) = Len(q) /\ \A i \in 1 .. Len(q) : s[i] = q[i]
      BY <1>7, <1>8, <2>2 DEF s
    <2>4. s = q
      BY <1>6, <2>3
    <2> QED BY <2>4 DEF s
  <1>11. From(e, m) = component
    <2>1. m \in Nat /\ m <= Len(e) /\ Len(e) = m + Len(component) /\ Holds(e, m, component)
      BY <1>7, <1>8, <1>9 DEF Holds
    <2> QED BY <1>8, <2>1, Rest
  <1>12. e # None
    BY <1>8, IntakeAssumption
  <1>13. Len(e) = m + Len(component)
    BY <1>7, <1>8
  <1>14. \A i \in 1 .. Len(component) : e[m + i] = component[i]
    BY <1>7, <1>8
  <1>15. ~(m + Len(component) + 1 > PathCapacity) => AppendComponent(path, component) = e
    BY <1>1, <1>13
  <1>16. m + Len(component) + 1 > PathCapacity => AppendComponent(path, component) = None
    BY <1>1, <1>13
  <1>17. e \in Seq(Byte)
    BY <1>8
  <1> HIDE DEF AppendComponent
  <1>18. ~(m + Len(component) + 1 > PathCapacity) =>
            /\ AppendComponent(path, component) # None
            /\ AppendComponent(path, component) \in Seq(Byte)
            /\ Len(AppendComponent(path, component)) = m + Len(component)
            /\ \A i \in 1 .. Len(component) : AppendComponent(path, component)[m + i] = component[i]
            /\ Last(path) \notin Separator =>
                  /\ SubSeq(AppendComponent(path, component), 1, m) = path \o <<Backslash>>
                  /\ From(AppendComponent(path, component), m) = component
    BY Zenon, <1>4, <1>10, <1>11, <1>12, <1>13, <1>14, <1>15, <1>17
  <1> QED BY Zenon, <1>16, <1>18 DEF m

\* The length of the staging path.
StagingLength ==
    Len(root) + (IF Last(root) \in Separator THEN 0 ELSE 1) + JobIdChars + 1
      + Len(Wide(name)) + Len(PartSuffix)

\* pd_win32_file_sink_init, of a name that pd_filename_sanitize made.
LEMMA SinkIs ==
  ASSUME root \in Root, NEW id \in [1 .. JobIdChars -> HexDigit],
         name \in Seq(Byte), Ordinary(name), sink = SinkInit(root, id, name)
  PROVE  /\ sink.result \in {"OK", "INVALID_UTF8", "PATH_TOO_LONG"}
         /\ sink.result = "INVALID_UTF8" => ~ValidUtf8(name)
         /\ sink.result = "PATH_TOO_LONG" => StagingLength > PathCapacity - 1
         /\ sink.result = "OK" => PathsApart
  <1> DEFINE w == Wide(name)
             job == AppendComponent(root, id)
             final == AppendComponent(job, w)
             staging == AppendComponent(job, w \o PartSuffix)
             long == \/ Len(root) + 1 > PathCapacity \/ job = None \/ final = None \/ staging = None
  <1>1. JobIdValid(id) /\ id \in Seq(Byte) /\ Len(id) = JobIdChars /\ JobIdChars \in Nat
        /\ JobIdChars # 0 /\ \A i \in 1 .. JobIdChars : id[i] \notin Separator
    <2>1. JobIdChars \in Nat /\ JobIdChars # 0 /\ HexDigit \subseteq Byte \ Separator
      BY PathAssumption
    <2>2. id \in Seq(HexDigit) /\ Len(id) = JobIdChars /\ DOMAIN id = 1 .. JobIdChars
          /\ \A i \in 1 .. JobIdChars : id[i] \in HexDigit
      BY <2>1
    <2>3. ToSet(id) \subseteq HexDigit
      BY <2>2 DEF ToSet
    <2> QED BY <2>1, <2>2, <2>3 DEF JobIdValid
  <1>2. Sanitize(name) = name
    BY SanitizeKeeps
  <1>3. sink = IF ~ValidUtf8(name) THEN [result |-> "INVALID_UTF8"]
               ELSE IF long THEN [result |-> "PATH_TOO_LONG"]
               ELSE [result |-> "OK", job_directory |-> job, final |-> final, staging |-> staging]
    BY <1>1, <1>2 DEF SinkInit
  <1>4. CASE ~ValidUtf8(name)
    <2>1. sink.result = "INVALID_UTF8"
      BY <1>3, <1>4
    <2> QED BY <1>4, <2>1
  <1>5. CASE ValidUtf8(name)
    <2>1. /\ PathCapacity \in Nat /\ root \in Seq(Byte) /\ root # <<>> /\ Len(root) \in Nat
      BY PathAssumption
    <2>2. w \in Seq(Byte) /\ w # <<>> /\ \A i \in 1 .. Len(w) : w[i] # Backslash
      <3>1. /\ Len(name) \in 1 .. FilenameMax /\ \A i \in 1 .. Len(name) : name[i] \notin Forbidden
        <4>1. Clean(name)
          BY OrdinaryIs
        <4>2. FilenameMax \in Nat /\ Len(name) \in Nat
          BY LimitAssumption
        <4> QED BY <4>1, <4>2 DEF Clean
      <3>2. name \in [1 .. Len(name) -> Byte]
        OBVIOUS
      <3>3. name \in UNION {[1 .. k -> Byte] : k \in 1 .. FilenameMax}
        BY <3>1, <3>2
      <3>4. w \in Seq(Byte) /\ w # <<>> /\ (Contains(w, Backslash) => Contains(name, Backslash))
        BY <1>5, <3>3, PathAssumption
      <3>5. ~Contains(name, Backslash)
        BY <3>1, NameAssumption DEF Contains, Separator
      <3> QED BY <3>4, <3>5 DEF Contains
    <2>3. Len(w) \in Nat /\ Len(w) > 0
      BY <2>2
    <2> HIDE DEF w
    <2>4. /\ PartSuffix \in Seq(Byte) /\ Len(PartSuffix) \in Nat /\ Len(PartSuffix) > 0
          /\ \A i \in 1 .. Len(PartSuffix) : PartSuffix[i] # Backslash
      <3>1. Seq(Byte \ {Backslash}) \subseteq Seq(Byte)
        OBVIOUS
      <3>2. PartSuffix \in Seq(Byte \ {Backslash}) /\ PartSuffix # <<>>
        BY NameAssumption
      <3>3. \A i \in 1 .. Len(PartSuffix) : PartSuffix[i] \in Byte \ {Backslash}
        BY <3>2
      <3>4. PartSuffix \in Seq(Byte) /\ PartSuffix # <<>>
        BY <3>1, <3>2
      <3> QED BY <3>3, <3>4
    <2> DEFINE z == w \o PartSuffix
    <2>5. /\ z \in Seq(Byte) /\ Len(z) = Len(w) + Len(PartSuffix)
          /\ \A i \in 1 .. Len(w) : z[i] = w[i]
          /\ \A i \in 1 .. Len(PartSuffix) : z[Len(w) + i] = PartSuffix[i]
      BY <2>2, <2>4, Joined
    <2>6. staging = AppendComponent(job, z)
      OBVIOUS
    <2> HIDE DEF z
    <2>7. \A i \in 1 .. Len(z) : z[i] # Backslash
      <3>1. \A i \in 1 .. Len(z) : i \in 1 .. Len(w) \/
               (i - Len(w) \in 1 .. Len(PartSuffix) /\ Len(w) + (i - Len(w)) = i)
        BY <2>3, <2>4, <2>5
      <3> QED BY <2>2, <2>4, <2>5, <3>1
    <2> DEFINE r == Len(root) + (IF Last(root) \in Separator THEN 0 ELSE 1)
               l == r + Len(id)
               m == l + 1
    <2>8. r \in Nat /\ Len(root) <= r /\ l \in Nat /\ m \in Nat /\ l = r + JobIdChars
      BY <1>1, <2>1
    <2>9. StagingLength = m + Len(z)
      <3>1. StagingLength = r + JobIdChars + 1 + Len(w) + Len(PartSuffix)
        BY Zenon DEF StagingLength, w
      <3> HIDE DEF r
      <3> QED BY <1>1, <2>3, <2>4, <2>5, <2>8, <3>1
    <2>10. /\ l + 1 > PathCapacity => job = None
           /\ ~(l + 1 > PathCapacity) =>
                 /\ job # None /\ job \in Seq(Byte) /\ Len(job) = l
                 /\ \A i \in 1 .. Len(id) : job[r + i] = id[i]
      BY <1>1, <2>1, AppendIs
    <2> HIDE DEF job, r
    <2>11. ASSUME ~(l + 1 > PathCapacity)
           PROVE  /\ job \in Seq(Byte) /\ job # <<>> /\ Last(job) \notin Separator
                  /\ Len(job) + (IF Last(job) \in Separator THEN 0 ELSE 1) = m
      <3>1. job \in Seq(Byte) /\ Len(job) = l /\ \A i \in 1 .. Len(id) : job[r + i] = id[i]
        BY <2>10, <2>11
      <3>2. l # 0 /\ JobIdChars \in 1 .. JobIdChars /\ Len(id) = JobIdChars
        BY <1>1, <2>8
      <3>3. Last(job) = id[JobIdChars]
        BY <1>1, <2>8, <3>1, <3>2 DEF Last
      <3>4. job # <<>>
        BY <3>1, <3>2
      <3> QED BY <1>1, <3>1, <3>2, <3>3, <3>4
    <2> DEFINE Fits(path, component) ==
                 /\ path # None /\ path \in Seq(Byte) /\ Len(path) = m + Len(component)
                 /\ SubSeq(path, 1, m) = job \o <<Backslash>>
                 /\ From(path, m) = component
    <2>12. ASSUME ~(l + 1 > PathCapacity), NEW component \in Seq(Byte)
           PROVE  /\ m + Len(component) + 1 > PathCapacity => AppendComponent(job, component) = None
                  /\ ~(m + Len(component) + 1 > PathCapacity) =>
                        Fits(AppendComponent(job, component), component)
      <3> DEFINE e == AppendComponent(job, component)
      <3>1. /\ job \in Seq(Byte) /\ job # <<>> /\ Last(job) \notin Separator
            /\ Len(job) + (IF Last(job) \in Separator THEN 0 ELSE 1) = m
        BY <2>11, <2>12
      <3> HIDE DEF m
      <3> QED BY <3>1, AppendIs
    <2>13. ASSUME long PROVE StagingLength > PathCapacity - 1
      <3> SUFFICES ASSUME ~(StagingLength > PathCapacity - 1) PROVE FALSE
        OBVIOUS
      <3>1. /\ ~(m + Len(z) + 1 > PathCapacity) /\ ~(m + Len(w) + 1 > PathCapacity)
            /\ ~(l + 1 > PathCapacity) /\ ~(Len(root) + 1 > PathCapacity)
        BY <2>1, <2>3, <2>4, <2>5, <2>8, <2>9
      <3>2. job # None
        BY <2>10, <3>1
      <3>3. final # None /\ staging # None
        BY <2>2, <2>5, <2>6, <2>12, <3>1
      <3> QED BY <2>13, <3>1, <3>2, <3>3
    <2>14. ASSUME ~long PROVE PathsApart
      <3>1. ~(l + 1 > PathCapacity)
        BY <2>10, <2>14
      <3>2. /\ ~(m + Len(w) + 1 > PathCapacity) /\ Fits(final, w)
            /\ ~(m + Len(z) + 1 > PathCapacity) /\ Fits(staging, z)
        BY <2>2, <2>5, <2>6, <2>12, <2>14, <3>1
      <3>3. sink.job_directory = job /\ sink.final = final /\ sink.staging = staging
        BY <1>3, <1>5, <2>14
      <3> HIDE DEF final, staging, m
      <3>4. Len(final) < PathCapacity /\ Len(staging) < PathCapacity /\ final # staging
        BY <2>1, <2>3, <2>4, <2>5, <2>8, <3>2
      <3>5. ASSUME NEW path, NEW component \in Seq(Byte), Fits(path, component),
                   Len(component) > 0, \A i \in 1 .. Len(component) : component[i] # Backslash
            PROVE  \E n \in 1 .. Len(path) :
                      /\ SubSeq(path, 1, n) = job \o <<Backslash>>
                      /\ n < Len(path) /\ ~Contains(From(path, n), Backslash)
        <4>1. m \in 1 .. Len(path) /\ m < Len(path)
          <5>1. m \in Nat /\ m > 0
            BY <2>8 DEF m
          <5>2. Len(path) = m + Len(component) /\ Len(component) \in Nat
            BY <3>5
          <5> QED BY <3>5, <5>1, <5>2
        <4>2. ~Contains(From(path, m), Backslash)
          BY <3>5 DEF Contains
        <4> QED BY <3>5, <4>1, <4>2
      <3>6. Len(z) > 0
        BY <2>3, <2>4, <2>5
      <3>7. \A path \in {final, staging} :
               \E n \in 1 .. Len(path) :
                  /\ SubSeq(path, 1, n) = job \o <<Backslash>>
                  /\ n < Len(path) /\ ~Contains(From(path, n), Backslash)
        <4> HIDE DEF Fits
        <4> QED BY <2>2, <2>3, <2>5, <2>7, <3>2, <3>5, <3>6
      <3> QED BY Zenon, <3>3, <3>4, <3>7 DEF PathsApart
    <2>15. sink.result = IF long THEN "PATH_TOO_LONG" ELSE "OK"
      BY <1>3, <1>5
    <2> HIDE DEF long
    <2> QED BY <2>13, <2>14, <2>15
  <1> QED BY <1>4, <1>5

-----------------------------------------------------------------------------
\* The inductive invariant.

Page == request # None

\* A message on its way: the page's is the one that PagePayload and encodeFrame make, and
\* it is never dropped; what the receiver holds is what it decodes.
WireInv ==
    /\ wire \in Seq(Byte)
    /\ stage \in {"idle", "unsent", "up", "dropped", "handle", "reply", "down", "read"}
    /\ proto \in {"WAIT_FILE", "RECEIVING"} /\ root \in Root
    /\ Page => /\ request \in Request /\ stage \notin {"idle", "dropped"}
               /\ request.type = FILE_BEGIN <=> proto = "WAIT_FILE"
    /\ Page /\ stage # "unsent" =>
          /\ PagePayload(request) \in Seq(Byte) /\ Len(PagePayload(request)) <= RelayMaxPayload
          /\ wire = Message(request.type, PagePayload(request))
    /\ stage \in {"idle", "unsent", "up"} => view = None
    /\ stage \in {"handle", "reply"} => view # None
    /\ view # None => view = RelayMessageDecode(wire)

\* The metadata is that of the message, and the name that of the metadata.
BeginInv ==
    /\ stage \in {"idle", "unsent", "up", "handle"} => metadata = None /\ name = None
    /\ metadata # None => view # None /\ metadata = FileBeginDecode(view.payload)
    /\ name # None => metadata # None /\ name = Sanitize(metadata.filename)
    /\ Page /\ metadata # None => request.type = FILE_BEGIN
    /\ Page /\ stage \in {"reply", "down", "read"} /\ request.type = FILE_BEGIN =>
          /\ view # None /\ metadata = FileBeginDecode(view.payload)
          /\ metadata # None => name = Sanitize(metadata.filename)

\* The answer of the receiver is the message of what it means to send, and the page
\* holds what it decodes.
AnswerInv ==
    /\ answer \in Seq(Byte)
    /\ stage \notin {"down", "read"} => sent = None
    /\ sent # None => sent \in Ack /\ answer = Message(ACK, AckEncode(sent))
    /\ stage # "read" => ack = None
    /\ stage = "read" => ack = IF Len(answer) > MessageMax THEN None ELSE PageDecodeAck(answer)

\* What the sink made of the name, and what that means for the answer.
FileInv ==
    /\ fault \in BOOLEAN
    /\ sink = NoSink \/ (name # None /\ \E id \in [1 .. JobIdChars -> HexDigit] :
                                           sink = SinkInit(root, id, name))
    /\ stage \in {"idle", "unsent", "up", "handle"} => sink = NoSink
    /\ Page /\ request.type = FILE_BEGIN =>
          /\ stage \in {"reply", "down", "read"} =>
                \/ result = "OK" \/ name = None \/ fault = TRUE
                \/ sink # NoSink /\ sink.result # "OK"
          /\ stage \in {"down", "read"} => sent # None /\ sent.status = Status(result)

IntakeInv == WireInv /\ BeginInv /\ AnswerInv /\ FileInv

\* What the page sends.
LEMMA PageMessage ==
  ASSUME NEW r \in Request, PagePayload(r) # None, PageEncodeFrame(r.type, PagePayload(r)) # None
  PROVE  /\ r.type \in {FILE_BEGIN, CHUNK, FILE_END} /\ r.type \in 1 .. 7
         /\ PagePayload(r) \in Seq(Byte) /\ Len(PagePayload(r)) <= RelayMaxPayload
         /\ PageEncodeFrame(r.type, PagePayload(r)) = Message(r.type, PagePayload(r))
         /\ Message(r.type, PagePayload(r)) \in Seq(Byte)
  <1>1. r.type \in {FILE_BEGIN, CHUNK, FILE_END} /\ r.type \in 1 .. 7
    BY IntakeAssumption DEF FILE_BEGIN, CHUNK, FILE_END
  <1>2. PagePayload(r) \in Seq(Byte)
    <2>1. CASE r.type = FILE_BEGIN
      <3>1. r.sha256 \in Seq(Byte) /\ Encoded(r.text) \in Seq(Byte)
        BY <2>1, IntakeAssumption DEF FILE_BEGIN, CHUNK, FILE_END, Encoded
      <3>2. PagePayload(r) =
               PageEncodeFileBegin(r.file_size, r.sha256, Len(r.text), Encoded(r.text))
        BY <2>1 DEF PagePayload
      <3> QED BY <3>1, <3>2, BeginFits
    <2>2. CASE r.type # FILE_BEGIN
      BY <2>2, IntakeAssumption DEF PagePayload
    <2> QED BY <2>1, <2>2
  <1>3. Len(PagePayload(r)) <= RelayMaxPayload
    BY <1>1, <1>2, BothEncode
  <1>4. PageEncodeFrame(r.type, PagePayload(r)) = Message(r.type, PagePayload(r))
    BY <1>1, <1>2, <1>3, BothEncode
  <1>5. Message(r.type, PagePayload(r)) \in Seq(Byte)
    BY <1>1, <1>2, <1>3, LimitAssumption, MessageHolds
  <1> QED BY <1>1, <1>2, <1>3, <1>4, <1>5

\* What the receiver sends.
LEMMA AckMessage ==
  ASSUME NEW a \in Ack
  PROVE  /\ RelayMessageEncode([type |-> ACK, flags |-> 0, payload_length |-> AckSize],
                               AckEncode(a)) = Message(ACK, AckEncode(a))
         /\ Message(ACK, AckEncode(a)) \in Seq(Byte)
         /\ Len(Message(ACK, AckEncode(a))) <= MessageMax
         /\ RelayMessageDecode(Message(ACK, AckEncode(a))) = FrameView(ACK, AckEncode(a))
  <1> DEFINE p == AckEncode(a)
  <1>1. p \in Seq(Byte) /\ Len(p) = 12 /\ Len(p) <= RelayMaxPayload /\ ACK \in 1 .. 7
    <2>1. p \in Seq(Byte) /\ Len(p) = 12 /\ 12 <= RelayMaxPayload
      BY AckFits
    <2>2. ACK \in 1 .. 7
      BY DEF ACK
    <2> HIDE DEF p
    <2>3. Len(p) <= RelayMaxPayload
      BY Zenon, <2>1
    <2> QED BY <2>1, <2>2, <2>3
  <1>2. [type |-> ACK, flags |-> 0, payload_length |-> AckSize] = HeaderRecord(ACK, Len(p))
    BY <1>1 DEF HeaderRecord, AckSize
  <1> HIDE DEF p
  <1>3. RelayMessageEncode(HeaderRecord(ACK, Len(p)), p) = Message(ACK, p)
    BY <1>1, BothEncode
  <1>4. Message(ACK, p) \in Seq(Byte)
    BY <1>1, LimitAssumption, MessageHolds
  <1>5. /\ RelayMessageDecode(Message(ACK, p)) = FrameView(ACK, p)
        /\ Len(Message(ACK, p)) <= MessageMax
    BY <1>1, <1>4, MessageIs
  <1> QED BY <1>2, <1>3, <1>4, <1>5 DEF p

\* What the receiver holds of a message of the page.
LEMMA PageView ==
  ASSUME WireInv, Page, stage # "unsent"
  PROVE  /\ request.type \in {FILE_BEGIN, CHUNK, FILE_END}
         /\ RelayMessageDecode(wire) = FrameView(request.type, PagePayload(request))
         /\ RelayMessageDecode(wire) # None /\ Len(wire) <= MessageMax
         /\ view # None => Type = request.type /\ view.payload = PagePayload(request)
  <1>1. /\ request.type \in {FILE_BEGIN, CHUNK, FILE_END} /\ request.type \in 1 .. 7
    BY IntakeAssumption DEF WireInv, FILE_BEGIN, CHUNK, FILE_END
  <1>2. /\ wire \in Seq(Byte) /\ PagePayload(request) \in Seq(Byte)
        /\ Len(PagePayload(request)) <= RelayMaxPayload
        /\ wire = Message(request.type, PagePayload(request))
    BY DEF WireInv
  <1>3. /\ RelayMessageDecode(wire) = FrameView(request.type, PagePayload(request))
        /\ Len(wire) <= MessageMax
    BY <1>1, <1>2, MessageIs
  <1>4. RelayMessageDecode(wire) # None
    BY <1>1, <1>2, <1>3, PayloadRoom
  <1>5. view # None => view = FrameView(request.type, PagePayload(request))
    BY <1>3 DEF WireInv
  <1> QED BY <1>1, <1>3, <1>4, <1>5 DEF Type, FrameView, HeaderRecord

\* Nothing is known of a message before it is handled.
LEMMA InitInv ==
  Init => IntakeInv
  <1> SUFFICES ASSUME Init PROVE IntakeInv
    OBVIOUS
  <1> USE DEF Init
  <1>1. WireInv
    BY DEF WireInv, Page
  <1>2. BeginInv
    BY DEF BeginInv, Page
  <1>3. AnswerInv
    BY DEF AnswerInv
  <1>4. FileInv
    BY DEF FileInv, Page
  <1> QED BY <1>1, <1>2, <1>3, <1>4 DEF IntakeInv

\* Whatever is sent to the receiver.
LEMMA SendsInv ==
  ASSUME IntakeInv, PageSends \/ ForeignSends
  PROVE  IntakeInv'
  <1> USE DEF IntakeInv
  <1>1. /\ stage = "idle" /\ stage' \in {"unsent", "up"} /\ wire' \in Seq(Byte)
        /\ UNCHANGED <<root, proto, view, metadata, name, sink, result, sent, answer, ack, fault>>
    <2>1. CASE PageSends
      <3>1. PICK r \in Request :
               LET payload == PagePayload(r)
                   message == IF payload = None THEN None ELSE PageEncodeFrame(r.type, payload)
               IN  /\ wire' = IF message = None THEN <<>> ELSE message
                   /\ stage' = IF message = None THEN "unsent" ELSE "up"
        BY <2>1 DEF PageSends
      <3>2. <<>> \in Seq(Byte)
        OBVIOUS
      <3>3. wire' \in Seq(Byte)
        BY <3>1, <3>2, PageMessage
      <3> QED BY <2>1, <3>1, <3>3 DEF PageSends
    <2>2. CASE ForeignSends
      BY <2>2, IntakeAssumption DEF ForeignSends
    <2> QED BY <2>1, <2>2
  <1>2. ~Page
    BY <1>1 DEF WireInv
  <1>3. Page' => /\ request' \in Request /\ (request'.type = FILE_BEGIN <=> proto = "WAIT_FILE")
                 /\ stage' = "up" =>
                       /\ PagePayload(request') \in Seq(Byte)
                       /\ Len(PagePayload(request')) <= RelayMaxPayload
                       /\ wire' = Message(request'.type, PagePayload(request'))
    <2>1. CASE PageSends
      <3>1. PICK r \in Request :
               /\ request' = r /\ (r.type = FILE_BEGIN <=> proto = "WAIT_FILE")
               /\ LET payload == PagePayload(r)
                      message == IF payload = None THEN None ELSE PageEncodeFrame(r.type, payload)
                  IN  /\ wire' = IF message = None THEN <<>> ELSE message
                      /\ stage' = IF message = None THEN "unsent" ELSE "up"
        BY <2>1 DEF PageSends
      <3>2. stage' = "up" => /\ PagePayload(r) # None
                             /\ PageEncodeFrame(r.type, PagePayload(r)) # None
                             /\ wire' = PageEncodeFrame(r.type, PagePayload(r))
        BY <3>1
      <3> QED BY <3>1, <3>2, PageMessage
    <2>2. CASE ForeignSends
      BY <1>2, <2>2 DEF ForeignSends, Page
    <2> QED BY <2>1, <2>2
  <1>4. WireInv'
    <2>1. /\ PagePayload(request)' = PagePayload(request')
          /\ Message(request.type, PagePayload(request))' =
                Message(request'.type, PagePayload(request'))
      OBVIOUS
    <2>2. Page' /\ stage' # "unsent" =>
             /\ PagePayload(request') \in Seq(Byte) /\ Len(PagePayload(request')) <= RelayMaxPayload
             /\ wire' = Message(request'.type, PagePayload(request'))
      BY <1>1, <1>3
    <2> QED BY <1>1, <1>3, <2>2 DEF WireInv
  <1>5. BeginInv'
    BY <1>1 DEF BeginInv, Page
  <1>6. AnswerInv'
    BY <1>1 DEF AnswerInv
  <1>7. FileInv'
    BY <1>1 DEF FileInv, Page
  <1> QED BY <1>4, <1>5, <1>6, <1>7

\* The message is taken by the client, or the connection ends.
LEMMA ReceiveInv ==
  ASSUME IntakeInv, Receive
  PROVE  IntakeInv'
  <1> USE DEF IntakeInv
  <1>1. /\ stage = "up" /\ view' = IF Len(wire) > MessageMax THEN None ELSE RelayMessageDecode(wire)
        /\ stage' = IF view' = None THEN "dropped" ELSE "handle"
        /\ UNCHANGED <<request, root, proto, wire, metadata, name, sink, result, sent, answer,
                       ack, fault>>
    BY DEF Receive
  <1>2. Page => view' # None /\ stage' = "handle"
    <2>1. ASSUME Page PROVE RelayMessageDecode(wire) # None /\ Len(wire) <= MessageMax
      BY <1>1, <2>1, PageView
    <2>2. Len(wire) \in Nat /\ MessageMax \in Nat
      BY LimitAssumption DEF WireInv
    <2> QED BY <1>1, <2>1, <2>2
  <1>3. WireInv'
    <2>1. UNCHANGED <<request, wire, root, proto>> /\ (Page' <=> Page)
      BY <1>1 DEF Page
    <2>2. /\ Page => stage' \notin {"idle", "dropped"} /\ stage' # "unsent" /\ stage # "unsent"
          /\ stage' \in {"dropped", "handle"}
          /\ stage' \in {"handle", "reply"} => view' # None
          /\ view' # None => view' = RelayMessageDecode(wire)
      BY <1>1, <1>2
    <2> QED BY <2>1, <2>2 DEF WireInv
  <1>4. BeginInv'
    BY <1>1 DEF BeginInv, Page
  <1>5. AnswerInv'
    BY <1>1 DEF AnswerInv
  <1>6. FileInv'
    BY <1>1 DEF FileInv, Page
  <1> QED BY <1>3, <1>4, <1>5, <1>6

\* A step at the receiver that handles the message.
LEMMA HandledWire ==
  ASSUME WireInv, AnswerInv, stage = "handle", stage' = "reply",
         UNCHANGED <<request, root, proto, wire, view, sent, answer, ack>>
  PROVE  WireInv' /\ AnswerInv'
  <1>1. WireInv'
    BY DEF WireInv, Page
  <1>2. AnswerInv'
    BY DEF AnswerInv
  <1> QED BY <1>1, <1>2

\* A message of a wrong type, a chunk and the end of the file: there is no metadata.
LEMMA OthersInv ==
  ASSUME IntakeInv, Unexpected \/ ChunkOrEnd
  PROVE  IntakeInv'
  <1> USE DEF IntakeInv
  <1>1. /\ stage = "handle" /\ stage' = "reply" /\ fault' \in BOOLEAN
        /\ UNCHANGED <<request, root, proto, wire, view, metadata, name, sink, sent, answer, ack>>
    BY DEF Unexpected, ChunkOrEnd, Handled, FileInv
  <1>2. Page => request.type # FILE_BEGIN
    <2> HAVE Page
    <2>1. Type = request.type /\ request.type \in {FILE_BEGIN, CHUNK, FILE_END}
      BY <1>1, PageView DEF WireInv
    <2>2. Expected = IF request.type = FILE_BEGIN THEN {FILE_BEGIN} ELSE {CHUNK, FILE_END}
      BY DEF Expected, WireInv
    <2> QED BY <2>1, <2>2 DEF Unexpected, ChunkOrEnd, FILE_BEGIN, CHUNK, FILE_END
  <1>3. WireInv' /\ AnswerInv'
    BY <1>1, HandledWire
  <1>4. BeginInv'
    BY <1>1, <1>2 DEF BeginInv, Page
  <1>5. FileInv'
    BY <1>1, <1>2 DEF FileInv, Page
  <1> QED BY <1>3, <1>4, <1>5

\* The metadata is decoded, the name made safe and the sink set up.
LEMMA BeginFileInv ==
  ASSUME IntakeInv, BeginFile
  PROVE  IntakeInv'
  <1> USE DEF IntakeInv
  <1>1. PICK m \in {FileBeginDecode(view.payload)} :
        \E n \in {IF m = None THEN None ELSE Sanitize(m.filename)} :
        \E id \in JobIdCreate :
        \E s \in {IF n = None \/ id = <<>> THEN NoSink ELSE SinkInit(root, id, n)} :
          /\ metadata' = m /\ name' = n /\ sink' = s
          /\ \/ n = None /\ Handled("INVALID_METADATA") /\ UNCHANGED fault
             \/ n # None /\ s.result # "OK" /\ Handled("HANDLER_ERROR")
                         /\ fault' = (id = <<>>)
             \/ s.result = "OK" /\ Handled("OK") /\ UNCHANGED fault
             \/ s.result = "OK" /\ Handled("HANDLER_ERROR") /\ fault' = TRUE
    BY Zenon DEF BeginFile
  <1>2. PICK n \in {IF m = None THEN None ELSE Sanitize(m.filename)} :
        \E id \in JobIdCreate :
        \E s \in {IF n = None \/ id = <<>> THEN NoSink ELSE SinkInit(root, id, n)} :
          /\ metadata' = m /\ name' = n /\ sink' = s
          /\ \/ n = None /\ Handled("INVALID_METADATA") /\ UNCHANGED fault
             \/ n # None /\ s.result # "OK" /\ Handled("HANDLER_ERROR")
                         /\ fault' = (id = <<>>)
             \/ s.result = "OK" /\ Handled("OK") /\ UNCHANGED fault
             \/ s.result = "OK" /\ Handled("HANDLER_ERROR") /\ fault' = TRUE
    BY Zenon, <1>1
  <1>3. PICK id \in JobIdCreate :
        \E s \in {IF n = None \/ id = <<>> THEN NoSink ELSE SinkInit(root, id, n)} :
          /\ metadata' = m /\ name' = n /\ sink' = s
          /\ \/ n = None /\ Handled("INVALID_METADATA") /\ UNCHANGED fault
             \/ n # None /\ s.result # "OK" /\ Handled("HANDLER_ERROR")
                         /\ fault' = (id = <<>>)
             \/ s.result = "OK" /\ Handled("OK") /\ UNCHANGED fault
             \/ s.result = "OK" /\ Handled("HANDLER_ERROR") /\ fault' = TRUE
    BY Zenon, <1>2
  <1>4. /\ metadata' = FileBeginDecode(view.payload)
        /\ name' = IF metadata' = None THEN None ELSE Sanitize(metadata'.filename)
        /\ sink' = IF name' = None \/ id = <<>> THEN NoSink ELSE SinkInit(root, id, name')
    BY <1>1, <1>2, <1>3
  <1>5. /\ stage = "handle" /\ stage' = "reply"
        /\ UNCHANGED <<request, root, proto, wire, view, sent, answer, ack>>
    BY <1>3 DEF BeginFile, Handled
  <1>6. view # None
    BY <1>5 DEF WireInv
  <1>7. WireInv' /\ AnswerInv'
    BY <1>5, HandledWire
  <1>8. BeginInv'
    <2>1. Page => request.type = FILE_BEGIN
      BY <1>5, <1>6, PageView DEF BeginFile
    <2> QED BY <1>4, <1>5, <1>6, <2>1 DEF BeginInv, Page
  <1>9. FileInv'
    <2>1. fault' \in BOOLEAN
      <3>1. fault' = fault \/ fault' = (id = <<>>) \/ fault' = TRUE
        BY Zenon, <1>3
      <3> QED BY Zenon, <3>1 DEF FileInv
    <2>2. sink' = NoSink \/ (name' # None /\ \E i \in [1 .. JobIdChars -> HexDigit] :
                                                sink' = SinkInit(root', i, name'))
      <3>1. id = <<>> \/ id \in [1 .. JobIdChars -> HexDigit]
        BY DEF JobIdCreate
      <3>2. root' = root
        BY <1>5
      <3> QED BY <1>4, <3>1, <3>2
    <2>3. result' = "OK" \/ name' = None \/ fault' = TRUE \/ (sink' # NoSink /\ sink'.result # "OK")
      <3>1. CASE id = <<>>
        <4>1. fault' = (id = <<>>) => fault' = TRUE
          BY Zenon, <3>1
        <4> QED BY <1>3, <1>4, <4>1 DEF Handled
      <3>2. CASE id # <<>>
        <4>1. name' # None => sink' = SinkInit(root, id, name')
          BY <1>4, <3>2
        <4>2. name' # None => sink'.result # "NONE"
          BY <4>1 DEF SinkInit
        <4>3. name' # None => sink' # NoSink
          BY <4>2 DEF NoSink
        <4> QED BY <1>3, <4>3 DEF Handled
      <3> QED BY <3>1, <3>2
    <2> QED BY <1>5, <2>1, <2>2, <2>3 DEF FileInv, Page
  <1> QED BY <1>7, <1>8, <1>9

\* The status of an acknowledgement is one that both ends know.
LEMMA StatusKnown ==
  \A r : Status(r) \in AckStatus
  BY DEF Status, AckStatus

\* The receiver answers.
LEMMA ReplyInv ==
  ASSUME IntakeInv, Reply
  PROVE  IntakeInv'
  <1> USE DEF IntakeInv
  <1>1. /\ stage = "reply"
        /\ UNCHANGED <<request, root, proto, wire, view, metadata, name, sink, result, ack, fault>>
    BY DEF Reply
  <1>2. Page => AckTypeAllowed(Type)
    BY <1>1, PageView DEF WireInv, AckTypeAllowed
  <1>3. CASE AckTypeAllowed(Type)
    <2>1. PICK n \in IF Type = FILE_BEGIN /\ proto = "WAIT_FILE" THEN {0} ELSE Count :
             \E a \in {[type |-> Type, status |-> Status(result), received |-> n]} :
             \E bytes \in {RelayMessageEncode([type |-> ACK, flags |-> 0,
                                               payload_length |-> AckSize], AckEncode(a))} :
                sent' = a /\ answer' = bytes /\ stage' = "down"
      BY Zenon, <1>3 DEF Reply
    <2>2. /\ sent' = [type |-> Type, status |-> Status(result), received |-> n]
          /\ answer' = RelayMessageEncode([type |-> ACK, flags |-> 0,
                                           payload_length |-> AckSize], AckEncode(sent'))
          /\ stage' = "down"
      BY <2>1
    <2>3. sent' \in Ack
      <3>1. n \in U64
        <4>1. 0 \in U64
          BY Widths DEF U64
        <4> QED BY <2>1, <4>1, IntakeAssumption
      <3> QED BY <1>3, <2>2, <3>1, StatusKnown DEF Ack, AckTypeAllowed
    <2>4. answer' = Message(ACK, AckEncode(sent')) /\ answer' \in Seq(Byte)
      BY <2>2, <2>3, AckMessage
    <2>5. sent' # None /\ sent'.status = Status(result)
      BY <2>2, <2>3, IntakeAssumption
    <2> HIDE <2>2
    <2>6. stage' = "down"
      BY <2>1
    <2>7. WireInv'
      BY <1>1, <2>6 DEF WireInv, Page
    <2>8. BeginInv'
      BY <1>1, <2>6 DEF BeginInv, Page
    <2>9. AnswerInv'
      BY <1>1, <2>3, <2>4, <2>6 DEF AnswerInv
    <2>10. FileInv'
      BY <1>1, <2>5, <2>6 DEF FileInv, Page
    <2> QED BY <2>7, <2>8, <2>9, <2>10
  <1>4. CASE ~AckTypeAllowed(Type)
    <2>1. ~Page /\ stage' = "dropped" /\ UNCHANGED <<sent, answer>>
      BY <1>2, <1>4 DEF Reply
    <2>2. WireInv'
      BY <1>1, <2>1 DEF WireInv, Page
    <2>3. BeginInv'
      BY <1>1, <2>1 DEF BeginInv, Page
    <2>4. AnswerInv'
      BY <1>1, <2>1 DEF AnswerInv
    <2>5. FileInv'
      BY <1>1, <2>1 DEF FileInv, Page
    <2> QED BY <2>2, <2>3, <2>4, <2>5
  <1> QED BY <1>3, <1>4

\* An answer that no receiver makes.
LEMMA ForeignAnswersInv ==
  ASSUME IntakeInv, ForeignAnswers
  PROVE  IntakeInv'
  <1> USE DEF IntakeInv
  <1>1. /\ stage = "idle" /\ stage' = "down" /\ answer' \in Seq(Byte)
        /\ UNCHANGED <<request, root, proto, wire, view, metadata, name, sink, result, sent, ack,
                       fault>>
    BY IntakeAssumption DEF ForeignAnswers
  <1>2. ~Page
    BY <1>1 DEF WireInv
  <1>3. WireInv'
    BY <1>1, <1>2 DEF WireInv, Page
  <1>4. BeginInv'
    BY <1>1, <1>2 DEF BeginInv, Page
  <1>5. AnswerInv'
    BY <1>1 DEF AnswerInv
  <1>6. FileInv'
    BY <1>1, <1>2 DEF FileInv, Page
  <1> QED BY <1>3, <1>4, <1>5, <1>6

\* The page reads the answer.
LEMMA PageReadsInv ==
  ASSUME IntakeInv, PageReads
  PROVE  IntakeInv'
  <1> USE DEF IntakeInv
  <1>1. /\ stage = "down" /\ stage' = "read"
        /\ ack' = IF Len(answer) > MessageMax THEN None ELSE PageDecodeAck(answer)
        /\ UNCHANGED <<request, root, proto, wire, view, metadata, name, sink, result, sent,
                       answer, fault>>
    BY DEF PageReads
  <1>2. WireInv'
    BY <1>1 DEF WireInv, Page
  <1>3. BeginInv'
    BY <1>1 DEF BeginInv, Page
  <1>4. AnswerInv'
    BY <1>1 DEF AnswerInv
  <1>5. FileInv'
    BY <1>1 DEF FileInv, Page
  <1> QED BY <1>2, <1>3, <1>4, <1>5

\* The invariant holds in every state, whatever either end is sent.
THEOREM IntakeInvariant ==
  Spec => []IntakeInv
  <1>1. Init => IntakeInv
    BY InitInv
  <1>2. ASSUME IntakeInv, [Next]_vars PROVE IntakeInv'
    <2>1. CASE Next
      BY <1>2, <2>1, SendsInv, ReceiveInv, OthersInv, BeginFileInv, ReplyInv, ForeignAnswersInv,
         PageReadsInv DEF Next
    <2>2. CASE UNCHANGED vars
      BY <1>2, <2>2 DEF vars, IntakeInv, WireInv, BeginInv, AnswerInv, FileInv, Page
    <2> QED BY <1>2, <2>1, <2>2
  <1> QED BY <1>1, <1>2, PTL DEF Spec

-----------------------------------------------------------------------------
\* The theorems.

\* What is read in the FILE_BEGIN of a page.
LEMMA PageFile ==
  ASSUME IntakeInv, Page, stage \in {"reply", "down", "read"}, request.type = FILE_BEGIN
  PROVE  /\ metadata = FileRecord(request.file_size, request.sha256, Encoded(request.text))
         /\ metadata # None /\ metadata.filename = Encoded(request.text)
         /\ Encoded(request.text) \in Seq(Byte) /\ ValidUtf8(Encoded(request.text))
         /\ Len(Encoded(request.text)) <= FilenameMax
  <1> USE DEF IntakeInv
  <1>1. view # None /\ metadata = FileBeginDecode(view.payload) /\ request \in Request
    BY DEF BeginInv, WireInv
  <1>2. view.payload = PagePayload(request)
    BY <1>1, PageView
  <1>3. /\ PagePayload(request) \in Seq(Byte)
        /\ PagePayload(request) = PageEncodeFileBegin(request.file_size, request.sha256,
                                      Len(request.text), Encoded(request.text))
    BY DEF WireInv, PagePayload
  <1>4. /\ request.sha256 \in Seq(Byte) /\ Encoded(request.text) \in Seq(Byte)
        /\ ValidUtf8(Encoded(request.text))
    BY <1>1, IntakeAssumption DEF FILE_BEGIN, CHUNK, FILE_END, Encoded
  <1>5. metadata = FileRecord(request.file_size, request.sha256, Encoded(request.text))
    BY <1>1, <1>2, <1>3, <1>4, BeginIs
  <1>6. PagePayload(request) # None
    BY <1>3, IntakeAssumption
  <1>7. request.file_size \in U64
    BY <1>3, <1>6 DEF PageEncodeFileBegin
  <1>8. metadata # None
    <2>1. metadata \in Metadata
      BY <1>4, <1>5, <1>7 DEF FileRecord, Metadata
    <2> QED BY <2>1, IntakeAssumption
  <1>9. Len(Encoded(request.text)) <= FilenameMax
    <2>1. Len(Encoded(request.text)) \in 1 .. FilenameMax /\ FilenameMax \in Nat
      BY <1>3, <1>4, <1>6, BeginFits, LimitAssumption
    <2> QED BY <2>1
  <1>10. metadata.filename = Encoded(request.text)
    BY <1>5 DEF FileRecord
  <1> QED BY <1>4, <1>5, <1>8, <1>9, <1>10

\* The message of a page is read as it was meant: the layout written down in protocol.js
\* and the one in relay_message.c and file_begin.c are the same, for every size, digest and
\* name that the page lets through.
THEOREM PageUnderstood ==
  Spec => []PageIsUnderstood
  <1>1. ASSUME IntakeInv PROVE PageIsUnderstood
    <2> SUFFICES ASSUME request # None
                 PROVE  /\ stage # "dropped"
                        /\ view # None => Type = request.type /\ view.payload = PagePayload(request)
                        /\ stage \in {"reply", "down", "read"} /\ request.type = FILE_BEGIN =>
                              metadata = [file_size |-> request.file_size,
                                          sha256 |-> request.sha256,
                                          filename |-> Encoded(request.text)]
      BY DEF PageIsUnderstood
    <2>1. Page /\ WireInv
      BY <1>1 DEF Page, IntakeInv
    <2>2. stage # "dropped" /\ (stage = "unsent" => view = None)
      BY <2>1 DEF WireInv
    <2>3. view # None => Type = request.type /\ view.payload = PagePayload(request)
      BY <2>1, <2>2, PageView
    <2>4. stage \in {"reply", "down", "read"} /\ request.type = FILE_BEGIN =>
             metadata = FileRecord(request.file_size, request.sha256, Encoded(request.text))
      BY <1>1, <2>1, PageFile
    <2> QED BY <2>2, <2>3, <2>4 DEF FileRecord
  <1> QED BY <1>1, IntakeInvariant, PTL

\* What the page reads.
LEMMA AckRead ==
  ASSUME IntakeInv, stage = "read"
  PROVE  LET v == RelayMessageDecode(answer)
         IN  /\ sent # None => ack = sent
             /\ ack = IF v = None \/ v.header.type # ACK THEN None ELSE AckDecode(v.payload)
  <1> USE DEF IntakeInv
  <1> DEFINE v == RelayMessageDecode(answer)
  <1>1. answer \in Seq(Byte) /\ Len(answer) \in Nat /\ MessageMax \in Nat
    BY LimitAssumption DEF AnswerInv
  <1>2. PageDecodeAck(answer) = IF v = None \/ v.header.type # ACK THEN None
                                ELSE AckDecode(v.payload)
    BY <1>1, PageAck
  <1>3. Len(answer) > MessageMax => v = None
    BY <1>1 DEF RelayMessageDecode
  <1>4. ack = PageDecodeAck(answer)
    BY <1>2, <1>3 DEF AnswerInv
  <1>5. ASSUME sent # None PROVE ack = sent
    <2>1. sent \in Ack /\ answer = Message(ACK, AckEncode(sent))
      BY <1>5 DEF AnswerInv
    <2>2. v = FrameView(ACK, AckEncode(sent)) /\ AckEncode(sent) \in Seq(Byte)
      BY <2>1, AckMessage, AckFits
    <2>3. v # None
      <3>1. AckEncode(sent) \in Seq(Byte) /\ Len(AckEncode(sent)) = 12 /\ 12 <= RelayMaxPayload
        BY <2>1, AckFits
      <3>2. Len(AckEncode(sent)) <= RelayMaxPayload
        BY Zenon, <3>1
      <3>3. ACK \in 1 .. 7
        BY DEF ACK
      <3> QED BY <2>2, <3>2, <3>3, PayloadRoom
    <2>4. v.header.type = ACK /\ v.payload = AckEncode(sent)
      BY <2>2 DEF FrameView, HeaderRecord
    <2>5. AckDecode(AckEncode(sent)) = sent
      BY <2>1, <2>2, AckIs
    <2> QED BY <1>2, <1>4, <2>3, <2>4, <2>5
  <1> QED BY <1>2, <1>4, <1>5

\* The acknowledgement is read as it was meant, and decodeAck of the page takes exactly
\* what pd_relay_message_decode and pd_ack_decode would take, from whomever it comes.
THEOREM AckUnderstood ==
  Spec => []AckIsUnderstood
  <1>1. ASSUME IntakeInv PROVE AckIsUnderstood
    BY <1>1, AckRead DEF AckIsUnderstood
  <1> QED BY <1>1, IntakeInvariant, PTL

\* There is one encoding of every meaning: what either end accepts is, byte for byte, what
\* the receiver's encoder makes of it.
THEOREM EncodingIsUnique ==
  Spec => []OneEncoding
  <1>1. ASSUME IntakeInv PROVE OneEncoding
    <2> USE <1>1 DEF IntakeInv
    <2>1. ASSUME view # None
          PROVE  /\ wire = RelayMessageEncode(view.header, view.payload)
                 /\ view.payload \in Seq(Byte)
      <3>1. wire \in Seq(Byte) /\ RelayMessageDecode(wire) # None /\ view = RelayMessageDecode(wire)
        BY <2>1 DEF WireInv
      <3>2. PICK t \in 1 .. 7, p \in Seq(Byte) :
               /\ Len(p) <= RelayMaxPayload /\ wire = Message(t, p) /\ view = FrameView(t, p)
        BY <3>1, MessageIs
      <3>3. RelayMessageEncode(HeaderRecord(t, Len(p)), p) = Message(t, p)
        BY <3>2, BothEncode
      <3>4. view.header = HeaderRecord(t, Len(p)) /\ view.payload = p
        BY <3>2 DEF FrameView
      <3> QED BY <3>2, <3>3, <3>4
    <2>2. ASSUME metadata # None PROVE view.payload = FileBeginEncode(metadata)
      <3>1. view # None /\ metadata = FileBeginDecode(view.payload)
        BY <2>2 DEF BeginInv
      <3>2. view.payload \in Seq(Byte)
        BY <2>1, <3>1
      <3> QED BY <2>2, <3>1, <3>2, BeginIs
    <2>3. ASSUME ack # None PROVE From(answer, HeaderSize) = AckEncode(ack)
      <3>1. stage = "read" /\ answer \in Seq(Byte) /\ ack = PageDecodeAck(answer)
        BY <2>3 DEF AnswerInv
      <3>2. /\ RelayMessageDecode(answer) # None
            /\ ack = AckDecode(RelayMessageDecode(answer).payload)
        BY <2>3, <3>1, PageAck
      <3>3. PICK t \in 1 .. 7, p \in Seq(Byte) :
               /\ Len(p) <= RelayMaxPayload /\ answer = Message(t, p)
               /\ RelayMessageDecode(answer) = FrameView(t, p)
        BY <3>1, <3>2, MessageIs
      <3>4. ack = AckDecode(p)
        BY <3>2, <3>3 DEF FrameView
      <3>5. p = AckEncode(ack)
        BY <2>3, <3>4, AckIs
      <3>6. Len(answer) = 12 + Len(p) /\ Holds(answer, 12, p)
        BY <3>1, <3>3, MessageHolds
      <3>7. 12 \in Nat /\ 12 <= Len(answer)
        BY <3>3, <3>6
      <3>8. From(answer, 12) = p
        BY <3>1, <3>6, <3>7, Rest
      <3> QED BY <3>5, <3>8 DEF HeaderSize
    <2> QED BY <2>1, <2>2, <2>3 DEF OneEncoding
  <1> QED BY <1>1, IntakeInvariant, PTL

\* The names of a state.
LEMMA NamesOf ==
  ASSUME IntakeInv
  PROVE  /\ metadata # None => /\ metadata.filename \in Seq(Byte)
                               /\ Len(metadata.filename) <= FilenameMax
         /\ name # None => /\ metadata # None /\ name = Sanitize(metadata.filename)
                           /\ name \in Seq(Byte) /\ Ordinary(name)
  <1> USE DEF IntakeInv
  <1>1. ASSUME metadata # None
        PROVE  metadata.filename \in Seq(Byte) /\ Len(metadata.filename) <= FilenameMax
    <2>1. view # None /\ metadata = FileBeginDecode(view.payload)
      BY <1>1 DEF BeginInv
    <2>2. view.payload \in Seq(Byte)
      <3>1. wire \in Seq(Byte) /\ RelayMessageDecode(wire) # None /\ view = RelayMessageDecode(wire)
        BY <2>1 DEF WireInv
      <3>2. PICK t \in 1 .. 7, p \in Seq(Byte) : view = FrameView(t, p)
        BY <3>1, MessageIs
      <3> QED BY <3>2 DEF FrameView
    <2>3. metadata \in Metadata /\ Len(metadata.filename) \in 1 .. FilenameMax
      BY <1>1, <2>1, <2>2, BeginIs
    <2>4. FilenameMax \in Nat
      BY LimitAssumption
    <2> QED BY <2>3, <2>4 DEF Metadata
  <1>2. ASSUME name # None
        PROVE  /\ metadata # None /\ name = Sanitize(metadata.filename)
               /\ name \in Seq(Byte) /\ Ordinary(name)
    <2>1. metadata # None /\ name = Sanitize(metadata.filename)
      BY <1>2 DEF BeginInv
    <2> QED BY <1>1, <1>2, <2>1, SanitizeSafe
  <1> QED BY <1>1, <1>2

\* Whatever bytes a FILE_BEGIN has for a name, the name that reaches the disk, and the one
\* it has while it is staged, is one that Windows takes for an ordinary file; and a name
\* that is ordinary already is not changed.
THEOREM NamesAreSafe ==
  Spec => []NameIsSafe
  <1>1. ASSUME IntakeInv PROVE NameIsSafe
    BY <1>1, NamesOf, SanitizeKeeps DEF NameIsSafe
  <1> QED BY <1>1, IntakeInvariant, PTL

\* The sink never refuses the name or the job id it is given; a page's name stays valid
\* UTF-8; and the staging and the final path fit their buffers, lie in the job's own
\* directory and differ.
THEOREM SinkAgreesAlways ==
  Spec => []SinkAgrees
  <1>1. ASSUME IntakeInv PROVE SinkAgrees
    <2> USE <1>1 DEF IntakeInv
    <2>1. ASSUME metadata # None, name # None, ValidUtf8(metadata.filename)
          PROVE  ValidUtf8(name)
      BY <2>1, NamesOf, SanitizeUtf8
    <2>2. CASE sink = NoSink
      <3>1. sink.result = "NONE"
        BY <2>2 DEF NoSink
      <3> QED BY <2>1, <3>1 DEF SinkAgrees
    <2>3. CASE sink # NoSink
      <3>1. PICK id \in [1 .. JobIdChars -> HexDigit] : sink = SinkInit(root, id, name)
        BY <2>3 DEF FileInv
      <3>2. name # None /\ root \in Root /\ stage \in {"dropped", "reply", "down", "read"}
        BY <2>3 DEF FileInv, WireInv
      <3>3. name \in Seq(Byte) /\ Ordinary(name) /\ metadata # None
        BY <3>2, NamesOf
      <3>4. /\ sink.result \in {"OK", "INVALID_UTF8", "PATH_TOO_LONG"}
            /\ sink.result = "INVALID_UTF8" => ~ValidUtf8(name)
            /\ sink.result = "OK" => PathsApart
        BY <3>1, <3>2, <3>3, SinkIs
      <3>5. request # None => ValidUtf8(name)
        <4> HAVE request # None
        <4>1. Page /\ stage \in {"reply", "down", "read"} /\ request \in Request
          BY <3>2 DEF Page, WireInv
        <4>2. request.type = FILE_BEGIN
          BY <3>3, <4>1 DEF BeginInv
        <4>3. ValidUtf8(metadata.filename)
          BY <4>1, <4>2, PageFile
        <4> QED BY <2>1, <3>2, <3>3, <4>3
      <3> QED BY <2>1, <3>4, <3>5 DEF SinkAgrees
    <2> QED BY <2>2, <2>3
  <1> QED BY <1>1, IntakeInvariant, PTL

\* A file of a page is refused only for one of three reasons: a device's name that leaves
\* no room for the prefix, a path beyond MAX_PATH, or a call of the system that failed.
THEOREM PageFilesAreTaken ==
  Spec => []PageFileIsTaken
  <1>1. ASSUME IntakeInv PROVE PageFileIsTaken
    <2> USE <1>1 DEF IntakeInv
    <2> DEFINE n == Encoded(request.text)
    <2> SUFFICES ASSUME request # None, request.type = FILE_BEGIN, stage = "read", ack.status # 0
                 PROVE  \/ name = None /\ Len(n) = FilenameMax /\ Reserved(n)
                        \/ name # None /\ StagingLength > PathCapacity - 1
                        \/ fault
      BY DEF PageFileIsTaken, StagingLength
    <2>1. Page /\ stage \in {"reply", "down", "read"}
      BY DEF Page
    <2>2. /\ metadata # None /\ metadata.filename = n /\ n \in Seq(Byte) /\ ValidUtf8(n)
          /\ Len(n) <= FilenameMax
      BY <2>1, PageFile
    <2>3. name = Sanitize(n)
      BY <2>1, <2>2 DEF BeginInv
    <2>4. CASE name = None
      BY <2>2, <2>3, <2>4, SanitizeRefuses
    <2>5. CASE name # None
      <3>1. sent # None /\ sent.status = Status(result)
        BY <2>1 DEF FileInv
      <3>2. ack = sent
        BY <3>1, AckRead
      <3>3. result # "OK"
        <4>1. Status("OK") = 0
          BY DEF Status
        <4> QED BY <3>1, <3>2, <4>1
      <3>4. fault = TRUE \/ (sink # NoSink /\ sink.result # "OK")
        BY <2>1, <2>5, <3>3 DEF FileInv
      <3>5. ASSUME sink # NoSink, sink.result # "OK"
            PROVE  StagingLength > PathCapacity - 1
        <4>1. PICK id \in [1 .. JobIdChars -> HexDigit] : sink = SinkInit(root, id, name)
          BY <3>5 DEF FileInv
        <4>2. root \in Root /\ name \in Seq(Byte) /\ Ordinary(name)
          BY <2>5, NamesOf DEF WireInv
        <4>3. ValidUtf8(name)
          BY <2>2, <2>3, <2>5, SanitizeUtf8
        <4> QED BY <3>5, <4>1, <4>2, <4>3, SinkIs
      <3> QED BY <2>5, <3>4, <3>5
    <2> QED BY <2>4, <2>5
  <1> QED BY <1>1, IntakeInvariant, PTL
=============================================================================
