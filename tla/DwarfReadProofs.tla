--------------------------- MODULE DwarfReadProofs --------------------------
(***************************************************************************)
(* First of three modules on parse_function_details (then DwarfCieProofs   *)
(* and DwarfLayoutProofs): a field is read as the number its bytes stand   *)
(* for, of fixed size or LEB128, and every step that arrives at the bytes  *)
(* of the next field keeps the parser on the track of the layout.          *)
(***************************************************************************)
EXTENDS DwarfTrack, TLAPS

-----------------------------------------------------------------------------
(* Words and bytes *)

\* The remainder of numbers at most one period away.
LEMMA ModNear ==
    ASSUME NEW a \in Int, NEW b \in Nat, b > 0
    PROVE  /\ a \in 0 .. b - 1 => a % b = a
           /\ a \in b .. 2 * b - 1 => a % b = a - b
           /\ a \in -b .. -1 => a % b = a + b
OBVIOUS

\* Sizes of fixed fields are between one and eight bytes.
LEMMA Sizes == /\ U16 \in 1 .. 8 /\ U32 \in 1 .. 8 /\ U64 \in 1 .. 8
               /\ \A f : FixedSize(f) \in 1 .. 8
BY WidthAssumption DEF FixedSize

\* An end that is stored as a start and a wrapped length is found again.
LEMMA WrappedLength ==
    ASSUME NEW a \in Addr, NEW s \in Nat, NEW e \in Nat, a + s <= MaxU, a + e <= MaxU
    PROVE  /\ Wrap(a + s) = a + s
           /\ Wrap(Wrap(a + s) + Wrap(e - s)) = a + e
<1> DEFINE M == MaxU + 1
<1>1. M \in Nat /\ M > 0 /\ MaxU \in Nat /\ a \in Nat
  BY WidthAssumption DEF Addr
<1>2. Wrap(a + s) = a + s
  BY <1>1, ModNear DEF Wrap
<1>3. CASE e >= s
  <2>1. Wrap(e - s) = e - s
    BY <1>1, <1>3, ModNear DEF Wrap
  <2>2. a + s + (e - s) = a + e
    BY <1>1
  <2>3. Wrap(a + e) = a + e
    BY <1>1, ModNear DEF Wrap
  <2> QED BY <1>2, <2>1, <2>2, <2>3, Zenon
<1>4. CASE e < s
  <2>1. Wrap(e - s) = e - s + M
    <3>1. e - s \in -M .. -1 /\ e - s \in Int
      BY <1>1, <1>4
    <3> QED BY <1>1, <3>1, ModNear, Zenon DEF Wrap
  <2>2. a + s + (e - s + M) = a + e + M
    BY <1>1
  <2>3. Wrap(a + e + M) = a + e
    <3>1. a + e + M \in M .. 2 * M - 1 /\ a + e + M \in Int
      BY <1>1
    <3>2. (a + e + M) % M = (a + e + M) - M
      BY <1>1, <3>1, ModNear, Zenon
    <3> QED BY <1>1, <3>2 DEF Wrap
  <2> QED BY <1>2, <2>1, <2>2, <2>3, Zenon
<1> QED BY <1>3, <1>4, <1>1

\* The section is a sequence that fits in the address space.
LEMMA SizeType ==
    ASSUME input \in Inputs
    PROVE  Size \in Nat /\ EhFrameAvma \in Nat /\ MaxU \in Nat /\ EhFrameAvma + Size <= MaxU
<1>1. input.bytes \in Seq(Byte) /\ EhFrameAvma + Len(input.bytes) <= MaxU
  BY InputsAssumption, Zenon
<1>2. Len(input.bytes) \in Nat
  BY <1>1
<1> QED BY <1>1, <1>2, WidthAssumption DEF Size, Addr

\* A byte inside the section.
LEMMA AtType ==
    ASSUME input \in Inputs, NEW o \in Nat, o < Size
    PROVE  At(o) \in Byte
<1>1. input.bytes \in Seq(Byte)
  BY InputsAssumption, Zenon
<1>2. o + 1 \in 1 .. Len(input.bytes)
  BY <1>1 DEF Size
<1> QED BY <1>1, <1>2 DEF At

\* One step of a Horner sum.
LEMMA HornerStep == \A x, y \in Nat : x + 256 * y \in Nat
OBVIOUS

\* A word inside the section is a number.
LEMMA LittleEndianType ==
    ASSUME input \in Inputs, NEW o \in Nat, NEW k \in 1 .. 8, o + k <= Size
    PROVE  LittleEndian(input.bytes, o, k) \in Nat
<1> DEFINE B(i) == IF i < k THEN input.bytes[o + i + 1] ELSE 0
           S(x, y) == x + 256 * y
<1>1. \A i \in Nat : B(i) \in Nat
  <2>1. ASSUME NEW i \in Nat, i < k PROVE input.bytes[o + i + 1] \in Nat
    <3>1. o + i \in Nat /\ o + i < Size
      BY <2>1, SizeType
    <3>2. At(o + i) \in Byte
      BY <3>1, AtType, Zenon
    <3> QED BY <3>2 DEF Byte, At
  <2> QED BY <2>1, Zenon
<1>2. LittleEndian(input.bytes, o, k) =
        S(B(0), S(B(1), S(B(2), S(B(3), S(B(4), S(B(5), S(B(6), B(7))))))))
  BY Zenon DEF LittleEndian
<1>3. \A x, y \in Nat : S(x, y) \in Nat
  BY HornerStep, Zenon
<1> HIDE DEF B, S
<1>4. S(B(5), S(B(6), B(7))) \in Nat
  BY <1>1, <1>3, Zenon
<1>5. S(B(2), S(B(3), S(B(4), S(B(5), S(B(6), B(7)))))) \in Nat
  BY <1>1, <1>3, <1>4, Zenon
<1>6. S(B(0), S(B(1), S(B(2), S(B(3), S(B(4), S(B(5), S(B(6), B(7)))))))) \in Nat
  BY <1>1, <1>3, <1>5, Zenon
<1> QED BY <1>2, <1>6, Zenon

-----------------------------------------------------------------------------
(* Arithmetic *)

\* Division with remainder.
LEMMA ModDivides ==
    ASSUME NEW a \in Int, NEW b \in Nat, b > 0
    PROVE  a = b * (a \div b) + (a % b) /\ a \div b \in Int /\ a % b \in 0 .. b - 1
OBVIOUS

\* A remainder is determined by its range.
LEMMA ModUnique ==
    ASSUME NEW b \in Nat, b > 0, NEW q \in Int, NEW r \in 0 .. b - 1
    PROVE  (b * q + r) % b = r
OBVIOUS

\* A multiple of the period can be added.
LEMMA ModPeriod ==
    ASSUME NEW a \in Int, NEW b \in Nat, b > 0, NEW k \in Int
    PROVE  (a + b * k) % b = a % b
<1> DEFINE q == a \div b
           r == a % b
<1>1. a = b * q + r /\ q \in Int /\ r \in 0 .. b - 1
  BY ModDivides, Zenon
<1> HIDE DEF q, r
<1>2. a + b * k = b * (q + k) + r /\ q + k \in Int
  BY <1>1
<1>3. (b * (q + k) + r) % b = r
  BY <1>1, <1>2, ModUnique, Zenon
<1> QED BY <1>2, <1>3, Zenon DEF r

\* A digit of weight w is added to a number below w: the sum is a word if the digit
\* was wrapped, and the word of the sum.
LEMMA DigitWraps ==
    ASSUME NEW w \in Nat, w > 0, NEW c \in Nat, c > 0, NEW v \in 0 .. w - 1, NEW x \in Nat
    PROVE  /\ v + ((x * w) % (c * w)) = (v + x * w) % (c * w)
           /\ v + ((x * w) % (c * w)) \in 0 .. c * w - 1
<1> DEFINE q == x \div c
           r == x % c
           M == c * w
<1>1. x = c * q + r /\ q \in Int /\ r \in 0 .. c - 1
  BY ModDivides
<1> HIDE DEF q, r
<1>2. r * w \in Nat /\ r * w + w <= c * w
  <2>1. r \in Nat /\ r + 1 <= c
    BY <1>1
  <2>2. (r + 1) * w <= c * w /\ (r + 1) * w = r * w + w /\ r * w \in Nat
    BY <2>1
  <2> QED BY <2>2, Zenon
<1>3. x * w = (c * w) * q + r * w
  BY <1>1
<1>4. M \in Nat /\ M > 0
  OBVIOUS
<1>5. r * w \in 0 .. M - 1 /\ v + r * w \in 0 .. M - 1
  BY <1>2
<1> DEFINE s == r * w
<1>6. s \in 0 .. M - 1 /\ v + s \in 0 .. M - 1 /\ x * w = M * q + s
  BY <1>3, <1>5, Zenon
<1> HIDE DEF M, s
<1>7. (M * q + s) % M = s
  BY <1>1, <1>4, <1>6, ModUnique, Zenon
<1>8. (M * q + (v + s)) % M = v + s
  BY <1>1, <1>4, <1>6, ModUnique, Zenon
<1>9. M * q \in Int /\ s \in Int
  BY <1>1, <1>4, <1>6
<1>10. v + x * w = M * q + (v + s)
  BY <1>6, <1>9
<1> QED BY <1>6, <1>7, <1>8, <1>10, Zenon DEF M

\* The weights of the digits.
LEMMA WeightStep ==
    /\ Weight(0) = 1
    /\ \A i \in 0 .. 8 : Weight(i + 1) = 128 * Weight(i)
    /\ \A i \in 0 .. 9 : Weight(i) \in Nat \ {0}
<1>1. Weight(0) = 1
  BY DEF Weight
<1>2. /\ Weight(1) = 128 * Weight(0) /\ Weight(2) = 128 * Weight(1)
      /\ Weight(3) = 128 * Weight(2) /\ Weight(4) = 128 * Weight(3)
      /\ Weight(5) = 128 * Weight(4) /\ Weight(6) = 128 * Weight(5)
      /\ Weight(7) = 128 * Weight(6) /\ Weight(8) = 128 * Weight(7)
      /\ Weight(9) = 128 * Weight(8)
  BY DEF Weight
<1>3. \A i \in 0 .. 8 : Weight(i + 1) = 128 * Weight(i)
  BY <1>2
<1>4. \A i \in 0 .. 9 : Weight(i) \in Nat \ {0}
  BY <1>1, <1>2
<1> QED BY <1>1, <1>3, <1>4, Zenon

\* A number with one digit more.
LEMMA DigitsStep ==
    ASSUME NEW b, NEW o \in Nat, NEW i \in 0 .. 9, \A j \in 0 .. i : b[o + j + 1] \in Nat
    PROVE  Digits(b, o, i + 1) = Digits(b, o, i) + (b[o + i + 1] % 128) * Weight(i)
<1> DEFINE D(j) == (b[o + j + 1] % 128) * Weight(j)
           E(k, j) == IF j < k THEN D(j) ELSE 0
<1>1. \A j \in 0 .. i : D(j) \in Nat
  <2> TAKE j \in 0 .. i
  <2>1. b[o + j + 1] % 128 \in Nat /\ Weight(j) \in Nat
    BY WeightStep
  <2> QED BY <2>1
<1>2. \A k : Digits(b, o, k) = E(k, 0) + E(k, 1) + E(k, 2) + E(k, 3) + E(k, 4) + E(k, 5)
                                 + E(k, 6) + E(k, 7) + E(k, 8) + E(k, 9)
  BY Zenon DEF Digits
<1> SUFFICES Digits(b, o, i + 1) = Digits(b, o, i) + D(i)
  BY Zenon
<1> HIDE DEF D
<1>3. \A j \in 0 .. 9 : E(i, j) \in Nat /\ E(i + 1, j) = E(i, j) + (IF j = i THEN D(i) ELSE 0)
  BY <1>1
<1> HIDE DEF E
<1> QED BY <1>1, <1>2, <1>3

\* The weight of a digit divides those of the digits after it.
LEMMA WeightRatio ==
    ASSUME NEW i \in 0 .. 9, NEW n \in i .. 9
    PROVE  Weight(n) = Weight(n - i) * Weight(i)
<1> DEFINE P(j) == \A m \in j .. 9 : Weight(m) = Weight(m - j) * Weight(j)
<1>1. P(0)
  BY WeightStep
<1>2. ASSUME NEW j \in 0 .. 8, P(j) PROVE P(j + 1)
  <2> SUFFICES ASSUME NEW m \in j + 1 .. 9 PROVE Weight(m) = Weight(m - (j + 1)) * Weight(j + 1)
    BY Zenon
  <2> DEFINE x == Weight(m - (j + 1))
             y == Weight(j)
  <2>1. Weight(m) = Weight(m - j) * y
    BY <1>2
  <2>2. Weight(m - j) = 128 * x
    <3>1. m - (j + 1) \in 0 .. 8 /\ (m - (j + 1)) + 1 = m - j
      OBVIOUS
    <3> QED BY <3>1, WeightStep, Zenon
  <2>3. Weight(j + 1) = 128 * y
    BY WeightStep, Zenon
  <2>4. x \in Nat /\ y \in Nat
    <3>1. m - (j + 1) \in 0 .. 9 /\ j \in 0 .. 9
      OBVIOUS
    <3> QED BY <3>1, WeightStep, Zenon
  <2> HIDE DEF x, y
  <2>5. (128 * x) * y = x * (128 * y)
    BY <2>4
  <2> QED BY <2>1, <2>2, <2>3, <2>5, Zenon DEF x
<1> HIDE DEF P
<1>3. P(1) /\ P(2) /\ P(3)
  BY <1>1, <1>2
<1>4. P(4) /\ P(5) /\ P(6)
  BY <1>2, <1>3
<1>5. P(7) /\ P(8) /\ P(9)
  BY <1>2, <1>4
<1>6. P(i)
  BY <1>1, <1>3, <1>4, <1>5
<1> QED BY <1>6, Zenon DEF P

\* The weight of a digit that starts inside a word divides the size of the word, and
\* what does not fit of the digit is a whole number of words.
LEMMA WeightDivides ==
    ASSUME NEW i \in 0 .. 9, Weight(i) <= MaxU
    PROVE  \E c \in Nat \ {0} :
              /\ MaxU + 1 = c * Weight(i)
              /\ 128 * Weight(i) > MaxU => \E e \in Nat : 128 * Weight(i) = (MaxU + 1) * e
<1>1. PICK n \in 0 .. 9, b \in {2, 4, 8, 16, 32, 64, 128} : MaxU + 1 = Weight(n) * b
  BY BitsAssumption, Zenon
<1> DEFINE w == Weight(i)
<1>2. w \in Nat \ {0} /\ Weight(n) \in Nat \ {0} /\ MaxU \in Nat
  BY WeightStep, WidthAssumption, Zenon
<1>3. \A k \in 1 .. 9 : Weight(k) >= 128
  <2> TAKE k \in 1 .. 9
  <2>1. Weight(k) = 128 * Weight(k - 1)
    <3>1. k - 1 \in 0 .. 8 /\ (k - 1) + 1 = k
      OBVIOUS
    <3> QED BY <3>1, WeightStep
  <2>2. Weight(k - 1) \in Nat \ {0}
    BY WeightStep
  <2> QED BY <2>1, <2>2
<1>4. CASE n < i
  <2> DEFINE q == Weight(i - n)
             v == Weight(n)
  <2>1. w = q * v /\ q \in Nat /\ q >= 128
    <3>1. i - n \in 1 .. 9 /\ i - n \in 0 .. 9 /\ i \in n .. 9
      BY <1>4
    <3>2. w = q * v
      BY <3>1, WeightRatio, Zenon
    <3> QED BY <1>3, <3>1, <3>2, WeightStep, Zenon
  <2> HIDE DEF q, w
  <2>2. v \in Nat /\ b \in Nat /\ b <= 128
    BY <1>2
  <2> HIDE DEF v
  <2>3. q * v >= 128 * v /\ 128 * v >= v * b
    BY <2>1, <2>2
  <2> QED BY <1>1, <1>2, <2>1, <2>2, <2>3 DEF v, w
<1>5. CASE n = i
  <2> HIDE DEF w
  <2>1. MaxU + 1 = b * w /\ b \in Nat \ {0}
    BY <1>1, <1>2, <1>5 DEF w
  <2>2. PICK e \in Nat : 128 = b * e
    <3> DEFINE m == 128 \div b
    <3>1. m \in Nat /\ 128 = b * m
      OBVIOUS
    <3> QED BY <3>1, Zenon
  <2>3. (b * e) * w = (b * w) * e
    BY <1>2, <2>1, <2>2
  <2>4. 128 * w = (MaxU + 1) * e
    BY <2>1, <2>2, <2>3, Zenon
  <2> QED BY <2>1, <2>2, <2>4, Zenon DEF w
<1>6. CASE i < n
  <2> DEFINE q == Weight(n - i)
             c == q * b
  <2>1. Weight(n) = q * w /\ q \in Nat /\ q >= 128
    <3>1. n - i \in 1 .. 9 /\ n - i \in 0 .. 9 /\ n \in i .. 9
      BY <1>6
    <3>2. Weight(n) = q * w
      BY <3>1, WeightRatio, Zenon
    <3> QED BY <1>3, <3>1, <3>2, WeightStep, Zenon
  <2> HIDE DEF q, w
  <2>2. c \in Nat \ {0} /\ c >= 2 * 128
    BY <2>1
  <2>3. MaxU + 1 = c * w
    BY <1>1, <1>2, <2>1
  <2> HIDE DEF c
  <2>4. c * w >= 256 * w
    BY <1>2, <2>2
  <2>5. ~(128 * w > MaxU)
    BY <1>2, <2>3, <2>4
  <2> QED BY <2>2, <2>3, <2>5, Zenon DEF w
<1> QED BY <1>4, <1>5, <1>6

\* What a byte with the low bits x adds to v, the number of the digits before it.
LEMMA DigitAdds ==
    ASSUME NEW i \in 0 .. 9, Weight(i) <= MaxU, NEW v \in 0 .. Weight(i) - 1, NEW x \in 0 .. 127
    PROVE  DigitAdded(Weight(i), v, x)
<1> USE DEF DigitAdded
<1> DEFINE w == Weight(i)
           M == MaxU + 1
           n == v + x * w
<1>1. w \in Nat \ {0} /\ M \in Nat \ {0} /\ v \in 0 .. w - 1 /\ v \in Nat /\ MaxU \in Nat
  BY WeightStep, WidthAssumption
<1>2. PICK c \in Nat \ {0} : /\ M = c * w
                             /\ 128 * w > MaxU => \E e \in Nat : 128 * w = M * e
  BY WeightDivides, Zenon
<1> HIDE DEF w
<1>3. x * w \in Nat /\ x * w <= 127 * w /\ n \in Nat /\ n < 128 * w
  <2> DEFINE y == x * w
             z == (127 - x) * w
  <2>1. y \in Nat /\ z \in Nat /\ z = 127 * w - y
    BY <1>1
  <2> HIDE DEF y, z
  <2>2. y <= 127 * w /\ v + y \in Nat /\ v + y < 128 * w
    BY <1>1, <2>1
  <2> QED BY <2>1, <2>2, Zenon DEF y
<1>4. v + Wrap(x * w) = Wrap(n)
  <2>1. w > 0 /\ c > 0 /\ x \in Nat
    BY <1>1, <1>2
  <2>2. v + ((x * w) % (c * w)) = (v + x * w) % (c * w)
    BY <1>1, <2>1, DigitWraps, Zenon
  <2> QED BY <1>2, <2>2, Zenon DEF Wrap
<1>5. ASSUME w * 128 <= MaxU
      PROVE  /\ Wrap(n) = n /\ n < w * 128
             /\ n + (M - w * 128) = Wrap(n - 128 * w)
  <2>1. n \in 0 .. M - 1 /\ n - 128 * w \in -M .. -1 /\ n - 128 * w \in Int
    BY <1>1, <1>3, <1>5
  <2>2. n % M = n /\ (n - 128 * w) % M = n - 128 * w + M
    <3> HIDE DEF M, n
    <3> QED BY <1>1, <1>3, <2>1, ModNear
  <2> QED BY <1>1, <1>3, <2>2 DEF Wrap
<1>6. ASSUME w * 128 > MaxU PROVE Wrap(n) = Wrap(n - 128 * w)
  <2>1. PICK e \in Nat : 128 * w = M * e
    BY <1>1, <1>2, <1>6
  <2> DEFINE k == 0 - e
  <2>2. k \in Int /\ M * k = 0 - M * e
    BY <1>1
  <2>3. n - 128 * w = n + M * k /\ M > 0 /\ n \in Int
    BY <1>1, <1>3, <2>1, <2>2
  <2>4. (n + M * k) % M = n % M
    <3> HIDE DEF M, n, k
    <3> QED BY <1>1, <2>2, <2>3, ModPeriod, Zenon
  <2> QED BY <2>3, <2>4, Zenon DEF Wrap
<1> QED BY <1>4, <1>5, <1>6, Zenon DEF w

-----------------------------------------------------------------------------
(* The shape of the state *)

\* No step takes another input or changes what fields the parsed entries have.
LEMMA StepShape == [Next]_vars => SameShape
<1>1. Locate \/ Refuse \/ ReadFixed \/ ReadLeb128 \/ BuildDetails => SameShape
  BY Zenon DEF Locate, Refuse, ReadFixed, ReadLeb128, BuildDetails, Proceed, Go, Fail, Return,
               SameShape
<1>2. \A f : UseLength(f) \/ UseCieId(f) \/ UseCiePtr(f) => SameShape
  BY Zenon DEF UseLength, UseCieId, UseCiePtr, Proceed, Go, Fail, Return, SameShape
<1>3. \A f : StoreCieField(f) => SameShape
  BY Zenon DEF StoreCieField, Go, SameShape
<1>4. ScanAugmentation \/ UseSegmentSize \/ UseCieAugLen => SameShape
  BY Zenon DEF ScanAugmentation, UseSegmentSize, UseCieAugLen, Proceed, Go, Fail, Return,
               SameShape
<1>5. UseVersion \/ UsePersonality \/ CieEnd => SameShape
  BY Zenon DEF UseVersion, UsePersonality, CieEnd, Overrun, Proceed, Go, Fail, Return, SameShape
<1>6. UseRetAddrColumn => SameShape
  BY Zenon DEF UseRetAddrColumn, Proceed, Go, Fail, Return, SameShape
<1>7. AugChar => SameShape
  BY Zenon DEF AugChar, Proceed, Go, Fail, Return, SameShape
<1>8. UseInitialPc \/ UseRange \/ UseFdeAugLen => SameShape
  BY Zenon DEF UseInitialPc, UseRange, UseFdeAugLen, Proceed, Go, Fail, Return, SameShape
<1>9. UseLsda \/ FdeEnd => SameShape
  BY Zenon DEF UseLsda, FdeEnd, Overrun, Proceed, Go, Fail, Return, SameShape
<1>10. UNCHANGED vars => SameShape
  BY Zenon DEF vars, SameShape
<1> QED BY <1>1, <1>2, <1>3, <1>4, <1>5, <1>6, <1>7, <1>8, <1>9, <1>10, Zenon
        DEF Next, ParseCie, ParseFde

-----------------------------------------------------------------------------
(* A field in the section *)

\* A number without digits.
LEMMA DigitsNone == \A b, o : Digits(b, o, 0) = 0
BY DEF Digits

\* No row is empty.
LEMMA RowForward ==
    ASSUME NEW b, NEW r, r.at \in Nat, r.to \in Nat, Holds(b, r)
    PROVE  r.at < r.to
<1>1. CASE r.fmt \in Fixed
  <2>1. r.to = r.at + FixedSize(r.fmt)
    BY <1>1, Zenon DEF Holds, Fixed
  <2> QED BY <2>1, Sizes
<1>2. CASE r.fmt \in {"uleb", "sleb"}
  <2>1. (r.to - r.at) - 1 \in 0 .. 9
    BY <1>2, Zenon DEF Holds, IsLeb128, Fixed
  <2> QED BY <2>1
<1> QED BY <1>1, <1>2, Zenon DEF Holds

\* A new field is read from its start.
LEMMA StandFresh ==
    ASSUME NEW r, r.at \in Nat, r.to \in Nat, Holds(input.bytes, r)', Format' = r.fmt,
           Refusal' = "none", cur'.stage = "read", cur'.start = r.at, cur'.pos = r.at,
           cur'.val = 0, cur'.weight = 1
    PROVE  Stand(r)'
<1>1. r.at < r.to
  BY RowForward, Zenon
<1>2. Inside(r, 0)'
  BY <1>1, DigitsNone DEF Inside, Weight
<1>3. 0 \in 0 .. 9
  OBVIOUS
<1>4. Placed(r)'
  BY <1>2, <1>3, Zenon DEF Placed
<1> QED BY <1>4, Zenon DEF Stand

-----------------------------------------------------------------------------
(* Reading *)

\* How a field is read depends on the CIE alone.
LEMMA FormatFixed ==
    ASSUME cur'.field = cur.field, cie' = cie
    PROVE  Format' = Format /\ Refusal' = Refusal
BY Zenon DEF Format, Refusal, Encoding

\* A fixed-size field is read as it stands.
LEMMA ReadFixedExact ==
    ASSUME Shaped, NEW r, Stand(r), ReadFixed
    PROVE  ReadOn /\ Stand(r)'
<1>1. cur.stage = "read" /\ Format = r.fmt /\ r.fmt \in Fixed /\ Refusal = "none"
      /\ r.at \in Nat /\ r.to \in Nat /\ Holds(input.bytes, r) /\ cur.start = r.at
  BY Zenon DEF ReadFixed, MayRead, Stand, Placed
<1>2. cur.pos = r.at
  <2>1. PICK i \in 0 .. 9 : Inside(r, i)
    BY <1>1, Zenon DEF Stand, Placed
  <2> QED BY <1>1, <2>1 DEF Inside
<1>3. r.to = r.at + FixedSize(r.fmt) /\ r.to <= Size /\ IsFixed(input.bytes, r)
  BY <1>1, Zenon DEF Holds, Size, Fixed
<1>4. FixedValue(r.fmt, r.at) = r.word
  <2> DEFINE size == FixedSize(r.fmt)
             v == LittleEndian(input.bytes, r.at, size)
  <2>1. size \in Nat /\ v \in Nat /\ MaxU - Max16 \in Nat /\ MaxU - Max32 \in Nat
    BY <1>1, <1>3, Sizes, LittleEndianType, WidthAssumption DEF Shaped, Addr
  <2>2. At(r.at + size - 1) = input.bytes[r.at + size]
    BY <1>1, <2>1 DEF At
  <2>3. r.word = v + (IF ~(input.bytes[r.at + size] >= 128) THEN 0
                      ELSE IF r.fmt = "s16" THEN MaxU - Max16
                      ELSE IF r.fmt = "s32" THEN MaxU - Max32 ELSE 0)
    BY <1>3, Zenon DEF IsFixed
  <2>4. FixedValue(r.fmt, r.at) =
          CASE r.fmt = "s16" /\ input.bytes[r.at + size] >= 128 -> v + (MaxU - Max16)
            [] r.fmt = "s32" /\ input.bytes[r.at + size] >= 128 -> v + (MaxU - Max32)
            [] OTHER -> v
    BY <2>2, Zenon DEF FixedValue
  <2> HIDE DEF v, size
  <2> QED BY <2>1, <2>3, <2>4
<1>5. ~(cur.pos + FixedSize(Format) > Size)
  BY <1>1, <1>2, <1>3, SizeType DEF Shaped
<1>6. Go(Advance("use", r.to, r.word, 1), cie, fde)
  BY <1>1, <1>2, <1>3, <1>4, <1>5, Zenon DEF ReadFixed, Proceed
<1>7. ReadOn /\ cur'.stage = "use" /\ cur'.pos = r.to /\ cur'.val = r.word /\ cur'.start = r.at
  BY <1>1, <1>6, Zenon DEF Go, Advance, ReadOn
<1>8. Placed(r)'
  BY <1>7, Zenon DEF Placed
<1>9. Format' = r.fmt /\ Refusal' = "none"
  BY <1>1, <1>7, FormatFixed, Zenon DEF ReadOn
<1> QED BY <1>1, <1>7, <1>8, <1>9, Zenon DEF Stand, ReadOn

\* The bytes of a LEB128 field.
LEMMA LebBytes ==
    ASSUME Shaped, NEW r, Stand(r), r.fmt \in {"uleb", "sleb"}
    PROVE  LebPlaces(r)
<1> USE DEF LebPlaces
<1> DEFINE last == r.to - r.at - 1
<1>1. r.at \in Nat /\ r.to \in Nat /\ Holds(input.bytes, r) /\ input \in Inputs
  BY Zenon DEF Stand, Shaped
<1>2. IsLeb128(input.bytes, r) /\ r.to <= Size
  BY <1>1, Zenon DEF Holds, Fixed, Size
<1>3. /\ last \in 0 .. 9 /\ Weight(last) <= MaxU /\ input.bytes[r.to] < 128
      /\ \A i \in 1 .. last : input.bytes[r.at + i] >= 128
  BY <1>2, Zenon DEF IsLeb128
<1>4. r.to = r.at + last + 1 /\ Size \in Nat
  BY <1>1, <1>3, SizeType
<1> HIDE DEF last
<1>5. ASSUME NEW i \in 0 .. last
      PROVE  At(r.at + i) \in Byte /\ At(r.at + i) = input.bytes[r.at + i + 1]
  <2>1. r.at + i \in Nat /\ r.at + i < Size
    BY <1>1, <1>2, <1>3, <1>4
  <2> QED BY <1>1, <2>1, AtType, Zenon DEF At
<1>6. ASSUME NEW i \in 0 .. last
      PROVE  IF i < last THEN At(r.at + i) >= 128 ELSE At(r.at + i) < 128
  <2>1. CASE i < last
    <3>1. i + 1 \in 1 .. last /\ r.at + (i + 1) = r.at + i + 1
      BY <1>1, <1>3, <2>1
    <3> QED BY <1>3, <1>5, <2>1, <3>1, Zenon
  <2>2. CASE ~(i < last)
    <3>1. i = last /\ r.at + i + 1 = r.to
      BY <1>1, <1>3, <1>4, <2>2
    <3> QED BY <1>3, <1>5, <2>2, <3>1, Zenon
  <2> QED BY <2>1, <2>2, Zenon
<1> QED BY <1>1, <1>2, <1>3, <1>4, <1>5, <1>6, Zenon DEF last

\* The word of a LEB128 field.
LEMMA LebWord ==
    ASSUME NEW r, Holds(input.bytes, r), r.fmt \in {"uleb", "sleb"}
    PROVE  LET last == r.to - r.at - 1 IN
           r.word = IF r.fmt = "sleb" /\ input.bytes[r.to] >= 64
                    THEN Wrap(Digits(input.bytes, r.at, last + 1) - 128 * Weight(last))
                    ELSE Wrap(Digits(input.bytes, r.at, last + 1) - 0)
<1>1. IsLeb128(input.bytes, r)
  BY Zenon DEF Holds, Fixed
<1> QED BY <1>1, Zenon DEF IsLeb128

\* The cursor in a LEB128 field stands at one of its digits.
LEMMA LebDigit ==
    ASSUME Shaped, NEW r, LebPlaces(r), NEW i \in 0 .. 9, Inside(r, i)
    PROVE  DigitAt(r, i, r.to - r.at - 1)
<1> DEFINE last == r.to - r.at - 1
<1>1. /\ r.at \in Nat /\ last \in 0 .. 9 /\ r.to = r.at + last + 1 /\ r.to <= Size
      /\ Weight(last) <= MaxU
  BY Zenon DEF LebPlaces
<1>2. /\ \A j \in 0 .. last : At(r.at + j) \in Byte /\ At(r.at + j) = input.bytes[r.at + j + 1]
      /\ \A j \in 0 .. last : IF j < last THEN At(r.at + j) >= 128 ELSE At(r.at + j) < 128
  BY Zenon DEF LebPlaces
<1>3. r.at + i < r.to /\ cur.pos = r.at + i /\ cur.weight = Weight(i)
  BY Zenon DEF Inside
<1>4. Size \in Nat /\ MaxU \in Nat
  BY SizeType, Zenon DEF Shaped
<1> HIDE DEF last
<1>5. i \in 0 .. last /\ cur.pos < Size
  BY <1>1, <1>3, <1>4
<1>6. /\ At(cur.pos) \in Byte /\ At(cur.pos) = input.bytes[r.at + i + 1]
      /\ IF i < last THEN At(cur.pos) >= 128 ELSE At(cur.pos) < 128
  BY <1>2, <1>3, <1>5, Zenon
<1>7. ASSUME NEW j \in 0 .. last PROVE Weight(j) <= Weight(last) /\ Weight(j) \in Nat \ {0}
  <2>1. j \in 0 .. 9 /\ last \in j .. 9 /\ last - j \in 0 .. 9
    BY <1>1
  <2>2. Weight(last) = Weight(last - j) * Weight(j)
    BY <2>1, WeightRatio, Zenon
  <2>3. Weight(last - j) \in Nat \ {0} /\ Weight(j) \in Nat \ {0}
    BY <2>1, WeightStep, Zenon
  <2> QED BY <2>2, <2>3
<1>8. Weight(i) \in Nat \ {0} /\ Weight(i) <= MaxU
  <2>1. Weight(last) \in Nat
    BY <1>1, WeightStep, Zenon
  <2> QED BY <1>1, <1>4, <1>5, <1>7, <2>1
<1>9. ASSUME i < last PROVE Weight(i) * 128 <= MaxU /\ Weight(i + 1) = Weight(i) * 128
  <2>1. i \in 0 .. 8 /\ i + 1 \in 0 .. last
    BY <1>1, <1>5, <1>9
  <2>2. Weight(i + 1) = 128 * Weight(i) /\ Weight(last) \in Nat
    BY <1>1, <2>1, WeightStep, Zenon
  <2>3. Weight(i + 1) <= Weight(last)
    BY <1>7, <2>1, Zenon
  <2> QED BY <1>1, <1>4, <1>8, <2>2, <2>3
<1>10. DigitAt(r, i, last)
  BY <1>1, <1>3, <1>4, <1>5, <1>6, <1>8, <1>9, Zenon DEF DigitAt
<1> QED BY <1>10, Zenon DEF last

\* What the digit adds to the number.
LEMMA LebAdds ==
    ASSUME NEW r, LebPlaces(r), NEW i \in 0 .. 9, Inside(r, i), DigitAt(r, i, r.to - r.at - 1)
    PROVE  DigitIs(r, i)
<1> DEFINE x == At(cur.pos) % 128
           b == input.bytes
           last == r.to - r.at - 1
<1>1. x \in 0 .. 127
  <2>1. \A y \in Byte : y % 128 \in 0 .. 127
    BY DEF Byte
  <2> QED BY <2>1, Zenon DEF DigitAt
<1>2. \A y \in Byte : y \in Nat
  BY DEF Byte
<1>3. /\ cur.val = Digits(b, r.at, i) /\ cur.weight = Weight(i) /\ Weight(i) <= MaxU
      /\ cur.val \in 0 .. Weight(i) - 1 /\ At(cur.pos) = b[r.at + i + 1] /\ r.at \in Nat
      /\ i \in 0 .. last /\ last \in 0 .. 9
  BY Zenon DEF Inside, DigitAt
<1>4. Digits(b, r.at, i + 1) = cur.val + x * cur.weight
  <2>1. ASSUME NEW j \in 0 .. i PROVE b[r.at + j + 1] \in Nat
    <3>1. j \in 0 .. last
      <4> HIDE DEF last
      <4> QED BY <1>3
    <3>2. b[r.at + j + 1] \in Byte
      BY <3>1, Zenon DEF LebPlaces
    <3> QED BY <1>2, <3>2, Zenon
  <2>2. Digits(b, r.at, i + 1) = Digits(b, r.at, i) + (b[r.at + i + 1] % 128) * Weight(i)
    BY <1>3, <2>1, DigitsStep
  <2> QED BY <1>3, <2>2, Zenon
<1> HIDE DEF x
<1>5. DigitAdded(cur.weight, cur.val, x)
  BY <1>1, <1>3, DigitAdds, Zenon
<1> QED BY <1>1, <1>3, <1>4, <1>5, Zenon DEF DigitIs, x

\* A digit that is not the last one is added to the number.
LEMMA LebNext ==
    ASSUME NEW r, NEW i \in 0 .. 9, DigitAt(r, i, r.to - r.at - 1), DigitIs(r, i),
           i < r.to - r.at - 1, r.fmt \notin Fixed, cur.start = r.at, ReadLeb128
    PROVE  ReadOn /\ Placed(r)'
<1> DEFINE x == At(cur.pos) % 128
           w == cur.weight
           sum == cur.val + Wrap(x * w)
           last == r.to - r.at - 1
<1>1. w * 128 <= MaxU /\ At(cur.pos) >= 128 /\ Weight(i + 1) = w * 128
  BY Zenon DEF DigitAt
<1>2. /\ w \in Nat /\ MaxU \in Nat /\ cur.pos < Size /\ Size \in Nat /\ At(cur.pos) \in Nat
      /\ r.at \in Nat /\ r.to = r.at + last + 1 /\ last \in 0 .. 9 /\ cur.pos = r.at + i
  BY DEF DigitAt, Byte
<1>3. sum = Digits(input.bytes, r.at, i + 1) /\ sum \in 0 .. w * 128 - 1
  <2>1. /\ DigitAdded(w, cur.val, x) /\ cur.val \in 0 .. w - 1 /\ x \in 0 .. 127
        /\ Digits(input.bytes, r.at, i + 1) = cur.val + x * w
    BY Zenon DEF DigitIs
  <2> HIDE DEF x, w
  <2>2. sum = cur.val + x * w /\ sum < w * 128
    BY <1>1, <2>1, Zenon DEF DigitAdded
  <2>3. cur.val \in Nat /\ x * w \in Nat
    BY <1>2, <2>1
  <2> HIDE DEF sum
  <2>4. sum \in 0 .. w * 128 - 1
    BY <1>2, <2>2, <2>3
  <2> QED BY <2>1, <2>2, <2>4, Zenon
<1>4. ~(cur.pos >= Size) /\ ~(At(cur.pos) < 128) /\ ~(w * 128 > MaxU)
  BY <1>1, <1>2
<1>5. Go(Advance("read", cur.pos + 1, sum, w * 128), cie, fde)
  BY <1>4, Zenon DEF ReadLeb128, Proceed
<1> HIDE DEF sum, w, last
<1>6. /\ ReadOn /\ cur'.stage = "read" /\ cur'.pos = cur.pos + 1 /\ cur'.val = sum
      /\ cur'.weight = w * 128 /\ cur'.start = r.at
  <2>1. result = None
    BY Zenon DEF ReadLeb128, MayRead
  <2> QED BY <1>5, <2>1, Zenon DEF Go, Advance, ReadOn
<1>7. i + 1 \in 0 .. 9 /\ r.at + (i + 1) < r.to /\ cur.pos + 1 = r.at + (i + 1)
  <2>1. i < last
    BY Zenon DEF last
  <2> QED BY <1>2, <2>1
<1>8. Inside(r, i + 1)'
  BY <1>1, <1>3, <1>6, <1>7, Zenon DEF Inside, ReadOn
<1> QED BY <1>6, <1>7, <1>8, Zenon DEF Placed

\* The last digit is added with the sign.
LEMMA LebLast ==
    ASSUME NEW r, DigitAt(r, r.to - r.at - 1, r.to - r.at - 1), DigitIs(r, r.to - r.at - 1),
           Holds(input.bytes, r), Format = r.fmt, r.fmt \in {"uleb", "sleb"}, cur.start = r.at,
           ReadLeb128
    PROVE  ReadOn /\ Placed(r)'
<1> DEFINE byte == At(cur.pos)
           last == r.to - r.at - 1
           x == byte % 128
           w == cur.weight
           n == cur.val + x * w
           sum == cur.val + Wrap(x * w)
           signed == Format = "sleb" /\ byte >= 64 /\ w * 128 <= MaxU
           value == IF signed THEN sum + (MaxU + 1 - w * 128) ELSE sum
<1>1. /\ w \in Nat /\ MaxU \in Nat /\ cur.pos < Size /\ Size \in Nat /\ byte \in Nat
      /\ r.at \in Nat /\ r.to = r.at + last + 1 /\ last \in Nat /\ cur.pos = r.at + last
  <2>1. w \in Nat \ {0} /\ byte \in 0 .. 255 /\ last \in 0 .. 9
    BY Zenon DEF DigitAt, Byte
  <2>2. w \in Nat /\ byte \in Nat /\ last \in Nat
    <3> HIDE DEF w, byte, last
    <3> QED BY <2>1
  <2> QED BY <2>2, Zenon DEF DigitAt
<1>2. byte < 128 /\ byte = input.bytes[r.at + last + 1] /\ w = Weight(last)
  <2>1. ~(last < last)
    <3> HIDE DEF last
    <3> QED BY <1>1
  <2> QED BY <2>1, Zenon DEF DigitAt
<1>3. r.word = IF r.fmt = "sleb" /\ byte >= 64 THEN Wrap(n - 128 * w) ELSE Wrap(n - 0)
  <2>1. r.word = IF r.fmt = "sleb" /\ input.bytes[r.to] >= 64
                 THEN Wrap(Digits(input.bytes, r.at, last + 1) - 128 * Weight(last))
                 ELSE Wrap(Digits(input.bytes, r.at, last + 1) - 0)
    BY LebWord, Zenon
  <2>2. Digits(input.bytes, r.at, last + 1) = n
    BY Zenon DEF DigitIs
  <2> HIDE DEF n, last, byte, w
  <2>3. input.bytes[r.to] = byte
    BY <1>1, <1>2, Zenon
  <2> QED BY <1>2, <2>1, <2>2, <2>3, Zenon
<1>4. /\ sum = Wrap(n)
      /\ w * 128 <= MaxU => /\ Wrap(n) = n /\ n + ((MaxU + 1) - w * 128) = Wrap(n - 128 * w)
      /\ w * 128 > MaxU => Wrap(n) = Wrap(n - 128 * w)
  <2>1. DigitAdded(w, cur.val, x)
    BY Zenon DEF DigitIs
  <2> HIDE DEF x, w
  <2> QED BY <2>1, Zenon DEF DigitAdded
<1>5. cur.val \in Nat /\ x \in Nat
  <2>1. cur.val \in 0 .. w - 1 /\ x \in 0 .. 127
    BY Zenon DEF DigitIs
  <2> HIDE DEF x, w
  <2> QED BY <1>1, <2>1
<1>6. Go(Advance("use", cur.pos + 1, value, 1), cie, fde)
  <2>1. ~(cur.pos >= Size) /\ ~(byte >= 128)
    BY <1>1, <1>2
  <2> QED BY <2>1, Zenon DEF ReadLeb128
<1> HIDE DEF x, sum, w, byte, last
<1>7. n \in Nat /\ n - 0 = n
  <2>1. x * w \in Nat
    BY <1>1, <1>5
  <2> QED BY <1>5, <2>1
<1> HIDE DEF n
<1>8. value = r.word
  <2>1. w * 128 \in Nat
    BY <1>1
  <2>2. MaxU + 1 - w * 128 = (MaxU + 1) - w * 128 /\ (w * 128 <= MaxU \/ w * 128 > MaxU)
    BY <1>1, <2>1
  <2> QED BY <1>3, <1>4, <1>7, <2>2, Zenon
<1> HIDE DEF value
<1>9. ReadOn /\ cur'.stage = "use" /\ cur'.pos = r.to /\ cur'.val = r.word /\ cur'.start = r.at
  <2>1. cur.pos + 1 = r.to
    BY <1>1, Zenon
  <2>2. result = None
    BY Zenon DEF ReadLeb128, MayRead
  <2> QED BY <1>6, <1>8, <2>1, <2>2, Zenon DEF Go, Advance, ReadOn
<1> QED BY <1>9, Zenon DEF Placed

\* A LEB128 byte is read as the digit it stands for, the last one with the sign.
LEMMA ReadLeb128Exact ==
    ASSUME Shaped, NEW r, Stand(r), ReadLeb128
    PROVE  ReadOn /\ Stand(r)'
<1> DEFINE last == r.to - r.at - 1
<1>1. /\ cur.stage = "read" /\ Format = r.fmt /\ r.fmt \in {"uleb", "sleb"} /\ Refusal = "none"
      /\ Holds(input.bytes, r) /\ cur.start = r.at /\ r.at \in Nat /\ r.to \in Nat
  BY Zenon DEF ReadLeb128, MayRead, Stand, Placed
<1>2. PICK i \in 0 .. 9 : Inside(r, i)
  BY <1>1, Zenon DEF Stand, Placed
<1>3. LebPlaces(r)
  BY <1>1, LebBytes, Zenon
<1>4. DigitAt(r, i, last) /\ DigitIs(r, i)
  BY <1>2, <1>3, LebDigit, LebAdds, Zenon
<1>5. ReadOn /\ Placed(r)'
  <2>1. i < last \/ i = last
    <3>1. i \in 0 .. last /\ last \in 0 .. 9
      BY <1>4, Zenon DEF DigitAt
    <3> HIDE DEF last
    <3> QED BY <3>1
  <2>2. CASE i < last
    <3>1. r.fmt \notin Fixed
      BY <1>1, Zenon DEF Fixed
    <3> QED BY <1>1, <1>4, <2>2, <3>1, LebNext, Zenon
  <2>3. CASE i = last
    <3>1. DigitAt(r, last, last) /\ DigitIs(r, last)
      BY <1>4, <2>3, Zenon
    <3> QED BY <1>1, <3>1, LebLast, Zenon
  <2> QED BY <2>1, <2>2, <2>3, Zenon
<1>6. Format' = r.fmt /\ Refusal' = "none"
  BY <1>1, <1>5, FormatFixed, Zenon DEF ReadOn
<1>7. input' = input
  BY <1>5, Zenon DEF ReadOn
<1> QED BY <1>1, <1>5, <1>6, <1>7, Zenon DEF Stand

\* Nothing is read and nothing refused where there is no field.
LEMMA MarkRead ==
    ASSUME cur.field \in MarkFields
    PROVE  Format = "none" /\ Refusal = "none"
BY Zenon DEF MarkFields, Format, Refusal, Pointers

\* The parser has gathered the same where neither its entries nor its field change.
LEMMA GatheredKept ==
    ASSUME NEW d, NEW k, Gathered(d, k), cur'.field = cur.field, cur'.end = cur.end,
           cur'.todo = cur.todo, cie' = cie, fde' = fde
    PROVE  Gathered(d, k)'
<1>1. Chars(d, k, Phase[cur.field])'
  <2>1. \A j : Seen(d, j) => Seen(d, j)'
    BY Zenon DEF Seen
  <2>2. Rest(d, k) => Rest(d, k)'
    BY Zenon DEF Rest
  <2> QED BY <2>1, <2>2, Zenon DEF Gathered, Groups, Chars
<1>2. Columns(d, Phase[cur.field])'
  BY Zenon DEF Gathered, Groups, Columns
<1>3. Function(d, Phase[cur.field])'
  BY Zenon DEF Gathered, Groups, Function
<1> QED BY <1>1, <1>2, <1>3, Zenon DEF Gathered, Groups, Ends

\* A read stays in its row.
LEMMA ReadTrack == Keeps(ReadFixed \/ ReadLeb128)
<1> SUFFICES ASSUME Shaped, NEW d \in Layouts, NEW k \in Nat, Known(d, k), Track(d, k),
                    ReadFixed \/ ReadLeb128
             PROVE  OnTrack(d)
  BY Zenon DEF Keeps
<1>1. cur.field \notin MarkFields /\ result = None
  BY MarkRead, Zenon DEF ReadFixed, ReadLeb128, MayRead, Fixed
<1>2. PICK f : cur.field = f
  BY Zenon
<1>3. Stand(RowOf(d, k, f)) /\ Spot(d, k) /\ Gathered(d, k)
  BY <1>1, <1>2, Zenon DEF Track, Spot
<1>4. ReadOn /\ Stand(RowOf(d, k, f))'
  BY <1>3, ReadFixedExact, ReadLeb128Exact, Zenon
<1>5. cur'.field = cur.field /\ cie' = cie /\ fde' = fde /\ result' = None
      /\ cur'.end = cur.end /\ cur'.todo = cur.todo
  BY <1>1, <1>4, Zenon DEF ReadOn
<1>6. Gathered(d, k)'
  BY <1>3, <1>5, GatheredKept, Zenon
<1>7. Spot(d, k)'
  BY <1>1, <1>2, <1>3, <1>4, <1>5, Zenon DEF Spot
<1> QED BY <1>5, <1>6, <1>7, Zenon DEF OnTrack, Track

\* Nothing that the section has is refused.
LEMMA RefuseTrack ==
    ASSUME NEW d, NEW k, Track(d, k)
    PROVE  ~Refuse
<1>1. Refusal = "none"
  BY MarkRead, Zenon DEF Track, Spot, Stand
<1> QED BY <1>1, Zenon DEF Refuse

-----------------------------------------------------------------------------
(* The rows of a layout *)

\* The offsets and values of a layout.
LEMMA LayoutTypes ==
    ASSUME NEW d \in Layouts, HasLayout(input, d)
    PROVE  CieTyped(d) /\ FdeTyped(d) /\ PointersTyped(d) /\ AugTyped(d)
<1>1. /\ d.at \in [Offsets -> Nat] /\ d.data \in Seq(Nat) /\ d.aug \in Seq(Byte \ {0})
      /\ d.cie_size \in {"u32", "u64"} /\ d.fde_size \in {"u32", "u64"}
      /\ d.version \in {1, 3, 4} /\ d.range \in Addr /\ PointersTyped(d)
  BY Zenon DEF Layouts, PointersTyped
<1>2. \A x \in Offsets : d.at[x] \in Nat
  BY <1>1, Zenon
<1>3. CieTyped(d) /\ FdeTyped(d)
  BY <1>1, <1>2, Zenon DEF Offsets, CieTyped, FdeTyped, PointersTyped
<1>4. Len(d.data) = Len(d.aug) + 1
  BY Zenon DEF HasLayout, AugHolds
<1>5. AugTyped(d)
  BY <1>1, <1>4 DEF AugTyped
<1> QED BY <1>1, <1>3, <1>5, Zenon

\* What is known of a layout of the section.
LEMMA LayoutKnown ==
    ASSUME input \in Inputs, NEW d \in Layouts, HasLayout(input, d), NEW k
    PROVE  Known(d, k)
<1>1. Phases
  BY DEF Phase, Fields, Phases
<1>2. CieTable(d, k)
  BY Zenon DEF RowOf, Rows, LengthRow, CharFields, Row, IsRow, CieTable
<1>3. AugTable(d, k)
  BY Zenon DEF RowOf, CharRows, CharFields, PersonalityBase, Row, IsRow, AugTable
<1>4. FdeTable(d, k)
  BY Zenon DEF RowOf, Rows, LengthRow, CharFields, PcBase, LsdaBase, Row, IsRow, FdeTable
<1>5. Fits(d)
  <2>1. d.data[1] \in Nat
    BY LayoutTypes DEF AugTyped
  <2>2. U32 \in Nat \ {0} /\ U64 \in Nat \ {0}
    BY Sizes
  <2> QED BY <2>1, <2>2, SizeType, Zenon DEF HasLayout, Fits, Size
<1> QED BY <1>1, <1>2, <1>3, <1>4, <1>5, LayoutTypes, Zenon DEF Known

\* A row of a present field is held.
LEMMA PresentHolds ==
    ASSUME NEW d, NEW k, HasLayout(input, d), NEW f \in Present(d)
    PROVE  Holds(input.bytes, RowOf(d, k, f)) /\ f \in RowFields
<1>1. Holds(input.bytes, Rows(d)[f])
  BY Zenon DEF HasLayout
<1>2. f \in RowFields /\ f \notin CharFields
  BY Zenon DEF Present, RowFields, CharFields
<1> QED BY <1>1, <1>2, Zenon DEF RowOf

\* So is a row of the augmentation data.
LEMMA CharHeld ==
    ASSUME NEW d, NEW k \in 2 .. Len(d.aug), Known(d, k)
    PROVE  CharTable(d, k)
<1> DEFINE r == CharRows(d, k)
<1>1. CharHolds(input.bytes, d, k)
  BY Zenon DEF Known, HasLayout, AugHolds
<1>2. /\ r.R = RowOf(d, k, "R") /\ r.L = RowOf(d, k, "L") /\ r.P = RowOf(d, k, "P")
      /\ r.personality = RowOf(d, k, "personality")
  BY Zenon DEF RowOf, CharFields
<1>3. r.personality.at = d.data[k] + 1
  BY <1>2, Zenon DEF IsRow, AugTable, Known
<1> HIDE DEF r
<1>4. CASE d.aug[k] \in {80, 76, 82}
  BY <1>1, <1>2, <1>3, <1>4 DEF CharHolds, PersonalityBase, CharTable, r
<1>5. CASE d.aug[k] \notin {80, 76, 82}
  BY <1>1, <1>5, Zenon DEF CharHolds, CharTable
<1> QED BY <1>4, <1>5, Zenon

-----------------------------------------------------------------------------
(* Steps *)

\* A field that was read holds the word of its row.
LEMMA TrackRead ==
    ASSUME NEW d, NEW k, NEW f, Known(d, k), Track(d, k), Using(f)
    PROVE  HasRead(d, k, f) /\ Groups(d, k, Phase[f]) /\ Ends(d)
<1>1. result = None /\ cur.field = f /\ cur.stage = "use" /\ f \notin MarkFields
  BY Zenon DEF Using, Track, Spot
<1>2. Stand(RowOf(d, k, f)) /\ (f \in RowFields => f \in Present(d))
  BY <1>1, Zenon DEF Track, Spot
<1>3. Groups(d, k, Phase[f]) /\ Ends(d)
  BY <1>1, Zenon DEF Track, Gathered
<1> QED BY <1>1, <1>2, <1>3, Zenon DEF HasRead, Stand, Placed

\* Where a held row begins, the cursor is ready to read it.
LEMMA RowTrack ==
    ASSUME NEW d, NEW k \in Nat, NEW f, NEW c, NEW e, Moved(f, RowOf(d, k, f).at, c, e),
           f \notin MarkFields, f \in RowFields => f \in Present(d), Gathered(d, k)',
           RowOf(d, k, f).at \in Nat, RowOf(d, k, f).to \in Nat,
           Holds(input.bytes, RowOf(d, k, f)), Format' = RowOf(d, k, f).fmt, Refusal' = "none"
    PROVE  OnTrack(d)
<1> DEFINE r == RowOf(d, k, f)
<1> HIDE DEF r
<1>1. /\ r.at \in Nat /\ r.to \in Nat /\ Holds(input.bytes, r)' /\ Format' = r.fmt
      /\ Refusal' = "none" /\ cur'.stage = "read" /\ cur'.start = r.at /\ cur'.pos = r.at
      /\ cur'.val = 0 /\ cur'.weight = 1 /\ cur'.field = f /\ result' = None
  BY Zenon DEF r, Moved, NewField
<1>2. Stand(r)'
  BY <1>1, StandFresh, Zenon
<1>3. Track(d, k)'
  BY <1>1, <1>2, Zenon DEF Track, Spot, r
<1> QED BY <1>1, <1>3, Zenon DEF OnTrack

\* The fields of the CIE after one was stored.
LEMMA CieChange ==
    ASSUME Shaped, NEW x \in CieNames, NEW v, cie' = [cie EXCEPT ![x] = v]
    PROVE  cie'[x] = v /\ CieKeeps({x})
BY Zenon DEF Shaped, CieNames, CieKeeps

\* What is known of the characters stays.
LEMMA CharsKept ==
    ASSUME NEW d, NEW k, NEW p, NEW q, Chars(d, k, p), SameChars(p, q)
    PROVE  Chars(d, k, q)'
<1>1. Seen(d, k)'
  BY DEF Chars, SameChars, Seen
<1>2. p \in 6 .. 10 /\ q \in 6 .. 10 => Rest(d, k)'
  <2>1. Rest(d, k) /\ cur'.todo = cur.todo => Rest(d, k)'
    BY Zenon DEF Rest
  <2> QED BY <2>1 DEF Chars, SameChars
<1>3. cur'.field \notin DOMAIN CharOf /\ cur'.field # "personality"
  BY Zenon DEF SameChars, CharOf
<1>4. CASE p \in 0 .. 5 /\ q \in 0 .. 5
  BY <1>1, <1>3, <1>4 DEF Chars
<1>5. CASE p \in 6 .. 10 /\ q \in 6 .. 10
  BY <1>1, <1>2, <1>3, <1>5 DEF Chars
<1>6. CASE p \in 13 .. 22 /\ q \in 13 .. 22
  BY <1>1, <1>3, <1>6 DEF Chars
<1> QED BY <1>4, <1>5, <1>6, Zenon DEF SameChars

\* The cursor arrives where no field is.
LEMMA MarkTrack ==
    ASSUME NEW d, NEW k \in Nat, NEW f \in MarkFields, NEW c, NEW e,
           Moved(f, Marks(d, k)[f], c, e), Gathered(d, k)'
    PROVE  OnTrack(d)
<1>1. f \notin RowFields
  BY Zenon DEF MarkFields, RowFields
<1>2. Track(d, k)'
  BY <1>1, Zenon DEF Moved, NewField, Track, Spot
<1> QED BY <1>2, Zenon DEF OnTrack, Moved

\* The cursor arrives at a present field that is not a pointer.
LEMMA PlainTrack ==
    ASSUME NEW d, NEW k \in Nat, Known(d, k), NEW f \in Present(d), f \notin Pointers,
           NEW c, NEW e, Moved(f, RowOf(d, k, f).at, c, e), Gathered(d, k)'
    PROVE  OnTrack(d)
<1>1. Holds(input.bytes, RowOf(d, k, f)) /\ f \in RowFields
  BY PresentHolds, Zenon DEF Known
<1>2. f \notin MarkFields /\ Refusal' = "none" /\ cur'.field = f
  BY <1>1, Zenon DEF RowFields, MarkFields, Moved, NewField, Refusal
<1>3. f = "ret_addr_column" => cie'.version = d.version
  BY <1>2 DEF Gathered, Groups, Columns, Known, Phases
<1>4. /\ d.data[1] \in Nat /\ d.at.cie \in Nat /\ d.at.cie_id \in Nat /\ d.at.version \in Nat
      /\ d.at.aug \in Nat /\ d.at.sizes \in Nat /\ d.at.code_align \in Nat
      /\ d.at.data_align \in Nat /\ d.at.ra \in Nat /\ d.at.fde \in Nat /\ d.at.cie_ptr \in Nat
      /\ d.at.initial_pc \in Nat /\ d.at.fde_aug \in Nat /\ d.at.lsda \in Nat
      /\ U32 \in Nat
  BY Zenon DEF Known, Fits, CieTyped, FdeTyped
<1> DEFINE r == RowOf(d, k, f)
           from(g) == RowOf(d, k, g).at
           to(g) == RowOf(d, k, g).to
<1>5. CASE f \in {"cie_length", "cie_length64", "cie_id", "cie_id64", "version"}
  <2>1. r.at \in Nat /\ r.to \in Nat
    <3>1. /\ from("cie_length") = d.at.cie /\ to("cie_length") = d.at.cie + U32
          /\ from("cie_length64") = d.at.cie + U32 /\ to("cie_length64") = d.at.cie_id
          /\ from("cie_id") = d.at.cie_id /\ to("cie_id") = d.at.version
          /\ from("cie_id64") = d.at.cie_id /\ to("cie_id64") = d.at.version
          /\ from("version") = d.at.version /\ to("version") = d.at.aug
      BY Zenon DEF Known, CieTable, IsRow
    <3> QED BY <1>4, <1>5, <3>1
  <2>2. Format' = r.fmt
    BY <1>2, <1>5, Zenon DEF Format, Pointers, IsRow, Known, CieTable
  <2> QED BY <1>1, <1>2, <2>1, <2>2, RowTrack, Zenon
<1>6. CASE f \in {"address_size", "segment_size", "code_align", "data_align", "ret_addr_column"}
  <2>1. r.at \in Nat /\ r.to \in Nat
    <3>1. /\ from("address_size") = d.at.sizes /\ to("address_size") = d.at.sizes + 1
          /\ from("segment_size") = d.at.sizes + 1 /\ to("segment_size") = d.at.code_align
          /\ from("code_align") = d.at.code_align /\ to("code_align") = d.at.data_align
          /\ from("data_align") = d.at.data_align /\ to("data_align") = d.at.ra
          /\ from("ret_addr_column") = d.at.ra /\ to("ret_addr_column") = d.data[1]
      BY Zenon DEF Known, CieTable, IsRow
    <3> QED BY <1>4, <1>6, <3>1
  <2>2. Format' = r.fmt
    BY <1>2, <1>3, <1>6 DEF Format, Pointers, IsRow, Known, CieTable
  <2> QED BY <1>1, <1>2, <2>1, <2>2, RowTrack, Zenon
<1>7. CASE f \in {"fde_length", "fde_length64", "cie_ptr", "cie_ptr64", "fde_aug_len"}
  <2>1. r.at \in Nat /\ r.to \in Nat
    <3>1. /\ from("fde_length") = d.at.fde /\ to("fde_length") = d.at.fde + U32
          /\ from("fde_length64") = d.at.fde + U32 /\ to("fde_length64") = d.at.cie_ptr
          /\ from("cie_ptr") = d.at.cie_ptr /\ to("cie_ptr") = d.at.initial_pc
          /\ from("cie_ptr64") = d.at.cie_ptr /\ to("cie_ptr64") = d.at.initial_pc
          /\ from("fde_aug_len") = d.at.fde_aug /\ to("fde_aug_len") = d.at.lsda
      BY Zenon DEF Known, FdeTable, IsRow
    <3> QED BY <1>4, <1>7, <3>1
  <2>2. Format' = r.fmt
    BY <1>2, <1>7, Zenon DEF Format, IsRow, Known, FdeTable
  <2> QED BY <1>1, <1>2, <2>1, <2>2, RowTrack, Zenon
<1> QED BY <1>1, <1>5, <1>6, <1>7, Zenon DEF RowFields, Pointers
=============================================================================
