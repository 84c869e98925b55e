------------------------- MODULE H264Bitstream_proofs --------------------------
(***************************************************************************)
(* Proofs about the writer of bit streams and the stream of one picture:   *)
(* what is written fits its buffer, no CHECK of the writer fails, and with *)
(* emulation prevention only start codes look like start codes, whatever   *)
(* the pictures, the slices and the syntax elements of a client, and for   *)
(* every size of the register and of the steps the buffer grows in.        *)
(*                                                                         *)
(* The invariant says of the builder that its register holds at most       *)
(* kRegBitSize bits and its buffer at most size bytes.  A register is      *)
(* flushed inside a NALU only when it is full or padded, hence with whole  *)
(* bytes; in Run it is empty where a parameter set begins.                 *)
(*                                                                         *)
(* Start codes are counted in what is written. Inside a NALU no flush adds *)
(* any, as an emulation prevention byte comes between; a NALU ends in the  *)
(* byte of its stop bit, which is not zero, so that the next start code    *)
(* adds exactly its own.  Slices are written outside NALUs, where a flush  *)
(* writes the bytes as they were appended.                                 *)
(***************************************************************************)
EXTENDS H264Bitstream, ProofLemmas, SequenceTheorems

--------------------------------------------------------------------------------
(* The values.                                                               *)

\* kRegBitSize is a whole number of bytes.
LEMMA RegFacts ==
  /\ kRegByteSize \in Nat /\ kRegByteSize >= 4
  /\ kRegBitSize \in Nat /\ kRegBitSize >= 32 /\ kRegBitSize % 8 = 0
  /\ kRegBitSize \div 8 = kRegByteSize
  BY RegAssumption DEF kRegBitSize

LEMMA MaxValueFacts ==
  /\ kMaxValue \in Nat /\ kMaxValue + 1 \in Nat /\ kMaxValue + 1 >= 1
  /\ kMaxValue + 1 <= 65536 /\ kMaxValue \div 2 >= 128 /\ kMaxValue \div 2 \in Int
  BY DEF kMaxValue

LEMMA SignedFacts ==
  \A v \in -128..127 : v \in -(kMaxValue \div 2)..(kMaxValue \div 2)
  <1>1. PICK half \in Int : half = kMaxValue \div 2 /\ half >= 128
        BY MaxValueFacts
  <1>2. \A v \in -128..127 : v \in -half..half
        BY <1>1, SMT
  <1>3. QED
        BY <1>1, <1>2

\* The loop of AppendUE ends after at most sixteen halvings.
LEMMA NumZerosFacts ==
  ASSUME NEW val \in 0..kMaxValue
  PROVE  NumZeros(val) \in 0..16
  <1> DEFINE n    == kMaxValue + 1
             I    == 1..n
             Halves(f) == f = [v \in I |-> IF v = 1 THEN 0 ELSE 1 + f[v \div 2]]
             g == CHOOSE f : Halves(f)
  <1>0. n \in Nat /\ n >= 1 /\ n <= 65536
        BY MaxValueFacts
  <1>1. val + 1 \in I
    <2>1. kMaxValue \in Nat
          BY MaxValueFacts
    <2>2. QED
          BY <2>1
  <1>2. NumZeros(val) = g[val + 1]
        BY DEF NumZeros
  <1> HIDE DEF n, g
  <1>3. ASSUME NEW v \in I, v # 1
        PROVE  v \div 2 \in I /\ 2 * (v \div 2) <= v /\ v <= 2 * (v \div 2) + 1
        BY <1>0, <1>3
  <1>4. Halves(g)
    <2> DEFINE h == [v \in I |->
                       IF v < 2 THEN 0 ELSE IF v < 4 THEN 1 ELSE IF v < 8 THEN 2
                       ELSE IF v < 16 THEN 3 ELSE IF v < 32 THEN 4 ELSE IF v < 64 THEN 5
                       ELSE IF v < 128 THEN 6 ELSE IF v < 256 THEN 7 ELSE IF v < 512 THEN 8
                       ELSE IF v < 1024 THEN 9 ELSE IF v < 2048 THEN 10 ELSE IF v < 4096 THEN 11
                       ELSE IF v < 8192 THEN 12 ELSE IF v < 16384 THEN 13
                       ELSE IF v < 32768 THEN 14 ELSE IF v < 65536 THEN 15 ELSE 16]
    <2>1. ASSUME NEW v \in I PROVE h[v] = IF v = 1 THEN 0 ELSE 1 + h[v \div 2]
      <3>1. CASE v = 1
            BY <3>1
      <3>2. CASE v # 1
        <4>1. v \div 2 \in I /\ 2 * (v \div 2) <= v /\ v <= 2 * (v \div 2) + 1
              BY <1>3, <3>2
        <4>2. v \in Nat /\ v >= 2 /\ v <= 65536
              BY <1>0, <3>2
        <4>3. QED
              BY <3>2, <4>1, <4>2
      <3>3. QED
            BY <3>1, <3>2
    <2>2. h = [v \in I |-> h[v]]
          OBVIOUS
    <2> HIDE DEF h
    <2>3. Halves(h)
          BY <2>1, <2>2
    <2> HIDE DEF Halves
    <2>4. QED
          BY <2>3 DEF g
  <1> DEFINE Bounded(m, k) == \A v \in I : v <= m => g[v] \in 0..k
  <1>5. ASSUME NEW m \in Nat, NEW k \in Nat, m >= 1, Bounded(m, k)
        PROVE  Bounded(2 * m + 1, k + 1)
    <2> SUFFICES ASSUME NEW v \in I, v <= 2 * m + 1 PROVE g[v] \in 0..(k + 1)
        OBVIOUS
    <2>1. g[v] = IF v = 1 THEN 0 ELSE 1 + g[v \div 2]
          BY <1>4
    <2>2. CASE v # 1
      <3>1. v \div 2 \in I /\ v \div 2 <= m
            BY <1>3, <2>2
      <3>2. g[v \div 2] \in 0..k
            BY <1>5, <3>1
      <3>3. QED
            BY <2>1, <2>2, <3>2
    <2>3. QED
          BY <2>1, <2>2
  <1>6. Bounded(1, 0)
        BY <1>4
  <1> HIDE DEF Bounded
  <1>7. Bounded(3, 1)
        BY <1>5, <1>6
  <1>8. Bounded(7, 2)
        BY <1>5, <1>7
  <1>9. Bounded(15, 3)
        BY <1>5, <1>8
  <1>10. Bounded(31, 4)
         BY <1>5, <1>9
  <1>11. Bounded(63, 5)
         BY <1>5, <1>10
  <1>12. Bounded(127, 6)
         BY <1>5, <1>11
  <1>13. Bounded(255, 7)
         BY <1>5, <1>12
  <1>14. Bounded(511, 8)
         BY <1>5, <1>13
  <1>15. Bounded(1023, 9)
         BY <1>5, <1>14
  <1>16. Bounded(2047, 10)
         BY <1>5, <1>15
  <1>17. Bounded(4095, 11)
         BY <1>5, <1>16
  <1>18. Bounded(8191, 12)
         BY <1>5, <1>17
  <1>19. Bounded(16383, 13)
         BY <1>5, <1>18
  <1>20. Bounded(32767, 14)
         BY <1>5, <1>19
  <1>21. Bounded(65535, 15)
         BY <1>5, <1>20
  <1>22. Bounded(131071, 16)
         BY <1>5, <1>21
  <1>23. val + 1 <= 131071
         BY <1>0, <1>1
  <1>24. QED
         BY <1>1, <1>2, <1>22, <1>23 DEF Bounded

\* What may be in the register and in the buffer.
R == {0, 1}
D == 0..255

\* The byte at eight bits of a string.
ByteAt(bits, i) ==
  128 * bits[8 * i - 7] + 64 * bits[8 * i - 6] + 32 * bits[8 * i - 5] + 16 * bits[8 * i - 4]
    + 8 * bits[8 * i - 3] + 4 * bits[8 * i - 2] + 2 * bits[8 * i - 1] + bits[8 * i]

\* The bytes of a string of whole bytes.
BytesOf(bits) == [i \in 1..(Len(bits) \div 8) |-> ByteAt(bits, i)]

LEMMA ZerosFacts ==
  ASSUME NEW n \in Nat
  PROVE  Zeros(n) \in Seq(R) /\ Len(Zeros(n)) = n
  BY DEF Zeros, R

LEMMA BitsFacts ==
  ASSUME NEW n \in Nat, NEW val \in Int
  PROVE  Bits(n, val) \in Seq(R) /\ Len(Bits(n, val)) = n
  <1>1. \A flag : Bit(flag) \in R
        BY DEF Bit, R
  <1>2. Bits(n, val) \in [1..n -> R]
        BY <1>1 DEF Bits
  <1>3. QED
        BY <1>2 DEF Bits

LEMMA NumberFold ==
  ASSUME NEW list \in Seq(R)
  PROVE  \E f \in [0..Len(list) -> Nat] :
           /\ f[0] = 0
           /\ \A n \in 1..Len(list) : f[n] = 2 * f[n - 1] + list[n]
           /\ Number(list) = f[Len(list)]
  <1> DEFINE S == Nat
             N == Len(list)
             step == [x \in S \X (1..N) |-> 2 * x[1] + list[x[2]]]
             Chosen(iter) ==
               iter = [s \in SUBSET DOMAIN list |->
                         IF s = {} THEN 0 ELSE 2 * iter[s \ {Max(s)}] + list[Max(s)]]
             g == CHOOSE iter : Chosen(iter)
  <1>0. N \in Nat /\ DOMAIN list = 1..N /\ \A n \in 1..N : list[n] \in R
        OBVIOUS
  <1>1. \A c \in S, e \in R : 2 * c + e \in S
        BY DEF R
  <1>2. step \in Steps(S, N)
        BY <1>0, <1>1 DEF Steps
  <1>3. \A c \in S, n \in 1..N : step[<<c, n>>] = 2 * c + list[n]
        OBVIOUS
  <1>4. Number(list) = g[DOMAIN list]
        BY DEF Number, FoldLeft, MapThenFoldSet
  <1>5. 0 \in S
        OBVIOUS
  <1> HIDE DEF N, S, step
  <1>6. Chosen(g)
    <2>1. PICK iter : IsFold(iter, S, 0, N, step)
          BY <1>0, <1>2, <1>5, FoldOnSubsets
    <2>2. Chosen(iter)
      <3>1. ASSUME NEW s \in SUBSET (1..N), s # {}
            PROVE  iter[s] = 2 * iter[s \ {Max(s)}] + list[Max(s)]
        <4>1. iter[s] = step[<<iter[s \ {Max(s)}], Max(s)>>]
              BY <2>1, <3>1 DEF IsFold
        <4>2. s \ {Max(s)} \in SUBSET (1..N) /\ Max(s) \in 1..N
              BY <1>0, <3>1, MaxOfIndices
        <4>3. iter[s \ {Max(s)}] \in S
              BY <2>1, <4>2 DEF IsFold
        <4>4. QED
              BY <1>3, <4>1, <4>2, <4>3
      <3>2. iter[{}] = 0
            BY <2>1 DEF IsFold
      <3>3. iter = [s \in SUBSET (1..N) |-> iter[s]]
            BY <2>1 DEF IsFold
      <3>4. QED
            BY <1>0, <3>1, <3>2, <3>3
    <2>3. QED
          BY <2>2
  <1> HIDE DEF g
  <1>7. IsFold(g, S, 0, N, step)
    <2>1. DOMAIN g = SUBSET (1..N) /\ g = [s \in SUBSET (1..N) |-> g[s]] /\ g[{}] = 0
          BY <1>0, <1>6
    <2>2. ASSUME NEW s \in SUBSET (1..N), s # {}, g[s \ {Max(s)}] \in S
          PROVE  g[s] = step[<<g[s \ {Max(s)}], Max(s)>>]
      <3>1. Max(s) \in 1..N
            BY <1>0, <2>2, MaxOfIndices
      <3>2. g[s] = 2 * g[s \ {Max(s)}] + list[Max(s)]
            BY <1>0, <1>6, <2>2
      <3>3. QED
            BY <1>3, <2>2, <3>1, <3>2
    <2>3. QED
          BY <1>0, <1>2, <1>5, <2>1, <2>2, FoldIsTyped
  <1> DEFINE f == [n \in 0..N |-> g[1..n]]
  <1>8. Recursion(f, S, 0, N, step)
        BY <1>0, <1>5, <1>7, FoldIsRecursion
  <1>9. f[N] = Number(list)
        BY <1>0, <1>4
  <1> HIDE DEF f
  <1>10. f \in [0..N -> S] /\ f[0] = 0
         BY <1>8 DEF Recursion
  <1>11. ASSUME NEW n \in 1..N PROVE f[n] = 2 * f[n - 1] + list[n]
    <2>1. n - 1 \in 0..N
          BY <1>0
    <2>2. f[n - 1] \in S
          BY <1>10, <2>1
    <2>3. f[n] = step[<<f[n - 1], n>>]
          BY <1>8 DEF Recursion
    <2>4. QED
          BY <1>3, <2>2, <2>3
  <1>12. QED
         BY <1>9, <1>10, <1>11 DEF S, N

LEMMA NumberOfEight ==
  ASSUME NEW bits \in Seq(R), NEW i \in Nat, i >= 1, 8 * i <= Len(bits)
  PROVE  Number(SubSeq(bits, 8 * i - 7, 8 * i)) = ByteAt(bits, i)
  <1> DEFINE eight == SubSeq(bits, 8 * i - 7, 8 * i)
  <1>1. Len(bits) \in Nat
        OBVIOUS
  <1>2. /\ eight \in Seq(R) /\ Len(eight) = 8
        /\ \A j \in 1..8 : eight[j] = bits[8 * i - 8 + j]
        BY <1>1
  <1> HIDE DEF eight
  <1>3. PICK f \in [0..8 -> Nat] :
          f[0] = 0 /\ (\A n \in 1..8 : f[n] = 2 * f[n - 1] + eight[n]) /\ Number(eight) = f[8]
        BY <1>2, NumberFold
  <1>4. \A j \in 1..8 : eight[j] \in {0, 1}
    <2>1. \A j \in 1..8 : eight[j] \in R
      <3>1. \A j \in 1..Len(eight) : eight[j] \in R
            BY <1>2, ElementOfSeq
      <3>2. QED
            BY <1>2, <3>1, Zenon
    <2>2. QED
          BY <2>1 DEF R
  <1>5. /\ f[1] = eight[1]
        /\ f[2] = 2 * f[1] + eight[2] /\ f[3] = 2 * f[2] + eight[3] /\ f[4] = 2 * f[3] + eight[4]
        /\ f[5] = 2 * f[4] + eight[5] /\ f[6] = 2 * f[5] + eight[6] /\ f[7] = 2 * f[6] + eight[7]
        /\ f[8] = 2 * f[7] + eight[8]
    <2>1. \A n \in 0..7 : f[n + 1] = 2 * f[n] + eight[n + 1]
      <3> TAKE n \in 0..7
      <3>1. n + 1 \in 1..8 /\ (n + 1) - 1 = n
            OBVIOUS
      <3>2. QED
            BY <1>3, <3>1
    <2>2. f[0 + 1] = 2 * f[0] + eight[0 + 1] /\ f[1 + 1] = 2 * f[1] + eight[1 + 1]
          BY <2>1
    <2>3. f[2 + 1] = 2 * f[2] + eight[2 + 1] /\ f[3 + 1] = 2 * f[3] + eight[3 + 1]
          BY <2>1
    <2>4. f[4 + 1] = 2 * f[4] + eight[4 + 1] /\ f[5 + 1] = 2 * f[5] + eight[5 + 1]
          BY <2>1
    <2>5. f[6 + 1] = 2 * f[6] + eight[6 + 1] /\ f[7 + 1] = 2 * f[7] + eight[7 + 1]
          BY <2>1
    <2>6. 2 * f[0] + eight[1] = eight[1]
      <3>1. eight[1] \in {0, 1}
            BY <1>4
      <3>2. \A e \in {0, 1} : 2 * 0 + e = e
            OBVIOUS
      <3>3. QED
            BY <1>3, <3>1, <3>2, Zenon
    <2>7. /\ 0 + 1 = 1 /\ 1 + 1 = 2 /\ 2 + 1 = 3 /\ 3 + 1 = 4
          /\ 4 + 1 = 5 /\ 5 + 1 = 6 /\ 6 + 1 = 7 /\ 7 + 1 = 8
          OBVIOUS
    <2>8. QED
          BY <2>2, <2>3, <2>4, <2>5, <2>6, <2>7, Zenon
  <1>6. f[8] = 128 * eight[1] + 64 * eight[2] + 32 * eight[3] + 16 * eight[4]
                 + 8 * eight[5] + 4 * eight[6] + 2 * eight[7] + eight[8]
    <2>1. PICK a \in {0, 1}, b \in {0, 1}, c \in {0, 1}, d \in {0, 1} :
            a = eight[1] /\ b = eight[2] /\ c = eight[3] /\ d = eight[4]
          BY <1>4
    <2>2. PICK e \in {0, 1}, h \in {0, 1}, k \in {0, 1}, l \in {0, 1} :
            e = eight[5] /\ h = eight[6] /\ k = eight[7] /\ l = eight[8]
          BY <1>4
    <2>3. f[8] = 2 * (2 * (2 * (2 * (2 * (2 * (2 * a + b) + c) + d) + e) + h) + k) + l
      <3>1. f[1] = a /\ f[2] = 2 * a + b
            BY <1>5, <2>1, Zenon
      <3>2. f[3] = 2 * (2 * a + b) + c
            BY <1>5, <2>1, <3>1, Zenon
      <3>3. f[4] = 2 * (2 * (2 * a + b) + c) + d
            BY <1>5, <2>1, <3>2, Zenon
      <3>4. f[5] = 2 * (2 * (2 * (2 * a + b) + c) + d) + e
            BY <1>5, <2>2, <3>3, Zenon
      <3>5. f[6] = 2 * (2 * (2 * (2 * (2 * a + b) + c) + d) + e) + h
            BY <1>5, <2>2, <3>4, Zenon
      <3>6. f[7] = 2 * (2 * (2 * (2 * (2 * (2 * a + b) + c) + d) + e) + h) + k
            BY <1>5, <2>2, <3>5, Zenon
      <3>7. QED
            BY <1>5, <2>2, <3>6, Zenon
    <2>4. 2 * (2 * (2 * (2 * (2 * (2 * (2 * a + b) + c) + d) + e) + h) + k) + l
            = 128 * a + 64 * b + 32 * c + 16 * d + 8 * e + 4 * h + 2 * k + l
          OBVIOUS
    <2>5. QED
          BY <2>1, <2>2, <2>3, <2>4, Zenon
  <1>7. /\ eight[1] = bits[8 * i - 7] /\ eight[2] = bits[8 * i - 6] /\ eight[3] = bits[8 * i - 5]
        /\ eight[4] = bits[8 * i - 4] /\ eight[5] = bits[8 * i - 3] /\ eight[6] = bits[8 * i - 2]
        /\ eight[7] = bits[8 * i - 1] /\ eight[8] = bits[8 * i]
    <2>1. /\ eight[1] = bits[8 * i - 8 + 1] /\ eight[2] = bits[8 * i - 8 + 2]
          /\ eight[3] = bits[8 * i - 8 + 3] /\ eight[4] = bits[8 * i - 8 + 4]
          /\ eight[5] = bits[8 * i - 8 + 5] /\ eight[6] = bits[8 * i - 8 + 6]
          /\ eight[7] = bits[8 * i - 8 + 7] /\ eight[8] = bits[8 * i - 8 + 8]
          BY <1>2
    <2>2. /\ 8 * i - 8 + 1 = 8 * i - 7 /\ 8 * i - 8 + 2 = 8 * i - 6 /\ 8 * i - 8 + 3 = 8 * i - 5
          /\ 8 * i - 8 + 4 = 8 * i - 4 /\ 8 * i - 8 + 5 = 8 * i - 3 /\ 8 * i - 8 + 6 = 8 * i - 2
          /\ 8 * i - 8 + 7 = 8 * i - 1 /\ 8 * i - 8 + 8 = 8 * i
          OBVIOUS
    <2>3. QED
          BY <2>1, <2>2
  <1>8. Number(eight) = ByteAt(bits, i)
        BY <1>3, <1>6, <1>7, Zenon DEF ByteAt
  <1>9. QED
        BY <1>8 DEF eight

LEMMA ByteAtFacts ==
  ASSUME NEW bits \in Seq(R), NEW i \in Nat, i >= 1, 8 * i <= Len(bits)
  PROVE  /\ ByteAt(bits, i) \in 0..255
         /\ (\E j \in (8 * i - 7)..(8 * i) : bits[j] = 1) => ByteAt(bits, i) # 0
  <1>0. Len(bits) \in Nat
        OBVIOUS
  <1>1. \A j \in (8 * i - 7)..(8 * i) : bits[j] \in {0, 1}
        BY <1>0 DEF R
  <1>2. /\ bits[8 * i - 7] \in {0, 1} /\ bits[8 * i - 6] \in {0, 1} /\ bits[8 * i - 5] \in {0, 1}
        /\ bits[8 * i - 4] \in {0, 1} /\ bits[8 * i - 3] \in {0, 1} /\ bits[8 * i - 2] \in {0, 1}
        /\ bits[8 * i - 1] \in {0, 1} /\ bits[8 * i] \in {0, 1}
        BY <1>1
  <1>3. PICK a \in {0, 1}, b \in {0, 1}, c \in {0, 1}, d \in {0, 1} :
          /\ a = bits[8 * i - 7] /\ b = bits[8 * i - 6]
          /\ c = bits[8 * i - 5] /\ d = bits[8 * i - 4]
        BY <1>2
  <1>4. PICK e \in {0, 1}, h \in {0, 1}, k \in {0, 1}, l \in {0, 1} :
          /\ e = bits[8 * i - 3] /\ h = bits[8 * i - 2]
          /\ k = bits[8 * i - 1] /\ l = bits[8 * i]
        BY <1>2
  <1> DEFINE sum == 128 * a + 64 * b + 32 * c + 16 * d + 8 * e + 4 * h + 2 * k + l
  <1>5. ByteAt(bits, i) = sum
        BY <1>3, <1>4, Zenon DEF ByteAt
  <1>6. sum \in 0..255 /\ (sum = 0 => ~(1 \in {a, b, c, d, e, h, k, l}))
        OBVIOUS
  <1> HIDE DEF sum
  <1>7. ASSUME NEW j \in (8 * i - 7)..(8 * i), bits[j] = 1 PROVE ByteAt(bits, i) # 0
    <2>1. \/ j = 8 * i - 7 \/ j = 8 * i - 6 \/ j = 8 * i - 5 \/ j = 8 * i - 4
          \/ j = 8 * i - 3 \/ j = 8 * i - 2 \/ j = 8 * i - 1 \/ j = 8 * i
          OBVIOUS
    <2>2. 1 \in {a, b, c, d, e, h, k, l}
          BY <1>3, <1>4, <1>7, <2>1
    <2>3. QED
          BY <1>5, <1>6, <2>2, Zenon
  <1>8. QED
        BY <1>5, <1>6, <1>7
LEMMA BigEndianFacts ==
  ASSUME NEW val \in Seq(R), Len(val) = kRegBitSize
  PROVE  U64ToBigEndian(val) = [i \in 1..kRegByteSize |-> ByteAt(val, i)]
  <1> DEFINE swapped == SwapBytes(val)
             K == kRegByteSize
             at(n) == Len(val) - 8 * ((n + 7) \div 8) + 1 + ((n - 1) % 8)
  <1>1. K \in Nat /\ Len(val) = 8 * K /\ kRegBitSize = 8 * K
        BY RegFacts DEF kRegBitSize
  <1> HIDE DEF K
  <1>2. \A n \in 1..Len(val) : at(n) \in 1..Len(val)
    <2> SUFFICES ASSUME NEW n \in 1..(8 * K) PROVE 8 * K - 8 * ((n + 7) \div 8) + 1 + ((n - 1) % 8) \in 1..(8 * K)
        BY <1>1
    <2>1. n \in Nat /\ (n + 7) \div 8 \in Nat /\ (n - 1) % 8 \in 0..7
          OBVIOUS
    <2>2. (n + 7) \div 8 <= K /\ (n + 7) \div 8 >= 1
          BY <1>1
    <2>3. QED
          BY <1>1, <2>1, <2>2
  <1>3. swapped = [n \in 1..Len(val) |-> val[at(n)]]
        BY DEF SwapBytes
  <1>4. swapped \in Seq(R) /\ Len(swapped) = 8 * K
    <2>1. swapped \in [1..(8 * K) -> R]
          BY <1>1, <1>2, <1>3
    <2>2. 8 * K \in Nat
          BY <1>1
    <2> HIDE DEF swapped
    <2>3. QED
          BY <2>1, <2>2
  <1>5. \A i \in 1..K, j \in 1..8 : swapped[8 * K - 8 * i + j] = val[8 * i - 8 + j]
    <2> TAKE i \in 1..K, j \in 1..8
    <2> DEFINE n == 8 * K - 8 * i + j
    <2>1. n \in 1..Len(val)
          BY <1>1
    <2>2. (n + 7) \div 8 = K - i + 1 /\ (n - 1) % 8 = j - 1
      <3>1. PICK q \in Nat : q = K - i
            BY <1>1
      <3>2. n = 8 * q + j
            BY <1>1, <3>1
      <3> HIDE DEF n
      <3>3. (n + 7) \div 8 = q + 1 /\ (n - 1) % 8 = j - 1
            BY <3>2
      <3>4. QED
            BY <1>1, <3>1, <3>3
    <2>3. at(n) = 8 * i - 8 + j
          BY <1>1, <2>2
    <2>4. QED
          BY <1>3, <2>1, <2>3
  <1> HIDE DEF swapped, at
  <1> DEFINE all == U64ToBigEndian(val)
  <1>6. all = [i \in 1..K |-> Number(SubSeq(swapped, 8 * K - 8 * i + 1, 8 * K - 8 * (i - 1)))]
    <2>1. Len(swapped) \div 8 = K
          BY <1>1, <1>4
    <2>2. QED
          BY <1>4, <2>1 DEF U64ToBigEndian, ToLittleEndian, swapped
  <1>7. DOMAIN all = 1..K /\ all = [i \in 1..K |-> all[i]]
        BY <1>6
  <1>8. ASSUME NEW i \in 1..K PROVE all[i] = ByteAt(val, i)
    <2> DEFINE eight == SubSeq(swapped, 8 * K - 8 * i + 1, 8 * K - 8 * (i - 1))
    <2>1. all[i] = Number(eight)
          BY <1>6
    <2>2. PICK k \in Nat : k = K - i + 1 /\ k >= 1 /\ 8 * k <= 8 * K
          BY <1>1
    <2>3. 8 * k - 7 = 8 * K - 8 * i + 1 /\ 8 * k = 8 * K - 8 * (i - 1)
          BY <1>1, <2>2
    <2>4. all[i] = ByteAt(swapped, k)
          BY <1>4, <2>1, <2>2, <2>3, NumberOfEight
    <2>5. /\ swapped[8 * k - 7] = val[8 * i - 7] /\ swapped[8 * k - 6] = val[8 * i - 6]
          /\ swapped[8 * k - 5] = val[8 * i - 5] /\ swapped[8 * k - 4] = val[8 * i - 4]
          /\ swapped[8 * k - 3] = val[8 * i - 3] /\ swapped[8 * k - 2] = val[8 * i - 2]
          /\ swapped[8 * k - 1] = val[8 * i - 1] /\ swapped[8 * k] = val[8 * i]
      <3>1. ASSUME NEW j \in 1..8 PROVE swapped[8 * k - 8 + j] = val[8 * i - 8 + j]
        <4>1. 8 * k - 8 + j = 8 * K - 8 * i + j
              BY <1>1, <2>2
        <4>2. QED
              BY <1>5, <4>1
      <3>2. \A n \in {i, k} :
              /\ 8 * n - 8 + 1 = 8 * n - 7 /\ 8 * n - 8 + 2 = 8 * n - 6 /\ 8 * n - 8 + 3 = 8 * n - 5
              /\ 8 * n - 8 + 4 = 8 * n - 4 /\ 8 * n - 8 + 5 = 8 * n - 3 /\ 8 * n - 8 + 6 = 8 * n - 2
              /\ 8 * n - 8 + 7 = 8 * n - 1 /\ 8 * n - 8 + 8 = 8 * n
            BY <1>1
      <3>3. /\ swapped[8 * k - 8 + 1] = val[8 * i - 8 + 1] /\ swapped[8 * k - 8 + 2] = val[8 * i - 8 + 2]
            /\ swapped[8 * k - 8 + 3] = val[8 * i - 8 + 3] /\ swapped[8 * k - 8 + 4] = val[8 * i - 8 + 4]
            /\ swapped[8 * k - 8 + 5] = val[8 * i - 8 + 5] /\ swapped[8 * k - 8 + 6] = val[8 * i - 8 + 6]
            /\ swapped[8 * k - 8 + 7] = val[8 * i - 8 + 7] /\ swapped[8 * k - 8 + 8] = val[8 * i - 8 + 8]
            BY <3>1
      <3>4. QED
            BY <3>2, <3>3
    <2>6. QED
          BY <2>4, <2>5, Zenon DEF ByteAt
  <1>9. QED
        BY <1>7, <1>8 DEF K

LEMMA BytesFacts ==
  ASSUME NEW reg \in Seq(R), Len(reg) <= kRegBitSize
  PROVE  /\ BytesInReg(reg) \in Seq(D) /\ Len(BytesInReg(reg)) <= kRegByteSize
         /\ Len(reg) % 8 = 0 => BytesInReg(reg) = BytesOf(reg)
  <1> DEFINE val == LeftAligned(reg)
             all == U64ToBigEndian(val)
             m == AlignUp(Len(reg)) \div 8
             bytes == BytesInReg(reg)
  <1>1. Len(reg) \in Nat /\ kRegBitSize - Len(reg) \in Nat
        BY RegFacts
  <1>2. /\ val \in Seq(R) /\ Len(val) = kRegBitSize
        /\ \A i \in 1..Len(reg) : val[i] = reg[i]
    <2>1. /\ Zeros(kRegBitSize - Len(reg)) \in Seq(R)
          /\ Len(Zeros(kRegBitSize - Len(reg))) = kRegBitSize - Len(reg)
          BY <1>1, ZerosFacts
    <2>2. QED
          BY <1>1, <2>1, RegFacts DEF LeftAligned
  <1> HIDE DEF val
  <1>3. all = [i \in 1..kRegByteSize |-> ByteAt(val, i)]
        BY <1>2, BigEndianFacts
  <1>4. bytes = SubSeq(all, 1, m)
        BY DEF BytesInReg, val
  <1> HIDE DEF all
  <1>5. m \in 0..kRegByteSize
        BY <1>1, RegFacts DEF AlignUp, kRegBitSize
  <1>6. Len(reg) % 8 = 0 => m = Len(reg) \div 8
        BY <1>1 DEF AlignUp
  <1> HIDE DEF m
  <1>7. \A i \in 1..kRegByteSize : ByteAt(val, i) \in D
    <2>1. kRegBitSize = 8 * kRegByteSize /\ kRegByteSize \in Nat
          BY RegFacts DEF kRegBitSize
    <2>2. \A i \in 1..kRegByteSize : i \in Nat /\ i >= 1 /\ 8 * i <= Len(val)
          BY <1>2, <2>1
    <2>3. QED
          BY <1>2, <2>2, ByteAtFacts DEF D
  <1>8. all \in Seq(D) /\ Len(all) = kRegByteSize
    <2>1. kRegByteSize \in Nat
          BY RegFacts
    <2>2. all \in [1..kRegByteSize -> D]
          BY <1>3, <1>7
    <2>3. QED
          BY <2>1, <2>2
  <1>9. Len(bytes) = m /\ bytes \in Seq(D) /\ \A i \in 1..m : bytes[i] = ByteAt(val, i)
    <2>1. m \in Nat /\ m <= Len(all)
          BY <1>5, <1>8, RegFacts
    <2>2. Len(bytes) = m /\ bytes \in Seq(D) /\ \A i \in 1..m : bytes[i] = all[i]
          BY <1>4, <1>8, <2>1
    <2>3. \A i \in 1..m : all[i] = ByteAt(val, i)
      <3>1. \A i \in 1..m : i \in 1..kRegByteSize
            BY <1>5, RegFacts
      <3>2. QED
            BY <1>3, <3>1, Zenon
    <2>4. QED
          BY <2>2, <2>3
  <1>10. ASSUME Len(reg) % 8 = 0 PROVE bytes = BytesOf(reg)
    <2>1. m = Len(reg) \div 8
          BY <1>6, <1>10
    <2>2. ASSUME NEW i \in 1..m PROVE bytes[i] = ByteAt(reg, i)
      <3>1. /\ val[8 * i - 7] = reg[8 * i - 7] /\ val[8 * i - 6] = reg[8 * i - 6]
            /\ val[8 * i - 5] = reg[8 * i - 5] /\ val[8 * i - 4] = reg[8 * i - 4]
            /\ val[8 * i - 3] = reg[8 * i - 3] /\ val[8 * i - 2] = reg[8 * i - 2]
            /\ val[8 * i - 1] = reg[8 * i - 1] /\ val[8 * i] = reg[8 * i]
        <4>1. PICK n \in Nat : n = Len(reg)
              BY <1>1
        <4>2. i \in Nat /\ i >= 1 /\ 8 * i <= n
              BY <2>1, <4>1
        <4>3. /\ 8 * i - 7 \in 1..n /\ 8 * i - 6 \in 1..n /\ 8 * i - 5 \in 1..n /\ 8 * i - 4 \in 1..n
              /\ 8 * i - 3 \in 1..n /\ 8 * i - 2 \in 1..n /\ 8 * i - 1 \in 1..n /\ 8 * i \in 1..n
              BY <4>2
        <4>4. QED
              BY <1>2, <4>1, <4>3
      <3>2. ByteAt(val, i) = ByteAt(reg, i)
            BY <3>1, Zenon DEF ByteAt
      <3>3. QED
            BY <1>9, <3>2
    <2> HIDE DEF bytes
    <2>3. DOMAIN bytes = 1..m /\ bytes = [i \in 1..m |-> bytes[i]]
          BY <1>5, <1>9
    <2>4. QED
          BY <2>1, <2>2, <2>3 DEF BytesOf
  <1>11. QED
         BY <1>5, <1>9, <1>10, RegFacts
--------------------------------------------------------------------------------
(* Whole bytes and start codes.                                              *)

\* What the bytes are that whole bytes of bits and others after them stand for.
LEMMA BytesOfFacts ==
  ASSUME NEW bits \in Seq(R)
  PROVE  BytesOf(bits) \in Seq(D) /\ Len(BytesOf(bits)) = Len(bits) \div 8
  <1> DEFINE m == Len(bits) \div 8
  <1>1. Len(bits) \in Nat /\ m \in Nat /\ \A i \in 1..m : i \in Nat /\ i >= 1 /\ 8 * i <= Len(bits)
        OBVIOUS
  <1>2. \A i \in 1..m : ByteAt(bits, i) \in D
        BY <1>1, ByteAtFacts DEF D
  <1>3. BytesOf(bits) = [i \in 1..m |-> ByteAt(bits, i)]
        BY DEF BytesOf
  <1> HIDE DEF m
  <1>4. BytesOf(bits) \in [1..m -> D]
        BY <1>2, <1>3
  <1>5. QED
        BY <1>1, <1>3, <1>4 DEF m

LEMMA BytesOfConcat ==
  ASSUME NEW s \in Seq(R), NEW t \in Seq(R), Len(s) % 8 = 0, Len(t) % 8 = 0
  PROVE  Len(s \o t) % 8 = 0 /\ BytesOf(s \o t) = BytesOf(s) \o BytesOf(t)
  <1> DEFINE st == s \o t
  <1>1. PICK m, n \in Nat : Len(s) = 8 * m /\ Len(t) = 8 * n
    <2>1. Len(s) = 8 * (Len(s) \div 8) /\ Len(t) = 8 * (Len(t) \div 8)
          OBVIOUS
    <2>2. Len(s) \div 8 \in Nat /\ Len(t) \div 8 \in Nat
          OBVIOUS
    <2>3. QED
          BY <2>1, <2>2, Zenon
  <1>2. /\ st \in Seq(R) /\ Len(st) = 8 * (m + n)
        /\ \A i \in 1..(8 * m) : st[i] = s[i]
        /\ \A i \in 1..(8 * n) : st[8 * m + i] = t[i]
    <2>1. /\ st \in Seq(R) /\ Len(st) = Len(s) + Len(t)
          /\ \A i \in 1..Len(s) : st[i] = s[i]
          /\ \A i \in 1..Len(t) : st[Len(s) + i] = t[i]
          OBVIOUS
    <2>2. 8 * m + 8 * n = 8 * (m + n)
          OBVIOUS
    <2>3. QED
          BY <1>1, <2>1, <2>2, Zenon
  <1> HIDE DEF st
  <1>3. /\ Len(BytesOf(st)) = m + n /\ Len(BytesOf(s)) = m /\ Len(BytesOf(t)) = n
        /\ BytesOf(st) \in Seq(D) /\ BytesOf(s) \in Seq(D) /\ BytesOf(t) \in Seq(D)
    <2>1. (8 * (m + n)) \div 8 = m + n /\ (8 * m) \div 8 = m /\ (8 * n) \div 8 = n
          OBVIOUS
    <2>2. QED
          BY <1>1, <1>2, <2>1, BytesOfFacts
  <1>4. ASSUME NEW i \in 1..m PROVE BytesOf(st)[i] = BytesOf(s)[i]
    <2>1. /\ st[8 * i - 7] = s[8 * i - 7] /\ st[8 * i - 6] = s[8 * i - 6]
          /\ st[8 * i - 5] = s[8 * i - 5] /\ st[8 * i - 4] = s[8 * i - 4]
          /\ st[8 * i - 3] = s[8 * i - 3] /\ st[8 * i - 2] = s[8 * i - 2]
          /\ st[8 * i - 1] = s[8 * i - 1] /\ st[8 * i] = s[8 * i]
          BY <1>2
    <2>2. ByteAt(st, i) = ByteAt(s, i)
          BY <2>1, Zenon DEF ByteAt
    <2>3. i \in 1..(Len(st) \div 8) /\ i \in 1..(Len(s) \div 8)
          BY <1>1, <1>2
    <2>4. QED
          BY <2>2, <2>3, Zenon DEF BytesOf
  <1>5. ASSUME NEW i \in 1..n PROVE BytesOf(st)[m + i] = BytesOf(t)[i]
    <2>1. PICK k \in Nat : k = m + i
          OBVIOUS
    <2>2. /\ 8 * k - 7 = 8 * m + (8 * i - 7) /\ 8 * k - 6 = 8 * m + (8 * i - 6)
          /\ 8 * k - 5 = 8 * m + (8 * i - 5) /\ 8 * k - 4 = 8 * m + (8 * i - 4)
          /\ 8 * k - 3 = 8 * m + (8 * i - 3) /\ 8 * k - 2 = 8 * m + (8 * i - 2)
          /\ 8 * k - 1 = 8 * m + (8 * i - 1) /\ 8 * k = 8 * m + 8 * i
          BY <2>1
    <2>3. /\ 8 * i - 7 \in 1..(8 * n) /\ 8 * i - 6 \in 1..(8 * n) /\ 8 * i - 5 \in 1..(8 * n)
          /\ 8 * i - 4 \in 1..(8 * n) /\ 8 * i - 3 \in 1..(8 * n) /\ 8 * i - 2 \in 1..(8 * n)
          /\ 8 * i - 1 \in 1..(8 * n) /\ 8 * i \in 1..(8 * n)
          OBVIOUS
    <2>4. /\ st[8 * k - 7] = t[8 * i - 7] /\ st[8 * k - 6] = t[8 * i - 6]
          /\ st[8 * k - 5] = t[8 * i - 5] /\ st[8 * k - 4] = t[8 * i - 4]
          /\ st[8 * k - 3] = t[8 * i - 3] /\ st[8 * k - 2] = t[8 * i - 2]
          /\ st[8 * k - 1] = t[8 * i - 1] /\ st[8 * k] = t[8 * i]
          BY <1>2, <2>2, <2>3, Zenon
    <2>5. ByteAt(st, k) = ByteAt(t, i)
          BY <2>4, Zenon DEF ByteAt
    <2>6. k \in 1..(Len(st) \div 8) /\ i \in 1..(Len(t) \div 8)
          BY <1>1, <1>2, <2>1
    <2>7. QED
          BY <2>1, <2>5, <2>6, Zenon DEF BytesOf
  <1>6. BytesOf(st) = BytesOf(s) \o BytesOf(t)
    <2>1. PICK a, b, c \in Seq(D) : a = BytesOf(s) /\ b = BytesOf(t) /\ c = BytesOf(st)
          BY <1>3
    <2>2. Len(a) = m /\ Len(b) = n /\ Len(c) = m + n
          BY <1>3, <2>1
    <2>3. (\A i \in 1..m : c[i] = a[i]) /\ (\A i \in 1..n : c[m + i] = b[i])
          BY <1>4, <1>5, <2>1
    <2>4. \A i \in 1..(m + n) : c[i] = (a \o b)[i]
      <3> TAKE i \in 1..(m + n)
      <3>1. CASE i <= m
        <4>1. \A x, y \in Seq(D) : \A j \in 1..Len(x) : (x \o y)[j] = x[j]
              BY ConcatParts
        <4>2. i \in 1..m
              BY <3>1
        <4>3. QED
              BY <2>2, <2>3, <4>1, <4>2, Zenon
      <3>2. CASE i > m
        <4>1. i - m \in 1..n /\ m + (i - m) = i
              BY <3>2
        <4>2. c[i] = b[i - m]
              BY <2>3, <4>1
        <4>3. (a \o b)[i] = b[i - m]
          <5>1. \A x, y \in Seq(D) : \A j \in 1..Len(y) : (x \o y)[Len(x) + j] = y[j]
                BY ConcatParts
          <5>2. (a \o b)[m + (i - m)] = b[i - m]
                BY <2>2, <4>1, <5>1, Zenon
          <5>3. QED
                BY <4>1, <5>2, Zenon
        <4>4. QED
              BY <4>2, <4>3
      <3>3. QED
        <4>1. i <= m \/ i > m
              OBVIOUS
        <4>2. QED
              BY <3>1, <3>2, <4>1, Zenon
    <2>5. (a \o b) \in Seq(D) /\ Len(a \o b) = m + n
      <3>1. \A x, y \in Seq(D) : x \o y \in Seq(D) /\ Len(x \o y) = Len(x) + Len(y)
            BY ConcatParts
      <3>2. QED
            BY <2>2, <3>1, Zenon
    <2>6. c = a \o b
      <3>1. \A x, y \in Seq(D) : Len(x) = Len(y) /\ (\A i \in 1..Len(x) : x[i] = y[i]) => x = y
            OBVIOUS
      <3>2. QED
            BY <2>2, <2>4, <2>5, <3>1, Zenon
    <2>7. QED
          BY <2>1, <2>6, Zenon
  <1>7. Len(st) % 8 = 0
        BY <1>2
  <1>8. QED
        BY <1>6, <1>7 DEF st

Codes(bytes) == Cardinality(StartCodesIn(bytes))

LEMMA CodesFacts ==
  ASSUME NEW s \in Seq(D)
  PROVE  /\ IsFiniteSet(StartCodesIn(s)) /\ StartCodesIn(s) \subseteq 1..Len(s)
         /\ Codes(s) \in Nat
  <1>1. Len(s) \in Nat /\ StartCodesIn(s) \subseteq 1..Len(s)
        BY DEF StartCodesIn
  <1>2. IsFiniteSet(StartCodesIn(s))
    <2>1. IsFiniteSet(1..Len(s))
          BY <1>1, FS_Interval
    <2>2. QED
          BY <1>1, <2>1, FS_Subset
  <1>3. QED
        BY <1>1, <1>2, FS_CardinalityType DEF Codes

\* One byte more makes one start code more at most, after two zeros.
LEMMA CodesAppend ==
  ASSUME NEW s \in Seq(D), NEW byte \in D
  PROVE  LET n == Len(s)
         IN Codes(Append(s, byte)) =
              IF n >= 2 /\ s[n - 1] = 0 /\ s[n] = 0 /\ byte \in {0, 1, 2} THEN Codes(s) + 1 ELSE Codes(s)
  <1> DEFINE n == Len(s)
             t == Append(s, byte)
             new == n >= 2 /\ s[n - 1] = 0 /\ s[n] = 0 /\ byte \in {0, 1, 2}
             old == StartCodesIn(s)
  <1>1. n \in Nat /\ Len(t) = n + 1 /\ t[n + 1] = byte /\ \A i \in 1..n : t[i] = s[i]
        OBVIOUS
  <1>2. old = {i \in 1..(n - 2) : s[i] = 0 /\ s[i + 1] = 0 /\ s[i + 2] \in {0, 1, 2}}
        BY DEF StartCodesIn
  <1>3. StartCodesIn(t) = {i \in 1..(n - 1) : t[i] = 0 /\ t[i + 1] = 0 /\ t[i + 2] \in {0, 1, 2}}
    <2>1. Len(t) - 2 = n - 1
          BY <1>1
    <2>2. QED
          BY <2>1, Zenon DEF StartCodesIn
  <1>4. IsFiniteSet(old) /\ n - 1 \notin old
    <2>1. n - 1 \notin old
          BY <1>1, <1>2
    <2>2. QED
          BY <2>1, CodesFacts
  <1> HIDE DEF t, old
  <1>5. \A i \in 1..(n - 2) : i \in StartCodesIn(t) <=> i \in old
    <2> TAKE i \in 1..(n - 2)
    <2>1. t[i] = s[i] /\ t[i + 1] = s[i + 1] /\ t[i + 2] = s[i + 2]
          BY <1>1
    <2>2. i \in 1..(n - 1)
          BY <1>1
    <2>3. QED
          BY <1>2, <1>3, <2>1, <2>2, Zenon
  <1>6. n >= 2 => (n - 1 \in StartCodesIn(t) <=> new)
    <2> SUFFICES ASSUME n >= 2 PROVE n - 1 \in StartCodesIn(t) <=> new
        OBVIOUS
    <2>1. t[n - 1] = s[n - 1] /\ t[n] = s[n] /\ n - 1 \in 1..(n - 1) /\ n - 1 + 1 = n /\ n - 1 + 2 = n + 1
          BY <1>1
    <2>2. QED
          BY <1>1, <1>3, <2>1
  <1>7. CASE new
    <2>1. StartCodesIn(t) = old \cup {n - 1}
      <3>1. n >= 2 /\ n - 1 \in StartCodesIn(t)
            BY <1>6, <1>7
      <3>2. \A i \in 1..(n - 1) : i \in 1..(n - 2) \/ i = n - 1
            BY <1>1
      <3>3. old \subseteq 1..(n - 2) /\ StartCodesIn(t) \subseteq 1..(n - 1)
            BY <1>2, <1>3
      <3>4. QED
            BY <1>5, <3>1, <3>2, <3>3, Zenon
    <2>2. Codes(t) = Codes(s) + 1
          BY <1>4, <2>1, FS_AddElement DEF Codes, old
    <2>3. QED
          BY <1>7, <2>2 DEF t
  <1>8. CASE ~new
    <2>1. StartCodesIn(t) = old
      <3>1. n >= 2 => n - 1 \notin StartCodesIn(t)
            BY <1>6, <1>8
      <3>2. \A i \in 1..(n - 1) : i \in 1..(n - 2) \/ (i = n - 1 /\ n >= 2)
            BY <1>1
      <3>3. old \subseteq 1..(n - 2) /\ StartCodesIn(t) \subseteq 1..(n - 1)
            BY <1>2, <1>3
      <3>4. QED
            BY <1>5, <3>1, <3>2, <3>3, Zenon
    <2>2. Codes(t) = Codes(s)
          BY <2>1 DEF Codes, old
    <2>3. QED
          BY <1>8, <2>2 DEF t
  <1>9. QED
        BY <1>7, <1>8

\* No start code lies across the end of a unit that does not end in a zero.
EndsWell(bytes) == bytes # <<>> => bytes[Len(bytes)] # 0

LEMMA CodesConcat ==
  ASSUME NEW s \in Seq(D), NEW t \in Seq(D), EndsWell(s)
  PROVE  Codes(s \o t) = Codes(s) + Codes(t)
  <1> DEFINE st == s \o t
             m == Len(s)
             n == Len(t)
             old == StartCodesIn(s)
             new == StartCodesIn(t)
             moved == {m + i : i \in new}
  <1>1. /\ m \in Nat /\ n \in Nat /\ Len(st) = m + n
        /\ \A i \in 1..m : st[i] = s[i]
        /\ \A i \in 1..n : st[m + i] = t[i]
        OBVIOUS
  <1>2. m > 0 => s[m] # 0
    <2>1. m > 0 => s # <<>>
          OBVIOUS
    <2>2. QED
          BY <2>1 DEF EndsWell
  <1>3. /\ old = {i \in 1..(m - 2) : s[i] = 0 /\ s[i + 1] = 0 /\ s[i + 2] \in {0, 1, 2}}
        /\ new = {i \in 1..(n - 2) : t[i] = 0 /\ t[i + 1] = 0 /\ t[i + 2] \in {0, 1, 2}}
        BY DEF StartCodesIn
  <1>4. StartCodesIn(st) =
          {i \in 1..(m + n - 2) : st[i] = 0 /\ st[i + 1] = 0 /\ st[i + 2] \in {0, 1, 2}}
        BY <1>1 DEF StartCodesIn
  <1>5. IsFiniteSet(old) /\ IsFiniteSet(new)
        BY CodesFacts
  <1> HIDE DEF st, old, new, m, n
  <1>6. \A i \in StartCodesIn(st) : i \in old \/ i - m \in new
    <2> TAKE i \in StartCodesIn(st)
    <2>1. i \in 1..(m + n - 2) /\ st[i] = 0 /\ st[i + 1] = 0 /\ st[i + 2] \in {0, 1, 2}
          BY <1>4
    <2>2. CASE i <= m - 2
      <3>1. i \in 1..(m - 2) /\ st[i] = s[i] /\ st[i + 1] = s[i + 1] /\ st[i + 2] = s[i + 2]
            BY <1>1, <2>1, <2>2
      <3>2. QED
            BY <1>3, <2>1, <3>1, Zenon
    <2>3. CASE i = m - 1
      <3>1. i + 1 = m /\ m \in 1..m /\ m > 0
            BY <1>1, <2>1, <2>3
      <3>2. st[i + 1] = s[m]
            BY <1>1, <3>1, Zenon
      <3>3. QED
            BY <1>2, <2>1, <3>1, <3>2, Zenon
    <2>4. CASE i = m
      <3>1. m \in 1..m /\ m > 0
            BY <1>1, <2>1, <2>4
      <3>2. st[i] = s[m]
            BY <1>1, <2>4, <3>1, Zenon
      <3>3. QED
            BY <1>2, <2>1, <3>1, <3>2, Zenon
    <2>5. CASE i > m
      <3>1. PICK j \in 1..(n - 2) : j = i - m /\ i = m + j /\ i + 1 = m + (j + 1) /\ i + 2 = m + (j + 2)
            BY <1>1, <2>1, <2>5
      <3>2. j \in 1..n /\ j + 1 \in 1..n /\ j + 2 \in 1..n
            BY <1>1
      <3>3. t[j] = 0 /\ t[j + 1] = 0 /\ t[j + 2] \in {0, 1, 2}
            BY <1>1, <2>1, <3>1, <3>2, Zenon
      <3>4. QED
            BY <1>3, <3>1, <3>3, Zenon
    <2>6. QED
          BY <1>1, <2>1, <2>2, <2>3, <2>4, <2>5
  <1>7. \A i \in old : i \in StartCodesIn(st)
    <2> TAKE i \in old
    <2>1. i \in 1..(m - 2) /\ s[i] = 0 /\ s[i + 1] = 0 /\ s[i + 2] \in {0, 1, 2}
          BY <1>3
    <2>2. i \in 1..(m + n - 2) /\ st[i] = s[i] /\ st[i + 1] = s[i + 1] /\ st[i + 2] = s[i + 2]
          BY <1>1, <2>1
    <2>3. QED
          BY <1>4, <2>1, <2>2, Zenon
  <1>8. \A j \in new : m + j \in StartCodesIn(st)
    <2> TAKE j \in new
    <2>1. j \in 1..(n - 2) /\ t[j] = 0 /\ t[j + 1] = 0 /\ t[j + 2] \in {0, 1, 2}
          BY <1>3
    <2>2. /\ m + j \in 1..(m + n - 2) /\ m + j + 1 = m + (j + 1) /\ m + j + 2 = m + (j + 2)
          /\ j \in 1..n /\ j + 1 \in 1..n /\ j + 2 \in 1..n
          BY <1>1, <2>1
    <2>3. st[m + j] = t[j] /\ st[m + j + 1] = t[j + 1] /\ st[m + j + 2] = t[j + 2]
      <3>1. st[m + j] = t[j] /\ st[m + (j + 1)] = t[j + 1] /\ st[m + (j + 2)] = t[j + 2]
            BY <1>1, <2>2, Zenon
      <3>2. QED
            BY <2>2, <3>1
    <2>4. QED
          BY <1>4, <2>1, <2>2, <2>3, Zenon
  <1>9. new \subseteq Int /\ old \subseteq Int /\ (\A i \in old : i <= m) /\ (\A i \in new : i >= 1)
        BY <1>1, <1>3
  <1>10. StartCodesIn(st) = old \cup moved
    <2>1. ASSUME NEW i \in StartCodesIn(st) PROVE i \in old \cup moved
      <3>1. i \in Int /\ m + (i - m) = i
            BY <1>1, <1>4
      <3>2. QED
            BY <1>6, <3>1, Zenon
    <2>2. QED
          BY <1>7, <1>8, <2>1, Zenon
  <1>11. IsFiniteSet(moved) /\ Cardinality(moved) = Cardinality(new)
    <2> DEFINE f == [i \in new |-> m + i]
    <2>1. f \in Bijection(new, moved)
      <3>1. f \in [new -> moved]
            OBVIOUS
      <3>2. \A i, j \in new : f[i] = f[j] => i = j
        <4> TAKE i, j \in new
        <4>1. i \in Int /\ j \in Int /\ f[i] = m + i /\ f[j] = m + j
              BY <1>9
        <4> HIDE DEF f
        <4>2. QED
              BY <1>1, <4>1
      <3>3. \A k \in moved : \E i \in new : f[i] = k
            OBVIOUS
      <3> HIDE DEF f, moved
      <3>4. QED
            BY <3>1, <3>2, <3>3, Fun_IsBij
    <2>2. ExistsBijection(new, moved)
          BY <2>1 DEF ExistsBijection
    <2> HIDE DEF moved
    <2>3. QED
          BY <1>5, <2>2, FS_Bijection
  <1>12. old \cap moved = {}
         BY <1>1, <1>9
  <1> HIDE DEF moved
  <1>13. Cardinality(old \cup moved) = Cardinality(old) + Cardinality(moved)
    <2>1. /\ Cardinality(old) \in Nat /\ Cardinality(moved) \in Nat /\ Cardinality({}) = 0
          BY <1>5, <1>11, FS_CardinalityType, FS_EmptySet
    <2>2. Cardinality(old \cup moved) = Cardinality(old) + Cardinality(moved) - Cardinality(old \cap moved)
          BY <1>5, <1>11, FS_Union
    <2>3. Cardinality(old \cap moved) = 0
          BY <1>12, <2>1
    <2>4. QED
          BY <2>1, <2>2, <2>3
  <1>14. QED
         BY <1>10, <1>11, <1>13, Zenon DEF Codes, st, old, new
--------------------------------------------------------------------------------
(* Builders the register and the stream of which fit.                        *)

Builders(insert, in_nalu, trapped) ==
  [insert_emulation_prevention_bytes : {insert}, in_nalu : {in_nalu}, reg : Seq(R), data : Seq(D),
   size : Nat, trapped : {trapped}]

Fitting(insert, in_nalu, trapped) ==
  {b \in Builders(insert, in_nalu, trapped) : Len(b.reg) <= kRegBitSize /\ Len(b.data) <= b.size}

\* One Grow makes room for the bytes of a register.
LEMMA PutFacts ==
  ASSUME NEW insert, NEW in_nalu, NEW trapped, NEW b \in Fitting(insert, in_nalu, trapped),
         NEW bytes \in Seq(D), Len(bytes) <= kRegByteSize
  PROVE  /\ Put(b, bytes) \in Fitting(insert, in_nalu, trapped) /\ Put(b, bytes).reg = b.reg
         /\ Put(b, bytes).data = b.data \o bytes
  <1> DEFINE n == Len(bytes)
             size == IF Len(b.data) + n > b.size THEN b.size + kGrowBytes ELSE b.size
             c == Grown(b, n)
  <1>0. /\ b \in Builders(insert, in_nalu, trapped)
        /\ Len(b.reg) <= kRegBitSize /\ Len(b.data) <= b.size
        BY DEF Fitting
  <1>1. n \in Nat /\ b.size \in Nat /\ b.data \in Seq(D) /\ Len(b.data) \in Nat
        BY <1>0 DEF Builders
  <1>2. size \in Nat /\ Len(b.data) + n <= size
        BY <1>0, <1>1, GrowAssumption, RegFacts
  <1>3. /\ c \in Builders(insert, in_nalu, trapped)
        /\ c.reg = b.reg /\ c.data = b.data /\ c.size = size
        BY <1>0, <1>2 DEF Grown, Builders
  <1>4. Put(b, bytes) = [c EXCEPT !.data = @ \o bytes]
        BY DEF Put
  <1> HIDE DEF c, size
  <1>5. b.data \o bytes \in Seq(D) /\ Len(b.data \o bytes) = Len(b.data) + n
        BY <1>1
  <1>6. /\ Put(b, bytes) \in Builders(insert, in_nalu, trapped)
        /\ Put(b, bytes).reg = b.reg /\ Put(b, bytes).data = b.data \o bytes
        /\ Put(b, bytes).size = size
    <2> DEFINE data == b.data \o bytes
    <2>1. Put(b, bytes) = [c EXCEPT !.data = data] /\ data \in Seq(D)
          BY <1>3, <1>4, <1>5
    <2> HIDE DEF data
    <2>2. QED
          BY <1>3, <2>1 DEF Builders, data
  <1>7. QED
        BY <1>0, <1>2, <1>5, <1>6 DEF Fitting

\* In the stream of such a builder are as many start codes, if it is in a NALU and
\* inserts emulation prevention bytes.
Counting(insert, in_nalu, trapped, codes) ==
  {b \in Fitting(insert, in_nalu, trapped) : insert /\ in_nalu => Codes(b.data) = codes}

\* So it does for a byte and an emulation prevention byte, which keeps the two from making
\* a start code.
LEMMA PutEscapedFacts ==
  ASSUME NEW insert, NEW in_nalu, NEW trapped, NEW b \in Fitting(insert, in_nalu, trapped),
         NEW byte \in D
  PROVE  LET c == PutEscaped(b, byte)
         IN /\ c \in Fitting(insert, in_nalu, trapped) /\ c.reg = b.reg
            /\ Codes(c.data) = Codes(b.data)
            /\ c.data # <<>> /\ c.data[Len(c.data)] = byte
  <1>1. ASSUME NEW a \in Fitting(insert, in_nalu, trapped), NEW e \in D
        PROVE  /\ Put(a, <<e>>) \in Fitting(insert, in_nalu, trapped) /\ Put(a, <<e>>).reg = a.reg
               /\ Put(a, <<e>>).data = Append(a.data, e) /\ a.data \in Seq(D)
    <2>1. PICK one : one = <<e>>
          OBVIOUS
    <2>2. one \in Seq(D) /\ Len(one) <= kRegByteSize
          BY <2>1, RegFacts
    <2>3. /\ Put(a, one) \in Fitting(insert, in_nalu, trapped) /\ Put(a, one).reg = a.reg
          /\ Put(a, one).data = a.data \o one
          BY <2>2, PutFacts
    <2>4. a.data \in Seq(D)
          BY DEF Fitting, Builders
    <2>5. a.data \o one = Append(a.data, e)
          BY <2>1, <2>4
    <2>6. QED
          BY <2>1, <2>3, <2>4, <2>5
  <1>2. 3 \in D
        BY DEF D
  <1> DEFINE escaped == NeedsEmulationByte(b.data, byte)
             c == IF escaped THEN Put(b, <<3>>) ELSE b
             d == PutEscaped(b, byte)
  <1>3. c \in Fitting(insert, in_nalu, trapped) /\ c.reg = b.reg
    <2>1. Put(b, <<3>>) \in Fitting(insert, in_nalu, trapped) /\ Put(b, <<3>>).reg = b.reg
          BY <1>1, <1>2
    <2>2. QED
          BY <2>1
  <1>4. b.data \in Seq(D) /\ c.data = IF escaped THEN Append(b.data, 3) ELSE b.data
        BY <1>1, <1>2
  <1>5. d = Put(c, <<byte>>)
        BY DEF PutEscaped
  <1> HIDE DEF c, d
  <1>6. /\ d \in Fitting(insert, in_nalu, trapped) /\ d.reg = b.reg
        /\ d.data = Append(c.data, byte) /\ c.data \in Seq(D)
        BY <1>1, <1>3, <1>5
  <1>7. d.data # <<>> /\ d.data[Len(d.data)] = byte
        BY <1>6
  <1>8. byte \in Nat /\ \A k \in {0, 1, 2} : k <= 3
        BY DEF D
  <1>9. CASE escaped
    <2>1. Codes(c.data) = Codes(b.data)
      <3>1. 3 \notin {0, 1, 2}
            OBVIOUS
      <3>2. QED
            BY <1>2, <1>4, <1>9, <3>1, CodesAppend
    <2>2. c.data[Len(c.data)] = 3
          BY <1>4, <1>9
    <2>3. Codes(d.data) = Codes(c.data)
      <3>1. c.data[Len(c.data)] # 0
            BY <2>2
      <3>2. QED
            BY <1>6, <3>1, CodesAppend
    <2>4. QED
          BY <1>6, <1>7, <2>1, <2>3 DEF d
  <1>10. CASE ~escaped
    <2>1. c.data = b.data
          BY <1>4, <1>10
    <2>2. LET n == Len(b.data)
          IN ~(n >= 2 /\ b.data[n - 1] = 0 /\ b.data[n] = 0 /\ byte \in {0, 1, 2})
          BY <1>8, <1>10 DEF NeedsEmulationByte
    <2>3. Codes(d.data) = Codes(b.data)
          BY <1>4, <1>6, <2>1, <2>2, CodesAppend
    <2>4. QED
          BY <1>6, <1>7, <2>3 DEF d
  <1>11. QED
         BY <1>9, <1>10

\* And for all the bytes of a register, the last of which is then last.
LEMMA EscapedFold ==
  ASSUME NEW insert, NEW in_nalu, NEW trapped, NEW codes,
         NEW b \in Counting(insert, in_nalu, trapped, codes), NEW list \in Seq(D)
  PROVE  LET c == FoldLeft(PutEscaped, b, list)
         IN /\ c \in Counting(insert, in_nalu, trapped, codes) /\ c.reg = b.reg
            /\ list # <<>> => c.data # <<>> /\ c.data[Len(c.data)] = list[Len(list)]
  <1> DEFINE S == {c \in Counting(insert, in_nalu, trapped, codes) : c.reg = b.reg}
             N == Len(list)
             step == [x \in S \X (1..N) |-> PutEscaped(x[1], list[x[2]])]
             Chosen(iter) ==
               iter = [s \in SUBSET DOMAIN list |->
                         IF s = {} THEN b ELSE PutEscaped(iter[s \ {Max(s)}], list[Max(s)])]
             g == CHOOSE iter : Chosen(iter)
  <1>0. N \in Nat /\ DOMAIN list = 1..N /\ \A n \in 1..N : list[n] \in D
        OBVIOUS
  <1>1. \A c \in S, e \in D : PutEscaped(c, e) \in S
    <2> TAKE c \in S, e \in D
    <2>1. c \in Fitting(insert, in_nalu, trapped) /\ (insert /\ in_nalu => Codes(c.data) = codes)
          BY DEF Counting
    <2>2. /\ PutEscaped(c, e) \in Fitting(insert, in_nalu, trapped) /\ PutEscaped(c, e).reg = c.reg
          /\ Codes(PutEscaped(c, e).data) = Codes(c.data)
          BY <2>1, PutEscapedFacts
    <2>3. QED
          BY <2>1, <2>2 DEF Counting
  <1>2. step \in Steps(S, N)
        BY <1>0, <1>1 DEF Steps
  <1>3. \A c \in S, n \in 1..N : step[<<c, n>>] = PutEscaped(c, list[n])
        OBVIOUS
  <1>4. FoldLeft(PutEscaped, b, list) = g[DOMAIN list]
        BY DEF FoldLeft, MapThenFoldSet
  <1>5. b \in S
        OBVIOUS
  <1> HIDE DEF N, S, step
  <1>6. Chosen(g)
    <2>1. PICK iter : IsFold(iter, S, b, N, step)
          BY <1>0, <1>2, <1>5, FoldOnSubsets
    <2>2. Chosen(iter)
      <3>1. ASSUME NEW s \in SUBSET (1..N), s # {}
            PROVE  iter[s] = PutEscaped(iter[s \ {Max(s)}], list[Max(s)])
        <4>1. iter[s] = step[<<iter[s \ {Max(s)}], Max(s)>>]
              BY <2>1, <3>1 DEF IsFold
        <4>2. s \ {Max(s)} \in SUBSET (1..N) /\ Max(s) \in 1..N
              BY <1>0, <3>1, MaxOfIndices
        <4>3. iter[s \ {Max(s)}] \in S
              BY <2>1, <4>2 DEF IsFold
        <4>4. QED
              BY <1>3, <4>1, <4>2, <4>3
      <3>2. iter[{}] = b
            BY <2>1 DEF IsFold
      <3>3. iter = [s \in SUBSET (1..N) |-> iter[s]]
            BY <2>1 DEF IsFold
      <3>4. QED
            BY <1>0, <3>1, <3>2, <3>3
    <2>3. QED
          BY <2>2
  <1> HIDE DEF g
  <1>7. IsFold(g, S, b, N, step)
    <2>1. DOMAIN g = SUBSET (1..N) /\ g = [s \in SUBSET (1..N) |-> g[s]] /\ g[{}] = b
          BY <1>0, <1>6
    <2>2. ASSUME NEW s \in SUBSET (1..N), s # {}, g[s \ {Max(s)}] \in S
          PROVE  g[s] = step[<<g[s \ {Max(s)}], Max(s)>>]
      <3>1. Max(s) \in 1..N
            BY <1>0, <2>2, MaxOfIndices
      <3>2. g[s] = PutEscaped(g[s \ {Max(s)}], list[Max(s)])
            BY <1>0, <1>6, <2>2
      <3>3. QED
            BY <1>3, <2>2, <3>1, <3>2
    <2>3. QED
          BY <1>0, <1>2, <1>5, <2>1, <2>2, FoldIsTyped
  <1> DEFINE f == [n \in 0..N |-> g[1..n]]
             c == FoldLeft(PutEscaped, b, list)
  <1>8. Recursion(f, S, b, N, step)
        BY <1>0, <1>5, <1>7, FoldIsRecursion
  <1>9. c = f[N]
        BY <1>0, <1>4
  <1> HIDE DEF f, c
  <1>10. c \in S
         BY <1>0, <1>8, <1>9 DEF Recursion
  <1>11. ASSUME list # <<>> PROVE c.data # <<>> /\ c.data[Len(c.data)] = list[N]
    <2>1. N \in 1..N /\ N - 1 \in 0..N /\ list[N] \in D
      <3>1. N # 0
            BY <1>11 DEF N
      <3>2. QED
            BY <1>0, <3>1
    <2>2. f[N - 1] \in S /\ f[N] = step[<<f[N - 1], N>>]
          BY <1>8, <2>1 DEF Recursion
    <2>3. c = PutEscaped(f[N - 1], list[N])
          BY <1>3, <1>9, <2>1, <2>2
    <2>4. f[N - 1] \in Fitting(insert, in_nalu, trapped)
          BY <2>2 DEF S, Counting
    <2>5. QED
          BY <2>1, <2>3, <2>4, PutEscapedFacts
  <1>12. QED
         BY <1>10, <1>11 DEF S, N, c

EndsWith(bytes, byte) == bytes # <<>> /\ bytes[Len(bytes)] = byte

\* FlushReg empties the register; a CHECK fails only for a part of a byte inside a NALU.
\* There the stream then ends with the last byte of the register.
LEMMA FlushRegResult ==
  ASSUME NEW insert, NEW in_nalu, NEW trapped \in BOOLEAN, NEW codes,
         NEW b \in Counting(insert, in_nalu, trapped, codes), insert /\ in_nalu => Len(b.reg) % 8 = 0
  PROVE  /\ FlushReg(b) \in Counting(insert, in_nalu, trapped, codes) /\ FlushReg(b).reg = <<>>
         /\ insert /\ in_nalu /\ b.reg # <<>> =>
              EndsWith(FlushReg(b).data, ByteAt(b.reg, Len(b.reg) \div 8))
  <1> DEFINE bytes == BytesInReg(b.reg)
             empty == [b EXCEPT !.reg = <<>>]
             folded == FoldLeft(PutEscaped, empty, bytes)
  <1>1. /\ b \in Builders(insert, in_nalu, trapped)
        /\ Len(b.reg) <= kRegBitSize /\ Len(b.data) <= b.size
        BY DEF Counting, Fitting
  <1>2. /\ b.insert_emulation_prevention_bytes = insert /\ b.in_nalu = in_nalu
        /\ b.trapped = trapped /\ b.reg \in Seq(R)
        BY <1>1 DEF Builders
  <1>3. bytes \in Seq(D) /\ Len(bytes) <= kRegByteSize
        BY <1>1, <1>2, BytesFacts
  <1>4. empty \in Counting(insert, in_nalu, trapped, codes) /\ empty.reg = <<>>
    <2>1. PICK none : none = <<>>
          OBVIOUS
    <2>2. none \in Seq(R) /\ Len(none) <= kRegBitSize
          BY <2>1, RegFacts
    <2>3. empty = [b EXCEPT !.reg = none]
          BY <2>1
    <2>4. /\ empty \in Builders(insert, in_nalu, trapped)
          /\ empty.reg = none /\ empty.data = b.data /\ empty.size = b.size
      <3> HIDE <2>1
      <3>1. QED
            BY <1>1, <2>2, <2>3 DEF Builders
    <2>5. QED
          BY <1>1, <2>1, <2>2, <2>4 DEF Counting, Fitting
  <1>5. CASE insert /\ in_nalu
    <2> HIDE DEF empty, bytes
    <2>1. /\ folded \in Counting(insert, in_nalu, trapped, codes) /\ folded.reg = <<>>
          /\ bytes # <<>> => folded.data # <<>> /\ folded.data[Len(folded.data)] = bytes[Len(bytes)]
      <3>1. /\ folded \in Counting(insert, in_nalu, trapped, codes)
            /\ folded.reg = empty.reg
            /\ bytes # <<>> => folded.data # <<>> /\ folded.data[Len(folded.data)] = bytes[Len(bytes)]
        <4>1. /\ bytes \in Seq(D) /\ empty \in Counting(insert, in_nalu, trapped, codes)
              BY <1>3, <1>4
        <4>2. QED
              BY <4>1, EscapedFold DEF folded
      <3>2. QED
            BY <1>4, <3>1, Zenon
    <2>2. FlushReg(b) = [folded EXCEPT !.trapped = @ \/ Len(b.reg) % 8 # 0]
          BY <1>2, <1>5 DEF FlushReg, empty, bytes
    <2> HIDE DEF folded
    <2>3. folded \in Builders(insert, in_nalu, trapped)
          BY <2>1 DEF Counting, Fitting
    <2>4. (folded.trapped \/ Len(b.reg) % 8 # 0) = trapped
      <3>1. folded.trapped = trapped
            BY <2>3 DEF Builders
      <3>2. Len(b.reg) % 8 = 0
            BY <1>5
      <3>3. QED
            BY <3>1, <3>2, Zenon
    <2>5. FlushReg(b) = [folded EXCEPT !.trapped = trapped]
          BY <2>2, <2>4, Zenon
    <2>6. FlushReg(b) = folded
          BY <2>3, <2>5 DEF Builders
    <2>7. ASSUME b.reg # <<>>
          PROVE  bytes # <<>> /\ bytes[Len(bytes)] = ByteAt(b.reg, Len(b.reg) \div 8)
      <3>1. PICK n \in Nat : n = Len(b.reg) \div 8 /\ n >= 1 /\ n # 0
        <4>1. PICK k \in Nat \ {0} : k = Len(b.reg)
              BY <1>2, <2>7, EmptySeq
        <4>2. k % 8 = 0
              BY <1>5, <4>1
        <4>3. k \div 8 \in Nat /\ k \div 8 >= 1 /\ k \div 8 # 0
              BY <4>2
        <4>4. QED
              BY <4>1, <4>3
      <3>2. bytes = BytesOf(b.reg)
            BY <1>1, <1>2, <1>5, BytesFacts DEF bytes
      <3>3. bytes = [i \in 1..n |-> ByteAt(b.reg, i)]
            BY <3>1, <3>2 DEF BytesOf
      <3>4. Len(bytes) = n
            BY <1>2, <3>1, <3>2, BytesOfFacts
      <3>5. bytes[n] = ByteAt(b.reg, n)
            BY <3>1, <3>3
      <3>6. bytes # <<>>
        <4>1. Len(<<>>) = 0
              BY EmptySeq
        <4>2. QED
              BY <3>1, <3>4, <4>1, Zenon
      <3>7. QED
            BY <3>1, <3>4, <3>5, <3>6, Zenon
    <2>8. QED
          BY <2>1, <2>6, <2>7, Zenon DEF EndsWith
  <1>6. CASE ~(insert /\ in_nalu)
    <2>1. FlushReg(b) = Put(empty, bytes)
          BY <1>2, <1>6 DEF FlushReg
    <2> HIDE DEF empty, bytes
    <2>2. empty \in Fitting(insert, in_nalu, trapped)
          BY <1>4 DEF Counting
    <2>3. FlushReg(b) \in Fitting(insert, in_nalu, trapped) /\ FlushReg(b).reg = <<>>
          BY <1>3, <1>4, <2>1, <2>2, PutFacts
    <2>4. FlushReg(b) \in Counting(insert, in_nalu, trapped, codes)
          BY <1>6, <2>3 DEF Counting
    <2>5. QED
          BY <1>6, <2>3, <2>4, Zenon
  <1>7. QED
        BY <1>5, <1>6, Zenon

LEMMA FlushRegFacts ==
  ASSUME NEW insert, NEW in_nalu, NEW trapped \in BOOLEAN, NEW codes,
         NEW b \in Counting(insert, in_nalu, trapped, codes), insert /\ in_nalu => Len(b.reg) % 8 = 0
  PROVE  FlushReg(b) \in Counting(insert, in_nalu, trapped, codes) /\ FlushReg(b).reg = <<>>
  BY FlushRegResult

\* A full register is flushed before the next bit: it holds whole bytes.
LEMMA FlushedFacts ==
  ASSUME NEW insert, NEW in_nalu, NEW trapped \in BOOLEAN, NEW codes,
         NEW b \in Counting(insert, in_nalu, trapped, codes)
  PROVE  Flushed(b) \in Counting(insert, in_nalu, trapped, codes) /\ Len(Flushed(b).reg) < kRegBitSize
  <1>1. CASE Len(b.reg) = kRegBitSize
    <2>1. Len(b.reg) % 8 = 0
          BY <1>1, RegFacts
    <2>2. FlushReg(b) \in Counting(insert, in_nalu, trapped, codes) /\ FlushReg(b).reg = <<>>
          BY <2>1, FlushRegFacts
    <2>3. QED
          BY <1>1, <2>2, RegFacts DEF Flushed
  <1>2. CASE Len(b.reg) # kRegBitSize
    <2>1. b.reg \in Seq(R) /\ Len(b.reg) <= kRegBitSize
          BY DEF Counting, Fitting, Builders
    <2>2. Len(b.reg) < kRegBitSize
          BY <1>2, <2>1, RegFacts
    <2>3. QED
          BY <1>2, <2>2 DEF Flushed
  <1>3. QED
        BY <1>1, <1>2

\* What is in the register can be set to anything that fits.
LEMMA WithRegister ==
  ASSUME NEW insert, NEW in_nalu, NEW trapped \in BOOLEAN, NEW codes,
         NEW b \in Counting(insert, in_nalu, trapped, codes), NEW reg \in Seq(R), Len(reg) <= kRegBitSize
  PROVE  [b EXCEPT !.reg = reg] \in Counting(insert, in_nalu, trapped, codes)
  BY DEF Counting, Fitting, Builders

\* AppendU64: whatever is in the register, at most one flush makes room.
LEMMA AppendBitsFacts ==
  ASSUME NEW insert, NEW in_nalu, NEW trapped \in BOOLEAN, NEW codes,
         NEW b \in Counting(insert, in_nalu, trapped, codes),
         NEW bits \in Seq(R), Len(bits) <= kRegBitSize
  PROVE  AppendBits(b, bits) \in Counting(insert, in_nalu, trapped, codes)
  <1> DEFINE c    == Flushed(b)
             room == kRegBitSize - Len(c.reg)
             m    == IF Len(bits) < room THEN Len(bits) ELSE room
             head == SubSeq(bits, 1, m)
             reg  == c.reg \o head
             d    == [c EXCEPT !.reg = @ \o SubSeq(bits, 1, IF Len(bits) < room THEN Len(bits) ELSE room)]
             tail == SubSeq(bits, room + 1, Len(bits))
  <1>1. c \in Counting(insert, in_nalu, trapped, codes) /\ Len(c.reg) < kRegBitSize
        BY FlushedFacts
  <1>2. AppendBits(b, bits) =
          IF bits = <<>> THEN b ELSE IF Len(bits) <= room THEN d
          ELSE [FlushReg(d) EXCEPT !.reg = tail]
    <2>1. ~(Len(bits) > kRegBitSize)
          BY RegFacts
    <2>2. QED
          BY <2>1 DEF AppendBits
  <1> HIDE DEF c
  <1>3. c.reg \in Seq(R) /\ Len(c.reg) \in Nat /\ Len(bits) \in Nat
        BY <1>1 DEF Counting, Fitting, Builders
  <1>4. room \in Nat /\ room >= 1 /\ Len(c.reg) + room = kRegBitSize /\ room <= kRegBitSize
        BY <1>1, <1>3, RegFacts
  <1> HIDE DEF room
  <1>5. m \in 0..Len(bits) /\ m <= room /\ (m = Len(bits) \/ m = room)
        BY <1>3, <1>4
  <1>6. d = [c EXCEPT !.reg = reg]
        BY <1>1 DEF Counting, Fitting, Builders
  <1> HIDE DEF m, d
  <1>7. head \in Seq(R) /\ Len(head) = m
        BY <1>5
  <1> HIDE DEF head
  <1>8. reg \in Seq(R) /\ Len(reg) = Len(c.reg) + m /\ Len(reg) <= kRegBitSize
    <2>1. reg \in Seq(R) /\ Len(reg) = Len(c.reg) + Len(head)
          BY <1>3, <1>7
    <2>2. Len(c.reg) + m <= kRegBitSize
          BY <1>3, <1>4, <1>5, RegFacts
    <2>3. QED
          BY <1>7, <2>1, <2>2, Zenon
  <1> HIDE DEF reg
  <1>9. d \in Counting(insert, in_nalu, trapped, codes)
        BY <1>1, <1>6, <1>8, WithRegister
  <1>10. CASE Len(bits) > room
    <2>1. d.reg = reg
          BY <1>1, <1>6 DEF Counting, Fitting, Builders
    <2>2. Len(d.reg) % 8 = 0
      <3>1. m = room
            BY <1>3, <1>4, <1>5, <1>10 DEF m
      <3>2. QED
            BY <2>1, <1>3, <1>4, <1>8, <3>1, RegFacts
    <2>3. FlushReg(d) \in Counting(insert, in_nalu, trapped, codes)
          BY <1>9, <2>2, FlushRegFacts
    <2>4. tail \in Seq(R) /\ Len(tail) <= kRegBitSize
          BY <1>3, <1>4, <1>10, RegFacts
    <2> HIDE DEF tail
    <2>5. [FlushReg(d) EXCEPT !.reg = tail] \in Counting(insert, in_nalu, trapped, codes)
          BY <2>3, <2>4, WithRegister
    <2>6. QED
          BY <1>2, <1>9, <2>5, Zenon
  <1>11. CASE Len(bits) <= room
         BY <1>2, <1>9, <1>11
  <1>12. QED
         BY <1>3, <1>4, <1>10, <1>11

\* A flag or any other value of one bit.
LEMMA AppendBoolFacts ==
  ASSUME NEW insert, NEW in_nalu, NEW trapped \in BOOLEAN, NEW codes,
         NEW b \in Counting(insert, in_nalu, trapped, codes), NEW val \in Int
  PROVE  AppendBool(b, val) \in Counting(insert, in_nalu, trapped, codes)
  <1> DEFINE c == Flushed(b)
             bit == Bit(val # 0)
             reg == Append(c.reg, bit)
  <1>1. c \in Counting(insert, in_nalu, trapped, codes) /\ Len(c.reg) < kRegBitSize
        BY FlushedFacts
  <1>2. AppendBool(b, val) = [c EXCEPT !.reg = Append(@, bit)]
        BY DEF AppendBool
  <1> HIDE DEF c
  <1>3. c.reg \in Seq(R) /\ bit \in R
        BY <1>1 DEF Counting, Fitting, Builders, Bit, R
  <1> HIDE DEF bit
  <1>4. reg \in Seq(R) /\ Len(reg) <= kRegBitSize
        BY <1>1, <1>3, RegFacts
  <1>5. AppendBool(b, val) = [c EXCEPT !.reg = reg]
        BY <1>1, <1>2 DEF Counting, Fitting, Builders
  <1> HIDE DEF reg
  <1>6. QED
        BY <1>1, <1>4, <1>5, WithRegister

\* An Exp-Golomb code has at most sixteen zeros and seventeen bits more.
LEMMA AppendUEFacts ==
  ASSUME NEW insert, NEW in_nalu, NEW trapped \in BOOLEAN, NEW codes,
         NEW b \in Counting(insert, in_nalu, trapped, codes), NEW val \in 0..kMaxValue
  PROVE  AppendUE(b, val) \in Counting(insert, in_nalu, trapped, codes)
  <1> DEFINE n == NumZeros(val)
             zeros == Zeros(n)
             bits == Bits(n + 1, val + 1)
  <1>1. n \in 0..16
        BY NumZerosFacts
  <1>2. AppendUE(b, val) = AppendBits(AppendBits(b, zeros), bits)
        BY DEF AppendUE
  <1> HIDE DEF n
  <1>3. n \in Nat /\ n + 1 \in Nat /\ n + 1 <= 17 /\ val + 1 \in Int
        BY <1>1
  <1>4. zeros \in Seq(R) /\ Len(zeros) <= kRegBitSize
    <2>1. zeros \in Seq(R) /\ Len(zeros) = n
          BY <1>3, ZerosFacts
    <2>2. QED
          BY <1>3, <2>1, RegFacts
  <1>5. bits \in Seq(R) /\ Len(bits) <= kRegBitSize
    <2>1. bits \in Seq(R) /\ Len(bits) = n + 1
          BY <1>3, BitsFacts
    <2>2. QED
          BY <1>3, <2>1, RegFacts
  <1> HIDE DEF zeros, bits
  <1>6. AppendBits(b, zeros) \in Counting(insert, in_nalu, trapped, codes)
        BY <1>4, AppendBitsFacts
  <1>7. QED
        BY <1>2, <1>5, <1>6, AppendBitsFacts

LEMMA AppendSEFacts ==
  ASSUME NEW insert, NEW in_nalu, NEW trapped \in BOOLEAN, NEW codes,
         NEW b \in Counting(insert, in_nalu, trapped, codes),
         NEW val \in -(kMaxValue \div 2)..(kMaxValue \div 2)
  PROVE  AppendSE(b, val) \in Counting(insert, in_nalu, trapped, codes)
  <1> DEFINE code == IF val > 0 THEN val * 2 - 1 ELSE -val * 2
  <1>1. code \in 0..kMaxValue
    <2>1. kMaxValue \in Nat
          BY MaxValueFacts
    <2>2. PICK half \in Nat : half = kMaxValue \div 2
          BY <2>1
    <2>3. 2 * half <= kMaxValue /\ val \in -half..half
          BY <2>1, <2>2
    <2>4. code \in Int /\ code >= 0 /\ code <= 2 * half
          BY <2>3
    <2>5. QED
          BY <2>1, <2>3, <2>4
  <1>2. AppendSE(b, val) = AppendUE(b, code)
        BY DEF AppendSE
  <1> HIDE DEF code
  <1>3. QED
        BY <1>1, <1>2, AppendUEFacts

\* Whatever syntax element is appended, the stream fits and no CHECK fails.
LEMMA AppendElementFacts ==
  ASSUME NEW insert, NEW in_nalu, NEW trapped \in BOOLEAN, NEW codes,
         NEW b \in Counting(insert, in_nalu, trapped, codes), NEW e \in SyntaxElements
  PROVE  AppendElement(b, e) \in Counting(insert, in_nalu, trapped, codes)
  <1>1. CASE e \in [kind : {"u"}, bits : 0..kRegBitSize, value : Int]
    <2>1. e.kind = "u" /\ e.bits \in Nat /\ e.bits <= kRegBitSize /\ e.value \in Int
          BY <1>1, RegFacts
    <2>2. AppendElement(b, e) = IF b.trapped THEN b ELSE IF e.bits = 1 THEN AppendBool(b, e.value)
                                ELSE AppendBits(b, Bits(e.bits, e.value))
          BY <2>1 DEF AppendElement
    <2>3. AppendBool(b, e.value) \in Counting(insert, in_nalu, trapped, codes)
          BY <2>1, AppendBoolFacts
    <2>4. PICK bits : bits = Bits(e.bits, e.value)
          OBVIOUS
    <2>5. bits \in Seq(R) /\ Len(bits) <= kRegBitSize
          BY <2>1, <2>4, BitsFacts
    <2>6. AppendBits(b, bits) \in Counting(insert, in_nalu, trapped, codes)
          BY <2>5, AppendBitsFacts
    <2>7. QED
          BY <2>2, <2>3, <2>4, <2>6, Zenon
  <1>2. CASE e \in [kind : {"ue"}, bits : {0}, value : 0..kMaxValue]
    <2>1. e.kind = "ue" /\ e.value \in 0..kMaxValue
          BY <1>2
    <2>2. AppendElement(b, e) = IF b.trapped THEN b ELSE AppendUE(b, e.value)
          BY <2>1 DEF AppendElement
    <2>3. AppendUE(b, e.value) \in Counting(insert, in_nalu, trapped, codes)
          BY <2>1, AppendUEFacts
    <2>4. QED
          BY <2>2, <2>3, Zenon
  <1>3. CASE e \in [kind : {"se"}, bits : {0}, value : -(kMaxValue \div 2)..(kMaxValue \div 2)]
    <2>1. e.kind = "se" /\ e.value \in -(kMaxValue \div 2)..(kMaxValue \div 2)
          BY <1>3
    <2>2. AppendElement(b, e) = IF b.trapped THEN b ELSE AppendSE(b, e.value)
          BY <2>1 DEF AppendElement
    <2>3. AppendSE(b, e.value) \in Counting(insert, in_nalu, trapped, codes)
          BY <2>1, AppendSEFacts
    <2>4. QED
          BY <2>2, <2>3, Zenon
  <1>4. QED
        BY <1>1, <1>2, <1>3 DEF SyntaxElements

\* f are the builders that come of appending a list, one element after the other.
Appended(f, builders, b, list) ==
  /\ f \in [0..Len(list) -> builders] /\ f[0] = b
  /\ \A n \in 1..Len(list) : f[n] = AppendElement(f[n - 1], list[n])
  /\ f[Len(list)] = FoldLeft(AppendElement, b, list)

\* However many elements are appended, one after the other.
LEMMA AppendElementRecursion ==
  ASSUME NEW insert, NEW in_nalu, NEW trapped \in BOOLEAN, NEW codes,
         NEW b \in Counting(insert, in_nalu, trapped, codes), NEW list \in Seq(SyntaxElements)
  PROVE  \E f : Appended(f, Counting(insert, in_nalu, trapped, codes), b, list)
  <1> DEFINE S == Counting(insert, in_nalu, trapped, codes)
             N == Len(list)
             step == [x \in S \X (1..N) |-> AppendElement(x[1], list[x[2]])]
             Chosen(iter) ==
               iter = [s \in SUBSET DOMAIN list |->
                         IF s = {} THEN b ELSE AppendElement(iter[s \ {Max(s)}], list[Max(s)])]
             g == CHOOSE iter : Chosen(iter)
  <1>0. N \in Nat /\ DOMAIN list = 1..N /\ \A n \in 1..N : list[n] \in SyntaxElements
        OBVIOUS
  <1>1. \A c \in S, e \in SyntaxElements : AppendElement(c, e) \in S
        BY AppendElementFacts
  <1>2. step \in Steps(S, N)
        BY <1>0, <1>1 DEF Steps
  <1>3. \A c \in S, n \in 1..N : step[<<c, n>>] = AppendElement(c, list[n])
        OBVIOUS
  <1>4. FoldLeft(AppendElement, b, list) = g[DOMAIN list]
        BY DEF FoldLeft, MapThenFoldSet
  <1>5. b \in S
        OBVIOUS
  <1> HIDE DEF N, S, step
  <1>6. Chosen(g)
    <2>1. PICK iter : IsFold(iter, S, b, N, step)
          BY <1>0, <1>2, <1>5, FoldOnSubsets
    <2>2. Chosen(iter)
      <3>1. ASSUME NEW s \in SUBSET (1..N), s # {}
            PROVE  iter[s] = AppendElement(iter[s \ {Max(s)}], list[Max(s)])
        <4>1. iter[s] = step[<<iter[s \ {Max(s)}], Max(s)>>]
              BY <2>1, <3>1 DEF IsFold
        <4>2. s \ {Max(s)} \in SUBSET (1..N) /\ Max(s) \in 1..N
              BY <1>0, <3>1, MaxOfIndices
        <4>3. iter[s \ {Max(s)}] \in S
              BY <2>1, <4>2 DEF IsFold
        <4>4. QED
              BY <1>3, <4>1, <4>2, <4>3
      <3>2. iter[{}] = b
            BY <2>1 DEF IsFold
      <3>3. iter = [s \in SUBSET (1..N) |-> iter[s]]
            BY <2>1 DEF IsFold
      <3>4. QED
            BY <1>0, <3>1, <3>2, <3>3
    <2>3. QED
          BY <2>2
  <1> HIDE DEF g
  <1>7. IsFold(g, S, b, N, step)
    <2>1. DOMAIN g = SUBSET (1..N) /\ g = [s \in SUBSET (1..N) |-> g[s]] /\ g[{}] = b
          BY <1>0, <1>6
    <2>2. ASSUME NEW s \in SUBSET (1..N), s # {}, g[s \ {Max(s)}] \in S
          PROVE  g[s] = step[<<g[s \ {Max(s)}], Max(s)>>]
      <3>1. Max(s) \in 1..N
            BY <1>0, <2>2, MaxOfIndices
      <3>2. g[s] = AppendElement(g[s \ {Max(s)}], list[Max(s)])
            BY <1>0, <1>6, <2>2
      <3>3. QED
            BY <1>3, <2>2, <3>1, <3>2
    <2>3. QED
          BY <1>0, <1>2, <1>5, <2>1, <2>2, FoldIsTyped
  <1> DEFINE f == [n \in 0..N |-> g[1..n]]
  <1>8. Recursion(f, S, b, N, step)
        BY <1>0, <1>5, <1>7, FoldIsRecursion
  <1>9. f[N] = FoldLeft(AppendElement, b, list)
        BY <1>0, <1>4
  <1> HIDE DEF f
  <1>10. f \in [0..N -> S] /\ f[0] = b
         BY <1>8 DEF Recursion
  <1>11. ASSUME NEW n \in 1..N PROVE f[n] = AppendElement(f[n - 1], list[n])
    <2>1. n - 1 \in 0..N
          BY <1>0
    <2>2. f[n - 1] \in S /\ f[n] = step[<<f[n - 1], n>>]
          BY <1>8, <1>10, <2>1 DEF Recursion
    <2>3. QED
          BY <1>3, <2>2
  <1>12. QED
         BY <1>9, <1>10, <1>11 DEF S, N, Appended

LEMMA AppendElementFold ==
  ASSUME NEW insert, NEW in_nalu, NEW trapped \in BOOLEAN, NEW codes,
         NEW b \in Counting(insert, in_nalu, trapped, codes), NEW list \in Seq(SyntaxElements)
  PROVE  FoldLeft(AppendElement, b, list) \in Counting(insert, in_nalu, trapped, codes)
  <1>1. Len(list) \in 0..Len(list)
        OBVIOUS
  <1>2. PICK f : Appended(f, Counting(insert, in_nalu, trapped, codes), b, list)
        BY AppendElementRecursion
  <1>3. QED
        BY <1>1, <1>2 DEF Appended

LEMMA AppendElementHalves ==
  ASSUME NEW insert, NEW in_nalu, NEW trapped \in BOOLEAN, NEW codes,
         NEW b \in Counting(insert, in_nalu, trapped, codes), NEW list \in Seq(SyntaxElements)
  PROVE  FoldHalves(AppendElement, b, list) \in Counting(insert, in_nalu, trapped, codes)
  <1> DEFINE middle == Len(list) \div 2
             first == SubSeq(list, 1, middle)
             second == SubSeq(list, middle + 1, Len(list))
             half == FoldLeft(AppendElement, b, first)
             result == FoldLeft(AppendElement, half, second)
  <1>1. middle \in 0..Len(list)
        OBVIOUS
  <1>2. FoldHalves(AppendElement, b, list) =
          CHOOSE r \in {FoldLeft(AppendElement, h, second) : h \in {half}} : TRUE
        BY DEF FoldHalves
  <1> HIDE DEF middle
  <1>3. first \in Seq(SyntaxElements) /\ second \in Seq(SyntaxElements)
        BY <1>1
  <1> HIDE DEF first, second
  <1>4. half \in Counting(insert, in_nalu, trapped, codes)
        BY <1>3, AppendElementFold
  <1> HIDE DEF half
  <1>5. result \in Counting(insert, in_nalu, trapped, codes)
        BY <1>3, <1>4, AppendElementFold
  <1>6. FoldHalves(AppendElement, b, list) = result
        BY <1>2
  <1>7. QED
        BY <1>5, <1>6, Zenon

--------------------------------------------------------------------------------
(* Outside a NALU.                                                           *)

\* The stream with what is still in the register.
Stream(b) == b.data \o BytesOf(b.reg)

Aligned(insert, in_nalu, trapped) ==
  {b \in Fitting(insert, in_nalu, trapped) : Len(b.reg) % 8 = 0}

\* Between b and c, bytes were added to the stream.
Added(b, bytes, c) == Stream(c) = Stream(b) \o bytes

LEMMA FittingIsCounting ==
  ASSUME NEW insert, NEW in_nalu, NEW trapped, NEW b \in Fitting(insert, in_nalu, trapped)
  PROVE  /\ b \in Counting(insert, in_nalu, trapped, Codes(b.data))
         /\ b.insert_emulation_prevention_bytes = insert /\ b.in_nalu = in_nalu
         /\ b.trapped = trapped /\ b.reg \in Seq(R) /\ b.data \in Seq(D)
         /\ Len(b.reg) \in Nat /\ Len(b.reg) <= kRegBitSize
  BY DEF Counting, Fitting, Builders

LEMMA NoBytes == BytesOf(<<>>) = <<>> /\ \A s \in Seq(D) : s \o <<>> = s
  <1>1. PICK none \in Seq(R) : none = <<>>
        BY SeqFacts
  <1>2. Len(none) = 0 /\ 0 \div 8 = 0
        BY <1>1
  <1>3. PICK t \in Seq(D) : t = BytesOf(none) /\ Len(t) = 0
        BY <1>2, BytesOfFacts
  <1>4. t = <<>>
        BY <1>3
  <1>5. \A s \in Seq(D) : s \o <<>> = s
        OBVIOUS
  <1>6. QED
        BY <1>1, <1>3, <1>4, <1>5, Zenon

LEMMA Regrouped == \A x, y, z \in Seq(D) : x \o (y \o z) = (x \o y) \o z
  BY ConcatAssociative

\* A flush there leaves the stream as it is.
LEMMA FlushRegOutside ==
  ASSUME NEW insert, NEW in_nalu, NEW trapped \in BOOLEAN,
         NEW b \in Aligned(insert, in_nalu, trapped), ~(insert /\ in_nalu)
  PROVE  /\ FlushReg(b) \in Aligned(insert, in_nalu, trapped) /\ FlushReg(b).reg = <<>>
         /\ FlushReg(b).data = Stream(b) /\ Stream(FlushReg(b)) = Stream(b)
  <1> DEFINE bytes == BytesInReg(b.reg)
             empty == [b EXCEPT !.reg = <<>>]
             c == FlushReg(b)
  <1>1. b \in Fitting(insert, in_nalu, trapped) /\ Len(b.reg) % 8 = 0
        BY DEF Aligned
  <1>2. /\ b.insert_emulation_prevention_bytes = insert /\ b.in_nalu = in_nalu
        /\ b.reg \in Seq(R) /\ b.data \in Seq(D) /\ Len(b.reg) <= kRegBitSize
        /\ b \in Counting(insert, in_nalu, trapped, Codes(b.data))
        BY <1>1, FittingIsCounting
  <1>3. c \in Fitting(insert, in_nalu, trapped) /\ c.reg = <<>>
    <2>1. c \in Counting(insert, in_nalu, trapped, Codes(b.data)) /\ c.reg = <<>>
          BY <1>2, FlushRegFacts
    <2>2. QED
          BY <2>1 DEF Counting
  <1>4. bytes \in Seq(D) /\ Len(bytes) <= kRegByteSize /\ bytes = BytesOf(b.reg)
        BY <1>1, <1>2, BytesFacts
  <1>5. c = Put(empty, bytes)
        BY <1>2 DEF FlushReg
  <1>6. empty \in Fitting(insert, in_nalu, trapped) /\ empty.data = b.data
    <2>1. PICK none \in Seq(R) : none = <<>> /\ Len(none) <= kRegBitSize
      <3>1. PICK none \in Seq(R) : none = <<>>
            BY SeqFacts
      <3>2. Len(none) <= kRegBitSize
            BY <3>1, RegFacts
      <3>3. QED
            BY <3>1, <3>2
    <2>2. empty = [b EXCEPT !.reg = none]
          BY <2>1
    <2>3. QED
          BY <1>1, <2>1, <2>2 DEF Fitting, Builders
  <1> HIDE DEF bytes, empty, c
  <1>7. c.data = Stream(b)
    <2>1. Put(empty, bytes).data = empty.data \o bytes
      <3>1. \A d \in Fitting(insert, in_nalu, trapped), e \in Seq(D) :
              Len(e) <= kRegByteSize => Put(d, e).data = d.data \o e
            BY PutFacts
      <3>2. QED
            BY <1>4, <1>6, <3>1, Zenon
    <2>2. QED
          BY <1>4, <1>5, <1>6, <2>1, Zenon DEF Stream
  <1>8. c.data \in Seq(D)
        BY <1>3, FittingIsCounting
  <1>9. Stream(c) = Stream(b)
        BY <1>3, <1>7, <1>8, NoBytes DEF Stream
  <1>10. c \in Aligned(insert, in_nalu, trapped)
    <2>1. Len(<<>>) % 8 = 0
          OBVIOUS
    <2>2. QED
          BY <1>3, <2>1 DEF Aligned
  <1>11. QED
         BY <1>3, <1>7, <1>9, <1>10 DEF c

\* There whole bytes are appended as they are.
LEMMA AlignedAppend ==
  ASSUME NEW insert, NEW in_nalu, NEW trapped \in BOOLEAN,
         NEW b \in Aligned(insert, in_nalu, trapped), ~(insert /\ in_nalu),
         NEW bits \in Seq(R), Len(bits) <= kRegBitSize, Len(bits) % 8 = 0
  PROVE  /\ AppendBits(b, bits) \in Aligned(insert, in_nalu, trapped)
         /\ Added(b, BytesOf(bits), AppendBits(b, bits))
  <1> DEFINE c    == Flushed(b)
             room == kRegBitSize - Len(c.reg)
             m    == IF Len(bits) < room THEN Len(bits) ELSE room
             head == SubSeq(bits, 1, m)
             reg  == c.reg \o head
             d    == [c EXCEPT !.reg = @ \o SubSeq(bits, 1, IF Len(bits) < room THEN Len(bits) ELSE room)]
             tail == SubSeq(bits, room + 1, Len(bits))
             whole == AppendBits(b, bits)
  <1>1. /\ c \in Aligned(insert, in_nalu, trapped) /\ Stream(c) = Stream(b)
        /\ Len(c.reg) < kRegBitSize
    <2>1. CASE Len(b.reg) = kRegBitSize
      <3>1. c = FlushReg(b)
            BY <2>1 DEF Flushed
      <3>2. Len(<<>>) < kRegBitSize
            BY RegFacts
      <3>3. QED
            BY <3>1, <3>2, FlushRegOutside
    <2>2. CASE Len(b.reg) # kRegBitSize
      <3>1. c = b
            BY <2>2 DEF Flushed
      <3>2. b \in Fitting(insert, in_nalu, trapped)
            BY DEF Aligned
      <3>3. Len(b.reg) \in Nat /\ Len(b.reg) <= kRegBitSize
            BY <3>2, FittingIsCounting
      <3>4. QED
            BY <2>2, <3>1, <3>3, RegFacts
    <2>3. QED
          BY <2>1, <2>2
  <1>2. whole =
          IF bits = <<>> THEN b ELSE IF Len(bits) <= room THEN d
          ELSE [FlushReg(d) EXCEPT !.reg = tail]
    <2>1. ~(Len(bits) > kRegBitSize)
          BY RegFacts
    <2>2. QED
          BY <2>1 DEF AppendBits
  <1> HIDE DEF c, whole
  <1>3. c \in Fitting(insert, in_nalu, trapped) /\ Len(c.reg) % 8 = 0
        BY <1>1 DEF Aligned
  <1>4. c.reg \in Seq(R) /\ c.data \in Seq(D) /\ Len(c.reg) \in Nat /\ Len(bits) \in Nat
        BY <1>3, FittingIsCounting
  <1>5. /\ room \in Nat /\ room >= 1 /\ Len(c.reg) + room = kRegBitSize /\ room <= kRegBitSize
        /\ room % 8 = 0
    <2>1. \A k, r \in Nat : k % 8 = 0 /\ r % 8 = 0 /\ r < k =>
            k - r \in Nat /\ k - r >= 1 /\ r + (k - r) = k /\ k - r <= k /\ (k - r) % 8 = 0
          OBVIOUS
    <2>2. Len(c.reg) < kRegBitSize /\ Len(c.reg) % 8 = 0 /\ Len(c.reg) \in Nat
          BY <1>1, <1>3, <1>4
    <2>3. QED
          BY <2>1, <2>2, RegFacts
  <1> HIDE DEF room
  <1>6. m \in 0..Len(bits) /\ m <= room /\ (m = Len(bits) \/ m = room)
        BY <1>4, <1>5
  <1>7. d = [c EXCEPT !.reg = reg]
        BY <1>3 DEF Fitting, Builders
  <1> HIDE DEF d
  <1>8. CASE bits = <<>>
    <2>1. Stream(b) \in Seq(D)
      <3>1. b \in Fitting(insert, in_nalu, trapped)
            BY DEF Aligned
      <3>2. QED
            BY <3>1, FittingIsCounting, BytesOfFacts DEF Stream
    <2>2. whole = b
          BY <1>2, <1>8
    <2>3. Stream(b) \o BytesOf(bits) = Stream(b)
          BY <1>8, <2>1, NoBytes, Zenon
    <2>4. QED
          BY <2>2, <2>3 DEF whole, Added
  <1>9. CASE bits # <<>> /\ Len(bits) <= room
    <2>1. whole = d
          BY <1>2, <1>9
    <2>2. m = Len(bits)
          BY <1>4, <1>5, <1>9 DEF m
    <2>3. head = bits
          BY <2>2
    <2>4. /\ reg \in Seq(R) /\ Len(reg) = Len(c.reg) + Len(bits) /\ Len(reg) % 8 = 0
          /\ BytesOf(reg) = BytesOf(c.reg) \o BytesOf(bits)
      <3>1. reg = c.reg \o bits
            BY <2>3, Zenon
      <3> HIDE DEF reg
      <3>2. reg \in Seq(R) /\ Len(reg) = Len(c.reg) + Len(bits)
            BY <1>4, <3>1, ConcatParts
      <3>3. Len(reg) % 8 = 0 /\ BytesOf(reg) = BytesOf(c.reg) \o BytesOf(bits)
            BY <1>3, <1>4, <3>1, BytesOfConcat
      <3>4. QED
            BY <3>2, <3>3
    <2> HIDE DEF reg
    <2>5. Len(reg) <= kRegBitSize
      <3>1. \A r, n, k, a \in Nat : r + a = k /\ n <= a => r + n <= k
            OBVIOUS
      <3>2. Len(c.reg) + Len(bits) <= kRegBitSize
            BY <1>4, <1>5, <1>9, <3>1, RegFacts, Zenon
      <3>3. QED
            BY <2>4, <3>2, Zenon
    <2>6. d \in Fitting(insert, in_nalu, trapped) /\ d.reg = reg /\ d.data = c.data
          BY <1>3, <1>7, <2>4, <2>5 DEF Fitting, Builders
    <2>7. Stream(d) = Stream(c) \o BytesOf(bits)
      <3>1. BytesOf(c.reg) \in Seq(D) /\ BytesOf(bits) \in Seq(D)
            BY <1>4, BytesOfFacts
      <3>2. Stream(d) = c.data \o (BytesOf(c.reg) \o BytesOf(bits))
            BY <2>4, <2>6 DEF Stream
      <3>3. Stream(c) \o BytesOf(bits) = (c.data \o BytesOf(c.reg)) \o BytesOf(bits)
            BY DEF Stream
      <3>4. c.data \o (BytesOf(c.reg) \o BytesOf(bits)) = (c.data \o BytesOf(c.reg)) \o BytesOf(bits)
            BY <1>4, <3>1, Regrouped, Zenon
      <3>5. QED
            BY <3>2, <3>3, <3>4, Zenon
    <2>8. QED
          BY <1>1, <2>1, <2>4, <2>6, <2>7 DEF Aligned, whole, Added
  <1>10. CASE Len(bits) > room
    <2>1. whole = [FlushReg(d) EXCEPT !.reg = tail]
      <3>1. bits # <<>>
            BY <1>4, <1>5, <1>10
      <3>2. QED
            BY <1>2, <1>4, <1>5, <1>10, <3>1
    <2>2. m = room
          BY <1>4, <1>5, <1>10 DEF m
    <2>3. head = SubSeq(bits, 1, room)
          BY <2>2
    <2>4. /\ head \in Seq(R) /\ Len(head) = room /\ tail \in Seq(R) /\ Len(tail) = Len(bits) - room
          /\ bits = head \o tail
      <3>1. \A k \in 1..Len(bits) : /\ SubSeq(bits, 1, k) \in Seq(R) /\ Len(SubSeq(bits, 1, k)) = k
                                    /\ SubSeq(bits, k + 1, Len(bits)) \in Seq(R)
                                    /\ Len(SubSeq(bits, k + 1, Len(bits))) = Len(bits) - k
                                    /\ bits = SubSeq(bits, 1, k) \o SubSeq(bits, k + 1, Len(bits))
            OBVIOUS
      <3>2. room \in 1..Len(bits)
            BY <1>4, <1>5, <1>10
      <3>3. QED
            BY <2>3, <3>1, <3>2, Zenon
    <2> HIDE DEF head, tail
    <2>5. Len(tail) % 8 = 0 /\ Len(tail) <= kRegBitSize
      <3>1. \A k, n, a \in Nat : n <= k /\ n > a /\ n % 8 = 0 /\ a % 8 = 0 =>
              (n - a) % 8 = 0 /\ n - a <= k
            OBVIOUS
      <3>2. PICK k, n, a \in Nat : k = kRegBitSize /\ n = Len(bits) /\ a = room
            BY <1>4, <1>5, RegFacts
      <3>3. n <= k /\ n > a /\ n % 8 = 0 /\ a % 8 = 0 /\ Len(tail) = n - a
            BY <1>5, <1>10, <2>4, <3>2
      <3>4. (n - a) % 8 = 0 /\ n - a <= k
            BY <3>1, <3>3
      <3>5. QED
            BY <3>2, <3>3, <3>4
    <2>6. /\ reg \in Seq(R) /\ Len(reg) = Len(c.reg) + room /\ Len(reg) % 8 = 0
          /\ BytesOf(reg) = BytesOf(c.reg) \o BytesOf(head)
      <3>1. Len(head) % 8 = 0
            BY <1>5, <2>4
      <3>2. reg = c.reg \o head
            OBVIOUS
      <3> HIDE DEF reg
      <3>3. reg \in Seq(R) /\ Len(reg) = Len(c.reg) + room
            BY <1>4, <2>4, <3>2, ConcatParts
      <3>4. Len(reg) % 8 = 0 /\ BytesOf(reg) = BytesOf(c.reg) \o BytesOf(head)
            BY <1>3, <1>4, <2>4, <3>1, <3>2, BytesOfConcat
      <3>5. QED
            BY <3>3, <3>4
    <2> HIDE DEF reg
    <2>7. Len(reg) <= kRegBitSize
          BY <1>5, <2>6, RegFacts
    <2>8. d \in Aligned(insert, in_nalu, trapped) /\ d.reg = reg /\ d.data = c.data
          BY <1>3, <1>7, <2>6, <2>7 DEF Aligned, Fitting, Builders
    <2>9. /\ FlushReg(d) \in Fitting(insert, in_nalu, trapped)
          /\ FlushReg(d).data = c.data \o BytesOf(reg)
      <3>1. FlushReg(d) \in Aligned(insert, in_nalu, trapped) /\ FlushReg(d).data = Stream(d)
            BY <2>8, FlushRegOutside
      <3>2. QED
            BY <2>8, <3>1 DEF Aligned, Stream
    <2>10. /\ whole \in Fitting(insert, in_nalu, trapped) /\ whole.reg = tail
           /\ whole.data = c.data \o BytesOf(reg)
           BY <2>1, <2>4, <2>5, <2>9 DEF Fitting, Builders
    <2>11. BytesOf(bits) = BytesOf(head) \o BytesOf(tail)
      <3>1. Len(head) % 8 = 0
            BY <1>5, <2>4
      <3>2. QED
            BY <2>4, <2>5, <3>1, BytesOfConcat
    <2>12. Stream(whole) = Stream(c) \o BytesOf(bits)
      <3>1. BytesOf(c.reg) \in Seq(D) /\ BytesOf(head) \in Seq(D) /\ BytesOf(tail) \in Seq(D)
            BY <1>4, <2>4, BytesOfFacts
      <3>2. Stream(whole) = (c.data \o (BytesOf(c.reg) \o BytesOf(head))) \o BytesOf(tail)
            BY <2>6, <2>10 DEF Stream
      <3>3. Stream(c) \o BytesOf(bits) = (c.data \o BytesOf(c.reg)) \o (BytesOf(head) \o BytesOf(tail))
            BY <2>11 DEF Stream
      <3>4. (c.data \o (BytesOf(c.reg) \o BytesOf(head))) \o BytesOf(tail)
              = (c.data \o BytesOf(c.reg)) \o (BytesOf(head) \o BytesOf(tail))
        <4>1. PICK w, x, y, z \in Seq(D) :
                w = c.data /\ x = BytesOf(c.reg) /\ y = BytesOf(head) /\ z = BytesOf(tail)
              BY <1>4, <3>1
        <4>2. PICK v \in Seq(D) : v = w \o x
              BY ConcatProperties
        <4>3. w \o (x \o y) = (w \o x) \o y
              BY Regrouped, Zenon
        <4>4. v \o (y \o z) = (v \o y) \o z
              BY Regrouped, Zenon
        <4>5. QED
              BY <4>1, <4>2, <4>3, <4>4, Zenon
      <3>5. QED
            BY <3>2, <3>3, <3>4, Zenon
    <2>13. QED
      <3>1. whole \in Aligned(insert, in_nalu, trapped)
            BY <2>5, <2>10 DEF Aligned
      <3>2. Stream(whole) = Stream(b) \o BytesOf(bits)
            BY <1>1, <2>12
      <3>3. QED
            BY <3>1, <3>2, Zenon DEF whole, Added
  <1>11. bits = <<>> \/ (bits # <<>> /\ Len(bits) <= room) \/ Len(bits) > room
         BY <1>4, <1>5
  <1>12. QED
         BY <1>8, <1>9, <1>10, <1>11, Zenon

--------------------------------------------------------------------------------
(* Bytes and start codes as they are appended.                               *)

LEMMA PowersOfTwo ==
  /\ 2 ^ 0 = 1 /\ 2 ^ 1 = 2 /\ 2 ^ 2 = 4 /\ 2 ^ 3 = 8 /\ 2 ^ 4 = 16 /\ 2 ^ 5 = 32
  /\ 2 ^ 6 = 64 /\ 2 ^ 7 = 128
  /\ \A k \in 0..23 : 2 ^ k \in Nat /\ 2 ^ k > 0
  <1>1. /\ 2 ^ 0 = 1 /\ 2 ^ 1 = 2 /\ 2 ^ 2 = 4 /\ 2 ^ 3 = 8 /\ 2 ^ 4 = 16 /\ 2 ^ 5 = 32
        /\ 2 ^ 6 = 64 /\ 2 ^ 7 = 128
        OBVIOUS
  <1>2. /\ 2 ^ 0 \in Nat /\ 2 ^ 0 > 0 /\ 2 ^ 1 \in Nat /\ 2 ^ 1 > 0 /\ 2 ^ 2 \in Nat /\ 2 ^ 2 > 0
        /\ 2 ^ 3 \in Nat /\ 2 ^ 3 > 0 /\ 2 ^ 4 \in Nat /\ 2 ^ 4 > 0 /\ 2 ^ 5 \in Nat /\ 2 ^ 5 > 0
        /\ 2 ^ 6 \in Nat /\ 2 ^ 6 > 0 /\ 2 ^ 7 \in Nat /\ 2 ^ 7 > 0 /\ 2 ^ 8 \in Nat /\ 2 ^ 8 > 0
        /\ 2 ^ 9 \in Nat /\ 2 ^ 9 > 0 /\ 2 ^ 10 \in Nat /\ 2 ^ 10 > 0 /\ 2 ^ 11 \in Nat /\ 2 ^ 11 > 0
        OBVIOUS
  <1>3. /\ 2 ^ 12 \in Nat /\ 2 ^ 12 > 0 /\ 2 ^ 13 \in Nat /\ 2 ^ 13 > 0 /\ 2 ^ 14 \in Nat /\ 2 ^ 14 > 0
        /\ 2 ^ 15 \in Nat /\ 2 ^ 15 > 0 /\ 2 ^ 16 \in Nat /\ 2 ^ 16 > 0 /\ 2 ^ 17 \in Nat /\ 2 ^ 17 > 0
        /\ 2 ^ 18 \in Nat /\ 2 ^ 18 > 0 /\ 2 ^ 19 \in Nat /\ 2 ^ 19 > 0 /\ 2 ^ 20 \in Nat /\ 2 ^ 20 > 0
        /\ 2 ^ 21 \in Nat /\ 2 ^ 21 > 0 /\ 2 ^ 22 \in Nat /\ 2 ^ 22 > 0 /\ 2 ^ 23 \in Nat /\ 2 ^ 23 > 0
        OBVIOUS
  <1>4. ASSUME NEW k \in 0..23 PROVE 2 ^ k \in Nat /\ 2 ^ k > 0
    <2>1. \/ k = 0 \/ k = 1 \/ k = 2 \/ k = 3 \/ k = 4 \/ k = 5 \/ k = 6 \/ k = 7
          \/ k = 8 \/ k = 9 \/ k = 10 \/ k = 11 \/ k = 12 \/ k = 13 \/ k = 14 \/ k = 15
          \/ k = 16 \/ k = 17 \/ k = 18 \/ k = 19 \/ k = 20 \/ k = 21 \/ k = 22 \/ k = 23
          OBVIOUS
    <2>2. QED
          BY <1>2, <1>3, <2>1, Zenon
  <1>5. QED
        BY <1>1, <1>4, Zenon

LEMMA ByteBits ==
  ASSUME NEW x \in D
  PROVE  BytesOf(Bits(8, x)) = <<x>>
  <1> DEFINE bits == Bits(8, x)
             bit(k) == Bit((x \div k) % 2 = 1)
  <1>1. bits \in Seq(R) /\ Len(bits) = 8
    <2>1. x \in Int
          BY DEF D
    <2>2. QED
          BY <2>1, BitsFacts
  <1>2. /\ bits[1] = bit(128) /\ bits[2] = bit(64) /\ bits[3] = bit(32) /\ bits[4] = bit(16)
        /\ bits[5] = bit(8) /\ bits[6] = bit(4) /\ bits[7] = bit(2) /\ bits[8] = bit(1)
    <2>1. ASSUME NEW i \in 1..8 PROVE bits[i] = bit(2 ^ (8 - i))
          BY DEF Bits
    <2>2. /\ 8 - 1 = 7 /\ 8 - 2 = 6 /\ 8 - 3 = 5 /\ 8 - 4 = 4
          /\ 8 - 5 = 3 /\ 8 - 6 = 2 /\ 8 - 7 = 1 /\ 8 - 8 = 0
          OBVIOUS
    <2> HIDE DEF bits, bit
    <2>3. /\ bits[1] = bit(2 ^ (8 - 1)) /\ bits[2] = bit(2 ^ (8 - 2))
          /\ bits[3] = bit(2 ^ (8 - 3)) /\ bits[4] = bit(2 ^ (8 - 4))
          /\ bits[5] = bit(2 ^ (8 - 5)) /\ bits[6] = bit(2 ^ (8 - 6))
          /\ bits[7] = bit(2 ^ (8 - 7)) /\ bits[8] = bit(2 ^ (8 - 8))
          BY <2>1
    <2>4. bits[1] = bit(128) /\ bits[2] = bit(64)
      <3>1. 2 ^ (8 - 1) = 128 /\ 2 ^ (8 - 2) = 64
            BY <2>2, PowersOfTwo, Zenon
      <3>2. QED
            BY <2>3, <3>1, Zenon
    <2>5. bits[3] = bit(32) /\ bits[4] = bit(16)
      <3>1. 2 ^ (8 - 3) = 32 /\ 2 ^ (8 - 4) = 16
            BY <2>2, PowersOfTwo, Zenon
      <3>2. QED
            BY <2>3, <3>1, Zenon
    <2>6. bits[5] = bit(8) /\ bits[6] = bit(4)
      <3>1. 2 ^ (8 - 5) = 8 /\ 2 ^ (8 - 6) = 4
            BY <2>2, PowersOfTwo, Zenon
      <3>2. QED
            BY <2>3, <3>1, Zenon
    <2>7. bits[7] = bit(2) /\ bits[8] = bit(1)
      <3>1. 2 ^ (8 - 7) = 2 /\ 2 ^ (8 - 8) = 1
            BY <2>2, PowersOfTwo, Zenon
      <3>2. QED
            BY <2>3, <3>1, Zenon
    <2>8. QED
          BY <2>4, <2>5, <2>6, <2>7, Zenon
  <1>3. bit(1) = x % 2 /\ \A k \in {2, 4, 8, 16, 32, 64, 128} : bit(k) = (x \div k) % 2
    <2>1. x \in Nat /\ x \div 1 = x
          BY DEF D
    <2>2. \A n \in Nat : Bit(n % 2 = 1) = n % 2
          BY DEF Bit
    <2>3. \A k \in {2, 4, 8, 16, 32, 64, 128} : x \div k \in Nat
          BY <2>1
    <2>4. QED
          BY <2>1, <2>2, <2>3
  <1> HIDE DEF bits, bit
  <1>4. ByteAt(bits, 1) = x
    <2>1. PICK n \in Nat : n = x /\ n <= 255
          BY DEF D
    <2>2. /\ 8 * 1 - 7 = 1 /\ 8 * 1 - 6 = 2 /\ 8 * 1 - 5 = 3 /\ 8 * 1 - 4 = 4
          /\ 8 * 1 - 3 = 5 /\ 8 * 1 - 2 = 6 /\ 8 * 1 - 1 = 7 /\ 8 * 1 = 8
          OBVIOUS
    <2>3. ByteAt(bits, 1) =
            128 * bits[1] + 64 * bits[2] + 32 * bits[3] + 16 * bits[4]
              + 8 * bits[5] + 4 * bits[6] + 2 * bits[7] + bits[8]
          BY <2>2, Zenon DEF ByteAt
    <2>4. /\ bit(128) = (n \div 128) % 2 /\ bit(64) = (n \div 64) % 2 /\ bit(32) = (n \div 32) % 2
          /\ bit(16) = (n \div 16) % 2 /\ bit(8) = (n \div 8) % 2 /\ bit(4) = (n \div 4) % 2
          /\ bit(2) = (n \div 2) % 2 /\ bit(1) = n % 2
          BY <1>3, <2>1
    <2>5. 128 * ((n \div 128) % 2) + 64 * ((n \div 64) % 2) + 32 * ((n \div 32) % 2)
            + 16 * ((n \div 16) % 2) + 8 * ((n \div 8) % 2) + 4 * ((n \div 4) % 2)
            + 2 * ((n \div 2) % 2) + (n % 2) = n
          BY <2>1
    <2>6. ByteAt(bits, 1) =
            128 * bit(128) + 64 * bit(64) + 32 * bit(32) + 16 * bit(16)
              + 8 * bit(8) + 4 * bit(4) + 2 * bit(2) + bit(1)
          BY <1>2, <2>3, Zenon
    <2>7. QED
          BY <2>1, <2>4, <2>5, <2>6, Zenon
  <1>5. BytesOf(bits) = [i \in 1..1 |-> ByteAt(bits, i)]
    <2>1. Len(bits) \div 8 = 1
          BY <1>1
    <2>2. QED
          BY <2>1 DEF BytesOf
  <1>6. BytesOf(bits) = <<x>>
        BY <1>4, <1>5
  <1>7. QED
        BY <1>6 DEF bits

\* Three bytes of zeros.
LEMMA ZeroBits == BytesOf(Bits(24, 0)) = <<0, 0, 0>>
  <1> DEFINE bits == Bits(24, 0)
  <1>1. bits \in Seq(R) /\ Len(bits) = 24
    <2>1. 24 \in Nat /\ 0 \in Int
          OBVIOUS
    <2>2. QED
          BY <2>1, BitsFacts, Zenon
  <1>2. ASSUME NEW i \in 1..24 PROVE bits[i] = 0
    <2>1. 24 - i \in 0..23
          OBVIOUS
    <2>2. PICK k \in Nat : k = 2 ^ (24 - i) /\ k > 0
      <3>1. \A k \in 0..23 : 2 ^ k \in Nat /\ 2 ^ k > 0
            BY PowersOfTwo, Zenon
      <3>2. 2 ^ (24 - i) \in Nat /\ 2 ^ (24 - i) > 0
            BY <2>1, <3>1, Zenon
      <3>3. QED
            BY <3>2, Zenon
    <2>3. (0 \div k) % 2 = 0
          BY <2>2
    <2>4. QED
          BY <2>2, <2>3 DEF Bits, Bit
  <1> HIDE DEF bits
  <1>3. ASSUME NEW i \in 1..3 PROVE ByteAt(bits, i) = 0
    <2>1. /\ bits[8 * i - 7] = 0 /\ bits[8 * i - 6] = 0 /\ bits[8 * i - 5] = 0
          /\ bits[8 * i - 4] = 0 /\ bits[8 * i - 3] = 0 /\ bits[8 * i - 2] = 0
          /\ bits[8 * i - 1] = 0 /\ bits[8 * i] = 0
          BY <1>2
    <2>2. 128 * 0 + 64 * 0 + 32 * 0 + 16 * 0 + 8 * 0 + 4 * 0 + 2 * 0 + 0 = 0
          OBVIOUS
    <2>3. QED
          BY <2>1, <2>2, Zenon DEF ByteAt
  <1>4. BytesOf(bits) = [i \in 1..3 |-> ByteAt(bits, i)]
    <2>1. Len(bits) \div 8 = 3
          BY <1>1
    <2>2. QED
          BY <2>1 DEF BytesOf
  <1>5. BytesOf(bits) = <<0, 0, 0>>
        BY <1>3, <1>4
  <1>6. QED
        BY <1>5 DEF bits

\* What BeginNALU appends is the same start code.
LEMMA CodeBits ==
  LET code == Zeros(31) \o <<1>>
  IN code \in Seq(R) /\ Len(code) = 32 /\ BytesOf(code) = <<0, 0, 0, 1>>
  <1> DEFINE code == Zeros(31) \o <<1>>
  <1>1. /\ code \in Seq(R) /\ Len(code) = 32 /\ code[32] = 1
        /\ \A i \in 1..31 : code[i] = 0
    <2>1. PICK zeros \in Seq(R) : zeros = Zeros(31) /\ Len(zeros) = 31
          BY ZerosFacts
    <2>2. PICK one \in Seq(R) : one = <<1>> /\ Len(one) = 1 /\ one[1] = 1
      <3>1. 1 \in R
            BY DEF R
      <3>2. PICK one : one = <<1>>
            OBVIOUS
      <3>3. one \in Seq(R) /\ Len(one) = 1 /\ one[1] = 1
            BY <3>1, <3>2
      <3>4. QED
            BY <3>2, <3>3, Zenon
    <2>3. \A i \in 1..31 : zeros[i] = 0
          BY <2>1 DEF Zeros
    <2>4. PICK c : c = zeros \o one
          OBVIOUS
    <2>5. c = code
          BY <2>1, <2>2, <2>4, Zenon
    <2> HIDE DEF code
    <2>6. /\ c \in Seq(R) /\ Len(c) = 31 + 1
          /\ \A i \in 1..31 : c[i] = zeros[i]
          /\ \A i \in 1..1 : c[31 + i] = one[i]
      <3>1. /\ c \in Seq(R) /\ Len(c) = Len(zeros) + Len(one)
            /\ \A i \in 1..Len(zeros) : c[i] = zeros[i]
            /\ \A i \in 1..Len(one) : c[Len(zeros) + i] = one[i]
            BY <2>4, ConcatParts
      <3>2. QED
            BY <2>1, <2>2, <3>1, Zenon
    <2>7. 31 + 1 = 32 /\ 1 \in 1..1
          OBVIOUS
    <2>8. c[32] = 1
          BY <2>2, <2>6, <2>7, Zenon
    <2>9. QED
          BY <2>3, <2>5, <2>6, <2>7, <2>8, Zenon
  <1> HIDE DEF code
  <1>2. ASSUME NEW i \in 1..3 PROVE ByteAt(code, i) = 0
    <2>1. /\ code[8 * i - 7] = 0 /\ code[8 * i - 6] = 0 /\ code[8 * i - 5] = 0
          /\ code[8 * i - 4] = 0 /\ code[8 * i - 3] = 0 /\ code[8 * i - 2] = 0
          /\ code[8 * i - 1] = 0 /\ code[8 * i] = 0
      <3>1. /\ 8 * i - 7 \in 1..31 /\ 8 * i - 6 \in 1..31 /\ 8 * i - 5 \in 1..31
            /\ 8 * i - 4 \in 1..31 /\ 8 * i - 3 \in 1..31 /\ 8 * i - 2 \in 1..31
            /\ 8 * i - 1 \in 1..31 /\ 8 * i \in 1..31
            OBVIOUS
      <3>2. QED
            BY <1>1, <3>1, Zenon
    <2>2. 128 * 0 + 64 * 0 + 32 * 0 + 16 * 0 + 8 * 0 + 4 * 0 + 2 * 0 + 0 = 0
          OBVIOUS
    <2>3. QED
          BY <2>1, <2>2, Zenon DEF ByteAt
  <1>3. ByteAt(code, 4) = 1
    <2>1. /\ code[8 * 4 - 7] = 0 /\ code[8 * 4 - 6] = 0 /\ code[8 * 4 - 5] = 0
          /\ code[8 * 4 - 4] = 0 /\ code[8 * 4 - 3] = 0 /\ code[8 * 4 - 2] = 0
          /\ code[8 * 4 - 1] = 0 /\ code[8 * 4] = 1
          BY <1>1
    <2>2. 128 * 0 + 64 * 0 + 32 * 0 + 16 * 0 + 8 * 0 + 4 * 0 + 2 * 0 + 1 = 1
          OBVIOUS
    <2>3. QED
          BY <2>1, <2>2, Zenon DEF ByteAt
  <1>4. BytesOf(code) = [i \in 1..4 |-> ByteAt(code, i)]
    <2>1. Len(code) \div 8 = 4
          BY <1>1
    <2>2. QED
          BY <2>1 DEF BytesOf
  <1>5. BytesOf(code) = <<0, 0, 0, 1>>
        BY <1>2, <1>3, <1>4
  <1>6. QED
        BY <1>1, <1>5 DEF code

LEMMA FourBytes ==
  LET four == <<0, 0, 0, 1>>
  IN four \in Seq(D) /\ Codes(four) = 2 /\ EndsWell(four)
  <1> DEFINE four == <<0, 0, 0, 1>>
  <1>1. four \in Seq(D) /\ Len(four) = 4 /\ EndsWell(four)
        BY DEF D, EndsWell
  <1>2. StartCodesIn(four) = {1, 2}
        BY DEF StartCodesIn
  <1> HIDE DEF four
  <1>3. Cardinality({1, 2}) = 2
    <2>1. Cardinality({1}) = 1 /\ IsFiniteSet({1})
          BY FS_Singleton
    <2>2. {1, 2} = {1} \cup {2} /\ 2 \notin {1}
          OBVIOUS
    <2>3. QED
          BY <2>1, <2>2, FS_AddElement
  <1>4. QED
        BY <1>1, <1>2, <1>3 DEF Codes, four

--------------------------------------------------------------------------------
(* A NALU.                                                                   *)

\* A start code may begin a NALU when nothing is in the register.
LEMMA BeginNALUFacts ==
  ASSUME NEW insert \in BOOLEAN, NEW trapped \in BOOLEAN, NEW b \in Fitting(insert, FALSE, trapped),
         b.reg = <<>>, NEW nalu_type \in Int, NEW nal_ref_idc \in Int
  PROVE  /\ BeginNALU(b, nalu_type, nal_ref_idc) \in Fitting(insert, TRUE, trapped)
         /\ insert /\ EndsWell(b.data) =>
              BeginNALU(b, nalu_type, nal_ref_idc) \in Counting(insert, TRUE, trapped, Codes(b.data) + 2)
  <1> DEFINE code == Zeros(31) \o <<1>>
             four == <<0, 0, 0, 1>>
             checked == [b EXCEPT !.trapped = @ \/ b.in_nalu \/ b.reg # <<>>]
             appended == AppendBits(checked, code)
             started == FlushReg(appended)
             begun == [started EXCEPT !.in_nalu = TRUE]
             zero == AppendBits(begun, <<0>>)
             idc == AppendBits(zero, Bits(2, nal_ref_idc))
             nalu == BeginNALU(b, nalu_type, nal_ref_idc)
             codes == Codes(begun.data)
  <1>1. nalu = AppendBits(idc, Bits(5, nalu_type))
        BY DEF BeginNALU
  <1>2. checked = b
    <2>1. b \in Builders(insert, FALSE, trapped)
          BY DEF Fitting
    <2>2. b.in_nalu = FALSE /\ b.trapped = trapped
          BY <2>1 DEF Builders
    <2>3. (b.trapped \/ b.in_nalu \/ b.reg # <<>>) = trapped
          BY <2>2, Zenon
    <2>4. checked = [b EXCEPT !.trapped = trapped]
          BY <2>3, Zenon
    <2>5. QED
          BY <2>1, <2>4 DEF Builders
  <1> HIDE DEF checked, nalu
  <1>3. code \in Seq(R) /\ Len(code) = 32 /\ BytesOf(code) = four
        BY CodeBits
  <1> HIDE DEF code
  <1>4. b.data \in Seq(D) /\ b \in Aligned(insert, FALSE, trapped) /\ Stream(b) = b.data
    <2>1. b.data \in Seq(D)
          BY FittingIsCounting
    <2>2. b \in Aligned(insert, FALSE, trapped)
      <3>1. Len(<<>>) = 0 /\ 0 % 8 = 0
            BY EmptySeq
      <3>2. QED
            BY <3>1 DEF Aligned
    <2>3. Stream(b) = b.data
          BY <2>1, NoBytes DEF Stream
    <2>4. QED
          BY <2>1, <2>2, <2>3
  <1>5. appended \in Aligned(insert, FALSE, trapped) /\ Stream(appended) = b.data \o four
    <2>1. Len(code) <= kRegBitSize /\ Len(code) % 8 = 0 /\ ~(insert /\ FALSE)
          BY <1>3, RegFacts
    <2>2. /\ AppendBits(b, code) \in Aligned(insert, FALSE, trapped)
          /\ Stream(AppendBits(b, code)) = Stream(b) \o BytesOf(code)
      <3>1. /\ AppendBits(b, code) \in Aligned(insert, FALSE, trapped)
            /\ Added(b, BytesOf(code), AppendBits(b, code))
            BY <1>3, <1>4, <2>1, AlignedAppend
      <3>2. QED
            BY <3>1 DEF Added
    <2>3. QED
          BY <1>2, <1>3, <1>4, <2>2
  <1> HIDE DEF appended
  <1>6. started \in Aligned(insert, FALSE, trapped) /\ started.data = b.data \o four
        BY <1>5, FlushRegOutside
  <1> HIDE DEF started
  <1>7. begun \in Fitting(insert, TRUE, trapped) /\ begun.data = b.data \o four
        BY <1>6 DEF Aligned, Fitting, Builders
  <1> HIDE DEF begun
  <1>8. ASSUME EndsWell(b.data) PROVE codes = Codes(b.data) + 2
    <2>1. four \in Seq(D) /\ Codes(four) = 2
          BY FourBytes
    <2> HIDE DEF four
    <2>2. Codes(b.data \o four) = Codes(b.data) + Codes(four)
          BY <1>4, <1>8, <2>1, CodesConcat
    <2>3. QED
          BY <1>7, <2>1, <2>2
  <1>9. begun \in Counting(insert, TRUE, trapped, codes)
        BY <1>7, FittingIsCounting
  <1> HIDE DEF codes
  <1>10. zero \in Counting(insert, TRUE, trapped, codes)
    <2>1. PICK one : one = <<0>>
          OBVIOUS
    <2>2. one \in Seq(R) /\ Len(one) <= kRegBitSize
      <3>1. 0 \in R
            BY DEF R
      <3>2. QED
            BY <2>1, <3>1, RegFacts
    <2>3. AppendBits(begun, one) \in Counting(insert, TRUE, trapped, codes)
          BY <1>9, <2>2, AppendBitsFacts
    <2>4. QED
          BY <2>1, <2>3, Zenon
  <1> HIDE DEF zero
  <1>11. \A c \in Counting(insert, TRUE, trapped, codes), n \in {2, 5}, val \in Int :
           AppendBits(c, Bits(n, val)) \in Counting(insert, TRUE, trapped, codes)
    <2> TAKE c \in Counting(insert, TRUE, trapped, codes), n \in {2, 5}, val \in Int
    <2>1. PICK bits : bits = Bits(n, val)
          OBVIOUS
    <2>2. bits \in Seq(R) /\ Len(bits) = n
          BY <2>1, BitsFacts
    <2>3. Len(bits) <= kRegBitSize
          BY <2>2, RegFacts
    <2>4. AppendBits(c, bits) \in Counting(insert, TRUE, trapped, codes)
          BY <2>2, <2>3, AppendBitsFacts
    <2>5. QED
          BY <2>1, <2>4, Zenon
  <1>12. idc \in Counting(insert, TRUE, trapped, codes)
         BY <1>10, <1>11
  <1> HIDE DEF idc
  <1>13. nalu \in Counting(insert, TRUE, trapped, codes)
         BY <1>1, <1>11, <1>12
  <1>14. nalu \in Fitting(insert, TRUE, trapped)
         BY <1>13 DEF Counting
  <1>15. QED
         BY <1>8, <1>13, <1>14, Zenon DEF nalu

\* The stop bit is the last in the register.
LEMMA StopBitFacts ==
  ASSUME NEW insert, NEW in_nalu, NEW trapped \in BOOLEAN, NEW codes,
         NEW b \in Counting(insert, in_nalu, trapped, codes)
  PROVE  /\ AppendBits(b, <<1>>) \in Counting(insert, in_nalu, trapped, codes)
         /\ EndsWith(AppendBits(b, <<1>>).reg, 1)
  <1> DEFINE c == Flushed(b)
             room == kRegBitSize - Len(c.reg)
  <1>1. PICK one : one = <<1>>
        OBVIOUS
  <1>2. one \in Seq(R) /\ Len(one) = 1 /\ one[1] = 1 /\ one # <<>>
    <2>1. 1 \in R
          BY DEF R
    <2>2. QED
          BY <1>1, <2>1
  <1> DEFINE stopped == AppendBits(b, one)
  <1>3. stopped \in Counting(insert, in_nalu, trapped, codes)
    <2>1. Len(one) <= kRegBitSize
          BY <1>2, RegFacts
    <2>2. QED
          BY <1>2, <2>1, AppendBitsFacts
  <1>4. c \in Counting(insert, in_nalu, trapped, codes) /\ Len(c.reg) < kRegBitSize
        BY FlushedFacts
  <1>5. c.reg \in Seq(R) /\ Len(c.reg) \in Nat /\ room \in Nat /\ room >= 1
    <2>1. c.reg \in Seq(R)
          BY <1>4 DEF Counting, Fitting, Builders
    <2>2. Len(c.reg) \in Nat
          BY <2>1
    <2>3. QED
          BY <1>4, <2>1, <2>2, RegFacts
  <1>6. stopped = [c EXCEPT !.reg = @ \o SubSeq(one, 1, IF Len(one) < room THEN Len(one) ELSE room)]
    <2>1. ~(Len(one) > kRegBitSize) /\ Len(one) <= room
          BY <1>2, <1>5, RegFacts
    <2>2. QED
          BY <1>2, <2>1 DEF AppendBits
  <1> HIDE DEF c, stopped
  <1>7. stopped.reg = c.reg \o one
    <2>1. (IF Len(one) < room THEN Len(one) ELSE room) = 1
          BY <1>2, <1>5
    <2>2. SubSeq(one, 1, 1) = one
          BY <1>2
    <2>3. stopped = [c EXCEPT !.reg = @ \o one]
          BY <1>6, <2>1, <2>2, Zenon
    <2>4. QED
          BY <1>4, <2>3 DEF Counting, Fitting, Builders
  <1>8. EndsWith(stopped.reg, 1)
    <2>1. PICK n \in Nat : n = Len(c.reg)
          BY <1>5
    <2>2. Len(stopped.reg) = n + 1 /\ stopped.reg[n + 1] = one[1]
      <3>1. /\ Len(stopped.reg) = Len(c.reg) + Len(one)
            /\ \A i \in 1..Len(one) : stopped.reg[Len(c.reg) + i] = one[i]
            BY <1>2, <1>5, <1>7, ConcatParts
      <3>2. 1 \in 1..1
            OBVIOUS
      <3>3. QED
            BY <1>2, <2>1, <3>1, <3>2, Zenon
    <2>3. stopped.reg # <<>>
      <3>1. Len(<<>>) = 0 /\ n + 1 # 0
            BY EmptySeq
      <3>2. QED
            BY <2>2, <3>1, Zenon
    <2>4. QED
          BY <1>2, <2>2, <2>3, Zenon DEF EndsWith
  <1>9. QED
        BY <1>1, <1>3, <1>8, Zenon DEF stopped

Padded(b, c) == c.reg = b.reg \o Zeros(Padding(b))

\* The padding after the stop bit fills the last byte of the register.
LEMMA PaddingFacts ==
  ASSUME NEW insert, NEW in_nalu, NEW trapped \in BOOLEAN, NEW codes,
         NEW b \in Counting(insert, in_nalu, trapped, codes)
  PROVE  /\ AppendBits(b, Zeros(Padding(b))) \in Counting(insert, in_nalu, trapped, codes)
         /\ Len(AppendBits(b, Zeros(Padding(b))).reg) % 8 = 0
         /\ Padding(b) \in 0..7
         /\ Padded(b, AppendBits(b, Zeros(Padding(b))))
  <1> DEFINE p == Padding(b)
             zeros == Zeros(p)
             padded == AppendBits(b, zeros)
             room == kRegBitSize - Len(b.reg)
  <1>1. b.reg \in Seq(R) /\ Len(b.reg) \in Nat /\ Len(b.reg) <= kRegBitSize
        BY DEF Counting, Fitting, Builders
  <1>2. room \in Nat /\ Len(b.reg) + room = kRegBitSize
        BY <1>1, RegFacts
  <1>3. p = room % 8
        BY DEF Padding
  <1> HIDE DEF p, room
  <1>4. p \in Nat /\ p < 8 /\ p <= room
        BY <1>2, <1>3
  <1>5. (Len(b.reg) + p) % 8 = 0
    <2>1. room = 8 * (room \div 8) + p
          BY <1>2, <1>3
    <2>2. PICK q \in Nat, k \in Nat : room = 8 * q + p /\ kRegBitSize = 8 * k
      <3>1. room \div 8 \in Nat
            BY <1>2
      <3>2. QED
            BY <2>1, <3>1, RegAssumption DEF kRegBitSize
    <2>3. PICK n \in Nat : n = Len(b.reg)
          BY <1>1
    <2>4. n + p = 8 * (k - q)
      <3>1. n + room = 8 * k
            BY <1>2, <2>2, <2>3, Zenon
      <3>2. \A r \in Nat : n + r = 8 * k /\ r = 8 * q + p => n + p = 8 * (k - q)
            BY <1>4
      <3>3. QED
            BY <1>2, <2>2, <3>1, <3>2
    <2>5. (n + p) % 8 = 0
          BY <1>4, <2>2, <2>4
    <2>6. QED
          BY <2>3, <2>5, Zenon
  <1>6. zeros \in Seq(R) /\ Len(zeros) = p /\ Len(zeros) <= kRegBitSize
    <2>1. zeros \in Seq(R) /\ Len(zeros) = p
          BY <1>4, ZerosFacts
    <2>2. QED
          BY <1>4, <2>1, RegFacts
  <1> HIDE DEF zeros
  <1>7. padded \in Counting(insert, in_nalu, trapped, codes)
        BY <1>6, AppendBitsFacts
  <1>8. padded.reg = b.reg \o zeros
    <2>1. CASE p = 0
      <3>1. zeros = <<>>
            BY <1>6, <2>1
      <3>2. padded = b
        <4>1. ~(Len(zeros) > kRegBitSize)
              BY <1>4, <1>6, RegFacts
        <4>2. QED
              BY <3>1, <4>1 DEF AppendBits
      <3>3. b.reg \o zeros = b.reg
            BY <1>1, <3>1, ConcatEmptySeq
      <3>4. QED
            BY <3>2, <3>3, Zenon
    <2>2. CASE p # 0
      <3>1. Len(b.reg) # kRegBitSize
            BY <1>1, <1>2, <1>4, <2>2
      <3>2. Flushed(b) = b
            BY <3>1 DEF Flushed
      <3>3. zeros # <<>>
            BY <1>6, <2>2
      <3>4. ~(Len(zeros) > kRegBitSize) /\ Len(zeros) <= kRegBitSize - Len(b.reg)
            BY <1>1, <1>2, <1>4, <1>6, RegFacts
      <3> DEFINE m == IF Len(zeros) < kRegBitSize - Len(b.reg) THEN Len(zeros)
                      ELSE kRegBitSize - Len(b.reg)
      <3>5. padded = [b EXCEPT !.reg = @ \o SubSeq(zeros, 1, m)]
            BY <3>2, <3>3, <3>4 DEF AppendBits
      <3>6. m = Len(zeros)
            BY <1>1, <1>6, <3>4, RegFacts
      <3> HIDE DEF m
      <3>7. SubSeq(zeros, 1, m) = zeros
            BY <1>6, <3>6
      <3>8. QED
            BY <3>5, <3>7 DEF Counting, Fitting, Builders
    <2>3. QED
          BY <2>1, <2>2
  <1> HIDE DEF padded
  <1>9. Len(padded.reg) % 8 = 0
    <2>1. Len(padded.reg) = Len(b.reg) + p
          BY <1>1, <1>6, <1>8, ConcatProperties
    <2>2. QED
          BY <1>5, <2>1, Zenon
  <1>10. p \in 0..7
         BY <1>4
  <1>11. QED
         BY <1>7, <1>8, <1>9, <1>10, Zenon DEF zeros, p, padded, Padded

\* With the padding, the stop bit is in the last byte.
LEMMA LastByteFacts ==
  ASSUME NEW reg \in Seq(R), EndsWith(reg, 1), NEW zeros \in Seq(R), Len(zeros) \in 0..7,
         Len(reg \o zeros) % 8 = 0
  PROVE  reg \o zeros # <<>> /\ ByteAt(reg \o zeros, Len(reg \o zeros) \div 8) # 0
  <1>1. PICK m, p \in Nat : m = Len(reg) /\ p = Len(zeros) /\ p < 8
    <2>1. Len(reg) \in Nat /\ Len(zeros) \in Nat
          BY LenProperties
    <2>2. Len(zeros) < 8
      <3>1. \A n \in 0..7 : n < 8
            OBVIOUS
      <3>2. QED
            BY <3>1, Zenon
    <2>3. QED
          BY <2>1, <2>2, Zenon
  <1>2. PICK full : full = reg \o zeros
        OBVIOUS
  <1>3. full \in Seq(R) /\ Len(full) = m + p /\ \A i \in 1..m : full[i] = reg[i]
    <2>1. full \in Seq(R) /\ Len(full) = Len(reg) + Len(zeros) /\ \A i \in 1..Len(reg) : full[i] = reg[i]
          BY <1>2, ConcatParts
    <2>2. QED
          BY <1>1, <2>1, Zenon
  <1>4. m >= 1 /\ reg[m] = 1
    <2>1. Len(reg) # 0
          BY DEF EndsWith
    <2>2. QED
          BY <1>1, <2>1 DEF EndsWith
  <1>5. full[m] = 1
    <2>1. m \in 1..m
          BY <1>4
    <2>2. QED
          BY <1>3, <1>4, <2>1, Zenon
  <1>6. PICK k \in Nat : m + p = 8 * k /\ (m + p) \div 8 = k
    <2>1. (m + p) % 8 = 0
          BY <1>2, <1>3, Zenon
    <2>2. m + p = 8 * ((m + p) \div 8) /\ (m + p) \div 8 \in Nat
          BY <2>1
    <2>3. QED
          BY <2>2
  <1>7. k >= 1 /\ m \in (8 * k - 7)..(8 * k) /\ 8 * k <= Len(full)
        BY <1>1, <1>3, <1>4, <1>6
  <1>8. ByteAt(full, k) # 0
        BY <1>3, <1>5, <1>7, ByteAtFacts
  <1>9. full # <<>>
    <2>1. Len(full) # 0
          BY <1>3, <1>4
    <2>2. QED
          BY <2>1, EmptySeq
  <1>10. QED
         BY <1>2, <1>3, <1>6, <1>8, <1>9, Zenon

\* A NALU ends with an empty register, and in a byte that is not zero.
LEMMA FinishNALUFacts ==
  ASSUME NEW insert \in BOOLEAN, NEW in_nalu \in BOOLEAN, NEW trapped \in BOOLEAN, NEW codes,
         NEW b \in Counting(insert, in_nalu, trapped, codes)
  PROVE  /\ FinishNALU(b) \in Fitting(insert, FALSE, trapped) /\ FinishNALU(b).reg = <<>>
         /\ insert /\ in_nalu => Codes(FinishNALU(b).data) = codes /\ EndsWell(FinishNALU(b).data)
  <1> DEFINE stopped == AppendBits(b, <<1>>)
             zeros == Zeros(Padding(stopped))
             padded == AppendBits(stopped, zeros)
             flushed == FlushReg(padded)
             finished == FinishNALU(b)
  <1>1. stopped \in Counting(insert, in_nalu, trapped, codes) /\ EndsWith(stopped.reg, 1)
        BY StopBitFacts
  <1>2. finished = [flushed EXCEPT !.in_nalu = FALSE]
        BY DEF FinishNALU
  <1> HIDE DEF stopped, finished
  <1>3. /\ padded \in Counting(insert, in_nalu, trapped, codes) /\ Len(padded.reg) % 8 = 0
        /\ Padding(stopped) \in 0..7 /\ padded.reg = stopped.reg \o zeros
    <2>1. stopped \in Counting(insert, in_nalu, trapped, codes)
          BY <1>1
    <2>2. /\ padded \in Counting(insert, in_nalu, trapped, codes) /\ Len(padded.reg) % 8 = 0
          /\ Padding(stopped) \in 0..7 /\ Padded(stopped, padded)
          BY <2>1, PaddingFacts
    <2>3. QED
          BY <2>2 DEF Padded
  <1> HIDE DEF padded
  <1>4. padded.reg # <<>> /\ ByteAt(padded.reg, Len(padded.reg) \div 8) # 0
    <2>1. stopped.reg \in Seq(R)
          BY <1>1 DEF Counting, Fitting, Builders
    <2>2. zeros \in Seq(R) /\ Len(zeros) \in 0..7
      <3>1. Padding(stopped) \in Nat
            BY <1>3
      <3>2. zeros \in Seq(R) /\ Len(zeros) = Padding(stopped)
            BY <3>1, ZerosFacts
      <3>3. QED
            BY <1>3, <3>2
    <2> HIDE DEF zeros
    <2>3. QED
          BY <1>1, <1>3, <2>1, <2>2, LastByteFacts
  <1>5. /\ flushed \in Counting(insert, in_nalu, trapped, codes) /\ flushed.reg = <<>>
        /\ insert /\ in_nalu => EndsWith(flushed.data, ByteAt(padded.reg, Len(padded.reg) \div 8))
        BY <1>3, <1>4, FlushRegResult
  <1> HIDE DEF flushed
  <1>6. /\ finished \in Fitting(insert, FALSE, trapped)
        /\ finished.reg = flushed.reg /\ finished.data = flushed.data
        BY <1>2, <1>5 DEF Counting, Fitting, Builders
  <1>7. insert /\ in_nalu => Codes(flushed.data) = codes
        BY <1>5 DEF Counting
  <1>8. insert /\ in_nalu => EndsWell(flushed.data)
        BY <1>4, <1>5, Zenon DEF EndsWith, EndsWell
  <1>9. QED
        BY <1>5, <1>6, <1>7, <1>8, Zenon DEF finished

--------------------------------------------------------------------------------
(* What is written.                                                          *)

LEMMA ElementFacts ==
  /\ \A n \in 0..32, v \in Int : u(n, v) \in SyntaxElements
  /\ \A v \in 0..kMaxValue : ue(v) \in SyntaxElements
  /\ \A v \in -128..127 : se(v) \in SyntaxElements
  <1>1. ASSUME NEW n \in 0..32, NEW v \in Int PROVE u(n, v) \in SyntaxElements
    <2>1. n \in 0..kRegBitSize
          BY RegFacts
    <2>2. QED
          BY <2>1 DEF u, SyntaxElements
  <1>2. ASSUME NEW v \in 0..kMaxValue PROVE ue(v) \in SyntaxElements
        BY DEF ue, SyntaxElements
  <1>3. ASSUME NEW v \in -128..127 PROVE se(v) \in SyntaxElements
    <2>1. v \in -(kMaxValue \div 2)..(kMaxValue \div 2)
          BY SignedFacts
    <2>2. QED
          BY <2>1 DEF se, SyntaxElements
  <1>4. QED
        BY <1>1, <1>2, <1>3

LEMMA IfFacts ==
  ASSUME NEW condition \in BOOLEAN, NEW list \in Seq(SyntaxElements)
  PROVE  If(condition, list) \in Seq(SyntaxElements)
  BY DEF If

LEMMA FlagsFacts ==
  ASSUME NEW n \in Nat
  PROVE  Flags(n) \in Seq(SyntaxElements)
  <1>1. u(1, 0) \in SyntaxElements
        BY ElementFacts
  <1>2. QED
        BY <1>1 DEF Flags

\* The values of a picture are those its fields may have.
LEMMA PictureFacts ==
  ASSUME NEW p \in Pictures
  PROVE  /\ \A f \in SignedFields : se(p[f]) \in SyntaxElements
         /\ \A f \in UnsignedFields : ue(p[f]) \in SyntaxElements
         /\ \A f \in UnsignedFields, n \in 0..32 : u(n, p[f]) \in SyntaxElements
  <1>1. 0..kMaxValue \subseteq Int
        BY MaxValueFacts
  <1>2. QED
        BY <1>1, PicturesAssumption, ElementFacts

LEMMA SPSFacts ==
  ASSUME NEW idc \in Int, NEW p \in Pictures
  PROVE  SPS(idc, p) \in Seq(SyntaxElements)
  <1> DEFINE E == SyntaxElements
             H == If(idc = H264ProfileIDC.kProfileIDCHigh, HighFields(p))
  <1>1. \A v \in Int : u(8, v) \in E /\ u(1, v) \in E /\ u(2, v) \in E
        BY ElementFacts
  <1>2. ue(0) \in E
        BY ElementFacts, MaxValueFacts
  <1>3. /\ ue(p.chroma_format_idc) \in E
        /\ ue(p.bit_depth_chroma_minus8) \in E /\ ue(p.bit_depth_luma_minus8) \in E
        /\ ue(p.log2_max_frame_num_minus4) \in E /\ ue(p.pic_order_cnt_type) \in E
        /\ ue(p.log2_max_pic_order_cnt_lsb_minus4) \in E /\ ue(p.num_ref_frames) \in E
        /\ ue(p.picture_width_in_mbs_minus1) \in E /\ ue(p.picture_height_in_mbs_minus1) \in E
        BY PictureFacts DEF UnsignedFields
  <1>4. /\ u(1, p.gaps_in_frame_num_value_allowed_flag) \in E
        /\ u(1, p.frame_mbs_only_flag) \in E /\ u(1, p.mb_adaptive_frame_field_flag) \in E
        /\ u(1, p.direct_8x8_inference_flag) \in E
    <2>1. 1 \in 0..32
          OBVIOUS
    <2>2. QED
          BY <2>1, PictureFacts DEF UnsignedFields
  <1>5. HighFields(p) \in Seq(E)
    <2>1. /\ <<ue(p.chroma_format_idc)>> \in Seq(E)
          /\ <<ue(p.bit_depth_chroma_minus8), ue(p.bit_depth_luma_minus8)>> \in Seq(E)
          BY <1>3
    <2>2. /\ Flags(1) \in Seq(E) /\ Flags(2) \in Seq(E)
          /\ If(p.chroma_format_idc = 3, Flags(1)) \in Seq(E)
          BY FlagsFacts, IfFacts
    <2>3. QED
          BY <2>1, <2>2 DEF HighFields
  <1>6. H \in Seq(E)
        BY <1>5, IfFacts
  <1>7. FrameFields(p) \in Seq(E)
    <2>1. /\ <<u(1, p.frame_mbs_only_flag)>> \in Seq(E)
          /\ <<u(1, p.mb_adaptive_frame_field_flag)>> \in Seq(E)
          BY <1>4
    <2>2. If(p.frame_mbs_only_flag = 0, <<u(1, p.mb_adaptive_frame_field_flag)>>) \in Seq(E)
          BY <2>1, IfFacts
    <2>3. QED
          BY <2>1, <2>2 DEF FrameFields
  <1>8. VUI \in Seq(E)
    <2>1. <<u(1, 1), u(1, 1), u(8, 1)>> \in Seq(E)
          BY <1>1
    <2>2. Flags(8) \in Seq(E)
          BY FlagsFacts
    <2>3. QED
          BY <2>1, <2>2 DEF VUI
  <1>9. PICK s1, s2, s3, s4, s5, s6 :
          /\ s1 = <<u(8, idc)>> /\ s2 = <<u(2, 0), u(8, kLevelIDC5p1), ue(0)>>
          /\ s3 = <<ue(p.log2_max_frame_num_minus4), ue(p.pic_order_cnt_type)>>
          /\ s4 = If(p.pic_order_cnt_type = 0, <<ue(p.log2_max_pic_order_cnt_lsb_minus4)>>)
          /\ s5 = <<ue(p.num_ref_frames), u(1, p.gaps_in_frame_num_value_allowed_flag),
                    ue(p.picture_width_in_mbs_minus1), ue(p.picture_height_in_mbs_minus1)>>
          /\ s6 = <<u(1, p.direct_8x8_inference_flag)>>
        OBVIOUS
  <1>10. s1 \in Seq(E) /\ s2 \in Seq(E) /\ s3 \in Seq(E)
         BY <1>1, <1>2, <1>3, <1>9 DEF kLevelIDC5p1
  <1>11. s4 \in Seq(E) /\ s5 \in Seq(E) /\ s6 \in Seq(E)
    <2>1. <<ue(p.log2_max_pic_order_cnt_lsb_minus4)>> \in Seq(E)
          BY <1>3
    <2>2. s4 \in Seq(E)
          BY <1>9, <2>1, IfFacts
    <2>3. QED
          BY <1>3, <1>4, <1>9, <2>2
  <1>12. Flags(6) \in Seq(E) /\ Flags(1) \in Seq(E)
         BY FlagsFacts
  <1>13. SPS(idc, p) = s1 \o Flags(6) \o s2 \o H \o s3 \o s4 \o s5 \o FrameFields(p)
                          \o s6 \o Flags(1) \o VUI
         BY <1>9 DEF SPS
  <1> HIDE DEF E, H
  <1>14. \A s, t \in Seq(E) : s \o t \in Seq(E)
         OBVIOUS
  <1>15. PICK t1 : t1 = s1 \o Flags(6) \o s2 \o H \o s3 \o s4
         OBVIOUS
  <1>16. t1 \in Seq(E)
         BY <1>6, <1>10, <1>11, <1>12, <1>14, <1>15, Zenon
  <1>17. SPS(idc, p) = t1 \o s5 \o FrameFields(p) \o s6 \o Flags(1) \o VUI
         BY <1>13, <1>15, Zenon
  <1>18. FrameFields(p) \in Seq(E) /\ VUI \in Seq(E) /\ Flags(1) \in Seq(E)
         BY <1>7, <1>8, <1>12, Zenon DEF E
  <1>19. t1 \o s5 \o FrameFields(p) \in Seq(E)
         BY <1>11, <1>14, <1>16, <1>18, Zenon
  <1>20. t1 \o s5 \o FrameFields(p) \o s6 \o Flags(1) \in Seq(E)
         BY <1>11, <1>14, <1>18, <1>19, Zenon
  <1>21. SPS(idc, p) \in Seq(E)
         BY <1>14, <1>17, <1>18, <1>20, Zenon
  <1>22. QED
         BY <1>21, Zenon DEF E

LEMMA PPSFacts ==
  ASSUME NEW p \in Pictures
  PROVE  PPS(p) \in Seq(SyntaxElements)
  <1>1. ue(0) \in SyntaxElements /\ ue(4) \in SyntaxElements
        BY ElementFacts, MaxValueFacts
  <1>2. /\ se(p.pic_init_qp_minus26) \in SyntaxElements
        /\ se(p.pic_init_qs_minus26) \in SyntaxElements
        /\ se(p.chroma_qp_index_offset) \in SyntaxElements
        BY PictureFacts DEF SignedFields
  <1>3. /\ u(1, p.entropy_coding_mode_flag) \in SyntaxElements
        /\ u(1, p.pic_order_present_flag) \in SyntaxElements
        /\ u(1, p.weighted_pred_flag) \in SyntaxElements
        /\ u(2, p.weighted_bipred_idc) \in SyntaxElements
        /\ u(1, p.deblocking_filter_control_present_flag) \in SyntaxElements
        /\ u(1, p.constrained_intra_pred_flag) \in SyntaxElements
        /\ u(1, p.redundant_pic_cnt_present_flag) \in SyntaxElements
    <2>1. 1 \in 0..32 /\ 2 \in 0..32
          OBVIOUS
    <2>2. QED
          BY <2>1, PictureFacts DEF UnsignedFields
  <1>4. QED
        BY <1>1, <1>2, <1>3 DEF PPS

LEMMA SliceFacts ==
  ASSUME NEW slice \in Slices
  PROVE  StartCode \o [i \in DOMAIN slice |-> u(8, slice[i])] \in Seq(SyntaxElements)
  <1>1. slice \in Seq(0..255)
        BY SlicesAssumption
  <1>2. u(24, 0) \in SyntaxElements /\ u(8, 1) \in SyntaxElements
        BY ElementFacts
  <1>3. StartCode \in Seq(SyntaxElements)
        BY <1>2 DEF StartCode
  <1>4. [i \in DOMAIN slice |-> u(8, slice[i])] \in Seq(SyntaxElements)
    <2>1. ASSUME NEW i \in 1..Len(slice) PROVE u(8, slice[i]) \in SyntaxElements
      <3>1. \A B : slice \in Seq(B) => slice[i] \in B
            OBVIOUS
      <3>2. 8 \in 0..32
            OBVIOUS
      <3>3. PICK B \in SUBSET Int : B = 0..255
        <4>1. \A n \in Nat : 0..n \subseteq Int
              OBVIOUS
        <4>2. 255 \in Nat
              OBVIOUS
        <4>3. 0..255 \subseteq Int
              BY <4>1, <4>2, Zenon
        <4>4. QED
              BY <4>3, Zenon
      <3>4. slice[i] \in B
            BY <1>1, <3>1, <3>3, Zenon
      <3>5. slice[i] \in Int
            BY <3>3, <3>4, Zenon
      <3>6. QED
            BY <3>2, <3>5, ElementFacts, Zenon
    <2>2. QED
          BY <1>1, <2>1
  <1>5. QED
        BY <1>3, <1>4

\* Outside a NALU, an element of whole bytes is appended as those bytes.
LEMMA AlignedElement ==
  ASSUME NEW insert, NEW c \in Aligned(insert, FALSE, FALSE),
         NEW n \in {8, 24}, NEW val \in Int
  PROVE  /\ AppendElement(c, u(n, val)) \in Aligned(insert, FALSE, FALSE)
         /\ Added(c, BytesOf(Bits(n, val)), AppendElement(c, u(n, val)))
  <1>1. c \in Fitting(insert, FALSE, FALSE)
        BY DEF Aligned
  <1>2. c.trapped = FALSE
        BY <1>1 DEF Fitting, Builders
  <1>3. AppendElement(c, u(n, val)) = AppendBits(c, Bits(n, val))
        BY <1>2 DEF AppendElement, u
  <1>4. PICK bits : bits = Bits(n, val)
        OBVIOUS
  <1>5. bits \in Seq(R) /\ Len(bits) = n
        BY <1>4, BitsFacts
  <1>6. Len(bits) <= kRegBitSize /\ Len(bits) % 8 = 0 /\ ~(insert /\ FALSE)
        BY <1>5, RegFacts
  <1>7. /\ AppendBits(c, bits) \in Aligned(insert, FALSE, FALSE)
        /\ Added(c, BytesOf(bits), AppendBits(c, bits))
        BY <1>5, <1>6, AlignedAppend
  <1>8. QED
        BY <1>3, <1>4, <1>7, Zenon

LEMMA StreamFacts ==
  ASSUME NEW insert, NEW in_nalu, NEW trapped, NEW b \in Aligned(insert, in_nalu, trapped)
  PROVE  Stream(b) \in Seq(D)
  <1>1. b \in Fitting(insert, in_nalu, trapped)
        BY DEF Aligned
  <1>2. b.data \in Seq(D) /\ BytesOf(b.reg) \in Seq(D)
        BY <1>1, FittingIsCounting, BytesOfFacts
  <1>3. QED
        BY <1>2, ConcatProperties DEF Stream

\* So are a slice and its start code.
LEMMA SliceAppended ==
  ASSUME NEW insert, NEW b \in Aligned(insert, FALSE, FALSE), NEW slice \in Slices
  PROVE  LET written == StartCode \o [i \in DOMAIN slice |-> u(8, slice[i])]
             c == FoldLeft(AppendElement, b, written)
         IN c \in Aligned(insert, FALSE, FALSE) /\ Added(b, <<0, 0, 0, 1>> \o slice, c)
  <1> DEFINE N == Len(slice)
             payload == [i \in DOMAIN slice |-> u(8, slice[i])]
             written == StartCode \o payload
             c == FoldLeft(AppendElement, b, written)
             builders == Counting(insert, FALSE, FALSE, Codes(b.data))
             A == Aligned(insert, FALSE, FALSE)
             four == <<0, 0, 0, 1>>
             head == Stream(b) \o four
  <1>1. slice \in Seq(D) /\ N \in Nat /\ DOMAIN slice = 1..N
    <2>1. slice \in Seq(D)
          BY SlicesAssumption DEF D
    <2>2. QED
          BY <2>1
  <1>2. written \in Seq(SyntaxElements)
        BY SliceFacts
  <1>3. /\ Len(written) = N + 2 /\ written[1] = u(24, 0) /\ written[2] = u(8, 1)
        /\ \A i \in 1..N : written[i + 2] = u(8, slice[i])
    <2>1. PICK first, second : first = u(24, 0) /\ second = u(8, 1)
          OBVIOUS
    <2>2. StartCode = <<first, second>>
          BY <2>1, Zenon DEF StartCode
    <2>3. payload = [i \in 1..N |-> u(8, slice[i])]
          BY <1>1
    <2> HIDE DEF payload, N
    <2>4. /\ written = <<first, second>> \o payload /\ Len(payload) = N
          /\ \A i \in 1..N : payload[i] = u(8, slice[i])
          BY <1>1, <2>2, <2>3
    <2>5. PICK T : T = {first, second} \cup {payload[i] : i \in 1..N}
          OBVIOUS
    <2>6. payload \in Seq(T)
      <3>1. payload \in [1..N -> T]
            BY <2>3, <2>5
      <3>2. QED
            BY <1>1, <3>1
    <2>7. PICK two \in Seq(T) : two = <<first, second>> /\ Len(two) = 2 /\ two[1] = first /\ two[2] = second
      <3>1. PICK two : two = <<first, second>>
            OBVIOUS
      <3>2. first \in T /\ second \in T
            BY <2>5
      <3>3. two \in Seq(T) /\ Len(two) = 2 /\ two[1] = first /\ two[2] = second
            BY <3>1, <3>2
      <3>4. QED
            BY <3>1, <3>3, Zenon
    <2> HIDE DEF written
    <2>8. /\ Len(written) = 2 + N /\ (\A i \in 1..2 : written[i] = two[i])
          /\ \A i \in 1..N : written[2 + i] = payload[i]
      <3>1. /\ Len(two \o payload) = Len(two) + Len(payload)
            /\ \A i \in 1..Len(two) : (two \o payload)[i] = two[i]
            /\ \A i \in 1..Len(payload) : (two \o payload)[Len(two) + i] = payload[i]
            BY <2>6, ConcatParts
      <3>2. QED
            BY <2>4, <2>7, <3>1, Zenon
    <2>9. written[1] = first /\ written[2] = second
          BY <2>7, <2>8
    <2>10. \A i \in 1..N : written[i + 2] = u(8, slice[i])
      <3>1. \A i \in 1..N : i + 2 = 2 + i
            BY <1>1
      <3>2. QED
            BY <2>4, <2>8, <3>1, Zenon
    <2>11. Len(written) = N + 2
           BY <1>1, <2>8
    <2>12. QED
           BY <2>1, <2>9, <2>10, <2>11, Zenon
  <1> HIDE DEF N, written
  <1>4. PICK f : Appended(f, builders, b, written)
    <2>1. b \in Fitting(insert, FALSE, FALSE)
          BY DEF Aligned
    <2>2. b \in builders
          BY <2>1, FittingIsCounting
    <2> HIDE DEF builders
    <2>3. QED
          BY <1>2, <2>2, AppendElementRecursion DEF builders
  <1>5. /\ f[0] = b /\ f[N + 2] = c
        /\ \A n \in 1..(N + 2) : f[n] = AppendElement(f[n - 1], written[n])
        BY <1>3, <1>4, Zenon DEF Appended
  <1> HIDE DEF c
  <1>6. Stream(b) \in Seq(D) /\ four \in Seq(D) /\ head \in Seq(D)
    <2>1. Stream(b) \in Seq(D)
          BY StreamFacts
    <2>2. four \in Seq(D)
          BY FourBytes
    <2>3. QED
          BY <2>1, <2>2, ConcatProperties
  <1>7. f[2] \in A /\ Stream(f[2]) = head
    <2>1. f[1] = AppendElement(b, u(24, 0)) /\ f[2] = AppendElement(f[1], u(8, 1))
      <3>1. 1 \in 1..(N + 2) /\ 2 \in 1..(N + 2) /\ 1 - 1 = 0 /\ 2 - 1 = 1
            BY <1>1
      <3>2. f[1] = AppendElement(f[1 - 1], written[1]) /\ f[2] = AppendElement(f[2 - 1], written[2])
            BY <1>5, <3>1, Zenon
      <3>3. QED
            BY <1>3, <1>5, <3>1, <3>2, Zenon
    <2>2. 24 \in {8, 24} /\ 8 \in {8, 24} /\ 0 \in Int /\ 1 \in Int /\ 1 \in D
          BY DEF D
    <2>3. f[1] \in A /\ Added(b, BytesOf(Bits(24, 0)), f[1])
          BY <2>1, <2>2, AlignedElement
    <2>4. f[2] \in A /\ Added(f[1], BytesOf(Bits(8, 1)), f[2])
          BY <2>1, <2>2, <2>3, AlignedElement
    <2>5. PICK zeros, one : zeros = <<0, 0, 0>> /\ one = <<1>>
          OBVIOUS
    <2>6. zeros \in Seq(D) /\ one \in Seq(D) /\ zeros \o one = four
      <3>1. 0 \in D /\ 1 \in D
            BY DEF D
      <3>2. zeros \in Seq(D) /\ one \in Seq(D)
            BY <2>5, <3>1
      <3>3. zeros \o one = four
        <4>1. Len(zeros) = 3 /\ zeros[1] = 0 /\ zeros[2] = 0 /\ zeros[3] = 0
              BY <2>5
        <4>2. Len(one) = 1 /\ one[1] = 1
              BY <2>5
        <4>3. PICK both : both = zeros \o one
              OBVIOUS
        <4>4. /\ both \in Seq(D) /\ Len(both) = Len(zeros) + Len(one)
              /\ \A i \in 1..Len(zeros) : both[i] = zeros[i]
              /\ \A i \in 1..Len(one) : both[Len(zeros) + i] = one[i]
              BY <3>2, <4>3, ConcatParts
        <4>5. Len(both) = 4 /\ both[1] = 0 /\ both[2] = 0 /\ both[3] = 0 /\ both[4] = 1
          <5>1. Len(both) = 4 /\ both[1] = 0 /\ both[2] = 0 /\ both[3] = 0
                BY <4>1, <4>2, <4>4
          <5>2. both[3 + 1] = 1
                BY <4>1, <4>2, <4>4
          <5>3. QED
                BY <5>1, <5>2
        <4>6. PICK last : last = four
              OBVIOUS
        <4>7. last \in Seq(D) /\ Len(last) = 4 /\ last[1] = 0 /\ last[2] = 0 /\ last[3] = 0 /\ last[4] = 1
              BY <3>1, <4>6
        <4>8. \A i \in 1..4 : both[i] = last[i]
          <5>1. \A i \in 1..4 : i = 1 \/ i = 2 \/ i = 3 \/ i = 4
                OBVIOUS
          <5>2. QED
                BY <4>5, <4>7, <5>1, Zenon
        <4>9. both = last
              BY <4>4, <4>5, <4>7, <4>8, SeqEqual
        <4>10. QED
               BY <4>3, <4>6, <4>9, Zenon
      <3>4. QED
            BY <3>2, <3>3
    <2>7. Stream(f[1]) = Stream(b) \o zeros /\ Stream(f[2]) = Stream(f[1]) \o one
          BY <2>2, <2>3, <2>4, <2>5, ZeroBits, ByteBits, Zenon DEF Added
    <2>8. Stream(b) \o (zeros \o one) = (Stream(b) \o zeros) \o one
          BY <1>6, <2>6, Regrouped, Zenon
    <2>9. QED
          BY <2>4, <2>6, <2>7, <2>8, Zenon
  <1> DEFINE Written(k) == f[k + 2] \in A /\ Stream(f[k + 2]) = head \o SubSeq(slice, 1, k)
             T == {k \in Nat : k <= N => Written(k)}
  <1>8. 0 \in T
    <2>1. SubSeq(slice, 1, 0) = <<>> /\ 0 + 2 = 2
          BY SubSeqEmpty
    <2>2. head \o <<>> = head
          BY <1>6, NoBytes, Zenon
    <2>3. Stream(f[0 + 2]) = head \o SubSeq(slice, 1, 0) /\ f[0 + 2] \in A
          BY <1>7, <2>1, <2>2
    <2>4. QED
          BY <2>3
  <1>9. ASSUME NEW k \in T PROVE k + 1 \in T
    <2> HIDE DEF Written
    <2> SUFFICES ASSUME k + 1 <= N PROVE Written(k + 1)
        BY <1>9
    <2>0. k \in Nat /\ k <= N /\ Written(k)
          BY <1>1, <1>9
    <2> USE DEF Written
    <2>1. f[k + 2] \in A /\ Stream(f[k + 2]) = head \o SubSeq(slice, 1, k)
          BY <2>0
    <2>2. PICK x \in D : x = slice[k + 1]
          BY <1>1, <2>0, ElementOfSeq DEF N
    <2>3. f[k + 1 + 2] = AppendElement(f[k + 2], u(8, x))
      <3>1. k + 1 \in 1..N /\ k + 1 + 2 \in 1..(N + 2) /\ (k + 1 + 2) - 1 = k + 2
            BY <1>1, <2>0
      <3>2. f[k + 1 + 2] = AppendElement(f[(k + 1 + 2) - 1], written[k + 1 + 2])
            BY <1>5, <3>1, Zenon
      <3>3. QED
            BY <1>3, <2>2, <3>1, <3>2, Zenon
    <2>4. f[k + 1 + 2] \in A /\ Added(f[k + 2], BytesOf(Bits(8, x)), f[k + 1 + 2])
      <3>1. 8 \in {8, 24} /\ x \in Int
            BY DEF D
      <3>2. QED
            BY <2>1, <2>3, <3>1, AlignedElement
    <2>5. PICK one : one = <<x>>
          OBVIOUS
    <2>6. one \in Seq(D) /\ SubSeq(slice, 1, k) \in Seq(D)
          BY <1>1, <2>5
    <2>7. Stream(f[k + 1 + 2]) = (head \o SubSeq(slice, 1, k)) \o one
          BY <2>1, <2>4, <2>5, ByteBits, Zenon DEF Added
    <2>8. head \o (SubSeq(slice, 1, k) \o one) = (head \o SubSeq(slice, 1, k)) \o one
          BY <1>6, <2>6, Regrouped, Zenon
    <2>9. SubSeq(slice, 1, k + 1) = SubSeq(slice, 1, k) \o one
      <3>1. k + 1 \in 1..Len(slice) /\ 1 \in 1..Len(slice) /\ (k + 1) - 1 = k
            BY <1>1, <2>0 DEF N
      <3>2. SubSeq(slice, 1, k + 1) = SubSeq(slice, 1, (k + 1) - 1) \o <<slice[k + 1]>>
            BY <1>1, <3>1, SubSeqRecursiveSecond
      <3>3. QED
            BY <2>2, <2>5, <3>1, <3>2, Zenon
    <2>10. QED
           BY <2>4, <2>7, <2>8, <2>9, Zenon
  <1>10. N \in T
    <2>1. T \in SUBSET Nat
          OBVIOUS
    <2> HIDE DEF T
    <2>2. T = Nat
          BY <1>8, <1>9, <2>1, Induction
    <2>3. QED
          BY <1>1, <2>2
  <1>11. c \in A /\ Stream(c) = head \o slice
    <2>1. SubSeq(slice, 1, N) = slice
          BY <1>1, SubSeqFull DEF N
    <2>2. N <= N
          BY <1>1
    <2>3. QED
          BY <1>5, <1>10, <2>1, <2>2, Zenon
  <1>12. Stream(b) \o (four \o slice) = head \o slice
         BY <1>1, <1>6, Regrouped, Zenon
  <1>13. QED
         BY <1>11, <1>12, Zenon DEF c, written, Added

--------------------------------------------------------------------------------
(* The stream.                                                               *)

\* What BuildPackedH264SPS dies of.
NoTypeOne == \A p \in Pictures : p.pic_order_cnt_type # 1

\* The builder fits; of Run, it is outside a NALU and inserts nothing, and its register is
\* empty where a parameter set begins and where the stream is read.
BuilderInv ==
  /\ \E insert, in_nalu, trapped \in BOOLEAN :
       /\ builder \in Fitting(insert, in_nalu, trapped)
       /\ pc # "client" => ~in_nalu /\ ~insert
       /\ NoTypeOne => ~trapped
  /\ pc \in {"SPS", "PPS", "dump"} => builder.reg = <<>>

RunInv == pc # "client" => profile \in Profiles /\ pic \in Pictures /\ todo \in Seq(Slices)

StreamInv == BuilderInv /\ RunInv

LEMMA ConstructedFacts ==
  ASSUME NEW insert \in BOOLEAN
  PROVE  Constructed(insert) \in Fitting(insert, FALSE, FALSE) /\ Constructed(insert).reg = <<>>
  <1>1. PICK none : none = <<>>
        OBVIOUS
  <1>2. none \in Seq(R) /\ none \in Seq(D) /\ Len(none) = 0
        BY <1>1
  <1>3. Constructed(insert) =
          [insert_emulation_prevention_bytes |-> insert, in_nalu |-> FALSE,
           reg |-> none, data |-> none, size |-> kGrowBytes, trapped |-> FALSE]
    <2>1. Members =
            [insert_emulation_prevention_bytes |-> FALSE, in_nalu |-> FALSE,
             reg |-> none, data |-> none, size |-> 0, trapped |-> FALSE]
          BY <1>1, Zenon DEF Members
    <2>2. \A b : Reset(b) = [b EXCEPT !.in_nalu = FALSE, !.reg = none, !.data = none,
                                     !.size = kGrowBytes]
          BY <1>1, Zenon DEF Reset
    <2>3. QED
          BY <2>1, <2>2 DEF Constructed
  <1>4. QED
        BY <1>1, <1>2, <1>3, GrowAssumption, RegFacts DEF Fitting, Builders

LEMMA PackedFacts ==
  ASSUME NEW insert \in BOOLEAN, NEW trapped \in BOOLEAN,
         builder \in Fitting(insert, FALSE, trapped), builder.reg = <<>>,
         NEW nalu_type \in Int, NEW list \in Seq(SyntaxElements)
  PROVE  /\ Packed(nalu_type, list) \in Fitting(insert, FALSE, trapped)
         /\ Packed(nalu_type, list).reg = <<>>
  <1> DEFINE begun == BeginNALU(builder, nalu_type, 3)
             appended == FoldHalves(AppendElement, begun, list)
  <1>1. begun \in Fitting(insert, TRUE, trapped)
    <2>1. 3 \in Int
          OBVIOUS
    <2>2. QED
          BY <2>1, BeginNALUFacts
  <1>2. Packed(nalu_type, list) = FinishNALU(appended)
        BY DEF Packed
  <1> HIDE DEF begun
  <1> DEFINE codes == Codes(begun.data)
  <1>3. begun \in Counting(insert, TRUE, trapped, codes)
        BY <1>1, FittingIsCounting
  <1> HIDE DEF codes
  <1>4. appended \in Counting(insert, TRUE, trapped, codes)
        BY <1>3, AppendElementHalves
  <1> HIDE DEF appended
  <1>5. FinishNALU(appended) \in Fitting(insert, FALSE, trapped) /\ FinishNALU(appended).reg = <<>>
    <2>1. TRUE \in BOOLEAN
          OBVIOUS
    <2>2. QED
          BY <1>4, <2>1, FinishNALUFacts
  <1>6. QED
        BY <1>2, <1>5, Zenon

\* The step of an action follows from what it makes of the builder.
LEMMA BuilderStep ==
  ASSUME NEW insert \in BOOLEAN, NEW in_nalu \in BOOLEAN, NEW trapped \in BOOLEAN,
         builder' \in Fitting(insert, in_nalu, trapped), pc' # "client" => ~in_nalu /\ ~insert,
         NoTypeOne => ~trapped, pc' \in {"SPS", "PPS", "dump"} => builder'.reg = <<>>
  PROVE  BuilderInv'
  BY DEF BuilderInv, NoTypeOne

LEMMA InitEstablishesStreamInv == RunInit \/ ClientInit => StreamInv
  <1>1. ASSUME RunInit PROVE StreamInv
    <2>1. builder \in Fitting(FALSE, FALSE, FALSE) /\ builder.reg = <<>>
          BY <1>1, ConstructedFacts DEF RunInit
    <2>2. BuilderInv
          BY <2>1 DEF BuilderInv
    <2>3. todo \in Seq(Slices)
      <3>1. PICK n \in 1..MaxUnits : todo \in [1..n -> Slices]
            BY <1>1 DEF RunInit
      <3>2. QED
            BY <3>1
    <2>4. RunInv
          BY <1>1, <2>3 DEF RunInit, RunInv
    <2>5. QED
          BY <2>2, <2>4 DEF StreamInv
  <1>2. ASSUME ClientInit PROVE StreamInv
    <2>1. PICK insert \in BOOLEAN : builder = Constructed(insert)
          BY <1>2 DEF ClientInit, Init
    <2>2. builder \in Fitting(insert, FALSE, FALSE) /\ pc = "client"
          BY <1>2, <2>1, ConstructedFacts DEF ClientInit
    <2>3. QED
          BY <2>2 DEF StreamInv, BuilderInv, RunInv
  <1>3. QED
        BY <1>1, <1>2

\* The builder of Run is outside any NALU.
LEMMA RunBuilder ==
  ASSUME StreamInv, pc # "client"
  PROVE  \E trapped \in BOOLEAN :
           builder \in Fitting(FALSE, FALSE, trapped) /\ (NoTypeOne => ~trapped)
  <1>1. PICK insert, in_nalu, trapped \in BOOLEAN :
          /\ builder \in Fitting(insert, in_nalu, trapped) /\ ~in_nalu /\ ~insert
          /\ NoTypeOne => ~trapped
        BY DEF StreamInv, BuilderInv
  <1>2. in_nalu = FALSE /\ insert = FALSE
        BY <1>1
  <1>3. QED
        BY <1>1, <1>2, Zenon

LEMMA SliceStep ==
  ASSUME NEW insert \in BOOLEAN, NEW in_nalu \in BOOLEAN, NEW trapped \in BOOLEAN,
         builder \in Fitting(insert, in_nalu, trapped),
         NEW slice \in Slices, AppendSlice(slice)
  PROVE  builder' \in Fitting(insert, in_nalu, trapped)
  <1> DEFINE written == StartCode \o [i \in DOMAIN slice |-> u(8, slice[i])]
  <1>1. written \in Seq(SyntaxElements)
        BY SliceFacts
  <1>2. builder' = FoldLeft(AppendElement, builder, written)
        BY DEF AppendSlice
  <1> HIDE DEF written
  <1>3. builder \in Counting(insert, in_nalu, trapped, Codes(builder.data))
        BY FittingIsCounting
  <1>4. builder' \in Counting(insert, in_nalu, trapped, Codes(builder.data))
        BY <1>1, <1>2, <1>3, AppendElementFold
  <1>5. QED
        BY <1>4 DEF Counting

\* The stream is read when nothing is in the register.
LEMMA ReadOutFacts ==
  ASSUME NEW insert \in BOOLEAN, NEW in_nalu \in BOOLEAN, NEW trapped \in BOOLEAN,
         NEW b \in Fitting(insert, in_nalu, trapped), b.reg = <<>>
  PROVE  ReadOut(b) \in Fitting(insert, in_nalu, trapped)
  <1>1. b.trapped = trapped /\ b \in Builders(insert, in_nalu, trapped)
        BY DEF Fitting, Builders
  <1>2. (b.trapped \/ b.reg # <<>>) = trapped
        BY <1>1, Zenon
  <1>3. ReadOut(b) = [b EXCEPT !.trapped = trapped]
        BY <1>2, Zenon DEF ReadOut
  <1>4. ReadOut(b) = b
        BY <1>1, <1>3 DEF Builders
  <1>5. QED
        BY <1>4

LEMMA SPSStep ==
  ASSUME StreamInv, BuildPackedH264SPS
  PROVE  StreamInv'
  <1> DEFINE list == SPS(ProfileIdc[profile], pic)
             packed == Packed(kSPS, list)
             type_one == pic.pic_order_cnt_type = 1
  <1>1. pc = "SPS" /\ pc' = "PPS" /\ UNCHANGED <<runVars, todo>>
        BY DEF BuildPackedH264SPS
  <1>2. profile \in Profiles /\ pic \in Pictures /\ builder.reg = <<>>
        BY <1>1 DEF StreamInv, RunInv, BuilderInv
  <1>3. PICK trapped \in BOOLEAN :
          builder \in Fitting(FALSE, FALSE, trapped) /\ (NoTypeOne => ~trapped)
        BY <1>1, RunBuilder
  <1>4. list \in Seq(SyntaxElements)
    <2>1. ProfileIdc[profile] \in Int
      <3>1. profile \in DOMAIN ProfileIdc
            BY <1>2, ProfilesAssumption
      <3>2. QED
            BY <3>1 DEF ProfileIdc, H264ProfileIDC
    <2>2. QED
          BY <1>2, <2>1, SPSFacts
  <1>5. builder' = [packed EXCEPT !.trapped = @ \/ type_one]
        BY DEF BuildPackedH264SPS
  <1> HIDE DEF list
  <1>6. packed \in Fitting(FALSE, FALSE, trapped) /\ packed.reg = <<>>
    <2>1. kSPS \in Int
          BY DEF kSPS
    <2>2. QED
          BY <1>2, <1>3, <1>4, <2>1, PackedFacts
  <1>7. type_one \in BOOLEAN /\ (NoTypeOne => ~type_one)
        BY <1>2 DEF NoTypeOne
  <1> HIDE DEF packed, type_one
  <1>8. PICK t \in BOOLEAN : t = (trapped \/ type_one)
        BY <1>3
  <1>9. builder' \in Fitting(FALSE, FALSE, t) /\ builder'.reg = <<>>
    <2>1. (packed.trapped \/ type_one) = t
      <3>1. packed.trapped = trapped
            BY <1>6 DEF Fitting, Builders
      <3>2. QED
            BY <1>8, <3>1
    <2>2. builder' = [packed EXCEPT !.trapped = t]
          BY <1>5, <2>1, Zenon
    <2>3. QED
          BY <1>6, <2>2 DEF Fitting, Builders
  <1>10. BuilderInv'
         BY <1>1, <1>3, <1>7, <1>8, <1>9, BuilderStep
  <1>11. RunInv'
         BY <1>1 DEF StreamInv, RunInv, runVars
  <1>12. QED
         BY <1>10, <1>11 DEF StreamInv

LEMMA PPSStep ==
  ASSUME StreamInv, BuildPackedH264PPS
  PROVE  StreamInv'
  <1>1. pc = "PPS" /\ pc' = "dump" /\ UNCHANGED <<runVars, todo>>
        BY DEF BuildPackedH264PPS
  <1>2. pic \in Pictures /\ builder.reg = <<>>
        BY <1>1 DEF StreamInv, RunInv, BuilderInv
  <1>3. PICK trapped \in BOOLEAN :
          builder \in Fitting(FALSE, FALSE, trapped) /\ (NoTypeOne => ~trapped)
        BY <1>1, RunBuilder
  <1>4. builder' \in Fitting(FALSE, FALSE, trapped) /\ builder'.reg = <<>>
    <2>1. builder' = Packed(kPPS, PPS(pic)) /\ PPS(pic) \in Seq(SyntaxElements) /\ kPPS \in Int
          BY <1>2, PPSFacts DEF BuildPackedH264PPS, kPPS
    <2>2. QED
          BY <1>2, <1>3, <2>1, PackedFacts
  <1>5. BuilderInv'
        BY <1>1, <1>3, <1>4, BuilderStep
  <1>6. RunInv'
        BY <1>1 DEF StreamInv, RunInv, runVars
  <1>7. QED
        BY <1>5, <1>6 DEF StreamInv

LEMMA DumpStep ==
  ASSUME StreamInv, DumpParameterSets
  PROVE  StreamInv'
  <1>1. pc = "dump" /\ pc' = "slices" /\ UNCHANGED <<runVars, todo>> /\ builder' = ReadOut(builder)
        BY DEF DumpParameterSets
  <1>2. builder.reg = <<>>
        BY <1>1 DEF StreamInv, BuilderInv
  <1>3. PICK trapped \in BOOLEAN :
          builder \in Fitting(FALSE, FALSE, trapped) /\ (NoTypeOne => ~trapped)
        BY <1>1, RunBuilder
  <1>4. builder' \in Fitting(FALSE, FALSE, trapped)
        BY <1>1, <1>2, <1>3, ReadOutFacts
  <1>5. BuilderInv'
        BY <1>1, <1>3, <1>4, BuilderStep
  <1>6. RunInv'
        BY <1>1 DEF StreamInv, RunInv, runVars
  <1>7. QED
        BY <1>5, <1>6 DEF StreamInv

LEMMA NextSliceStep ==
  ASSUME StreamInv, AppendNextSlice
  PROVE  StreamInv'
  <1>1. /\ pc = "slices" /\ pc' = "slices" /\ UNCHANGED runVars
        /\ todo # <<>> /\ AppendSlice(Head(todo)) /\ todo' = Tail(todo)
        BY DEF AppendNextSlice
  <1>2. todo \in Seq(Slices) /\ profile \in Profiles /\ pic \in Pictures
        BY <1>1 DEF StreamInv, RunInv
  <1>3. Head(todo) \in Slices /\ todo' \in Seq(Slices)
        BY <1>1, <1>2
  <1>4. PICK trapped \in BOOLEAN :
          builder \in Fitting(FALSE, FALSE, trapped) /\ (NoTypeOne => ~trapped)
        BY <1>1, RunBuilder
  <1>5. builder' \in Fitting(FALSE, FALSE, trapped)
        BY <1>1, <1>3, <1>4, SliceStep
  <1>6. BuilderInv'
        BY <1>1, <1>4, <1>5, BuilderStep
  <1>7. RunInv'
        BY <1>1, <1>2, <1>3 DEF RunInv, runVars
  <1>8. QED
        BY <1>6, <1>7 DEF StreamInv

LEMMA FlushStreamStep ==
  ASSUME StreamInv, FlushStream
  PROVE  StreamInv'
  <1> DEFINE flushed == IF builder.reg # <<>> THEN FlushReg(builder) ELSE builder
  <1>1. /\ pc = "slices" /\ pc' = "decode" /\ UNCHANGED <<runVars, todo>>
        /\ builder' = ReadOut(flushed)
        BY DEF FlushStream
  <1>2. PICK trapped \in BOOLEAN :
          builder \in Fitting(FALSE, FALSE, trapped) /\ (NoTypeOne => ~trapped)
        BY <1>1, RunBuilder
  <1>3. flushed \in Fitting(FALSE, FALSE, trapped) /\ flushed.reg = <<>>
    <2>1. builder \in Counting(FALSE, FALSE, trapped, Codes(builder.data))
          BY <1>2, FittingIsCounting
    <2>2. FlushReg(builder) \in Counting(FALSE, FALSE, trapped, Codes(builder.data))
          /\ FlushReg(builder).reg = <<>>
          BY <2>1, FlushRegFacts
    <2>3. QED
          BY <1>2, <2>2 DEF Counting
  <1> HIDE DEF flushed
  <1>4. builder' \in Fitting(FALSE, FALSE, trapped)
        BY <1>1, <1>2, <1>3, ReadOutFacts
  <1>5. BuilderInv'
        BY <1>1, <1>2, <1>4, BuilderStep
  <1>6. RunInv'
        BY <1>1 DEF StreamInv, RunInv, runVars
  <1>7. QED
        BY <1>5, <1>6 DEF StreamInv

\* Any other client, which may also be inside a NALU.
LEMMA ClientStep ==
  ASSUME StreamInv, ClientNext
  PROVE  StreamInv'
  <1>1. pc = "client" /\ pc' = "client" /\ Next
        BY DEF ClientNext
  <1>2. PICK insert, in_nalu, trapped \in BOOLEAN :
          builder \in Fitting(insert, in_nalu, trapped) /\ (NoTypeOne => ~trapped)
        BY DEF StreamInv, BuilderInv
  <1>3. builder.in_nalu = in_nalu /\ builder \in Counting(insert, in_nalu, trapped, Codes(builder.data))
        BY <1>2, FittingIsCounting
  <1>4. \E n \in BOOLEAN : builder' \in Fitting(insert, n, trapped)
    <2>1. ASSUME NEW nalu_type \in {kSPS, kPPS}, Begin(nalu_type, 3)
          PROVE  builder' \in Fitting(insert, TRUE, trapped)
      <3>1. /\ builder.reg = <<>> /\ builder.in_nalu = FALSE
            /\ builder' = BeginNALU(builder, nalu_type, 3)
            BY <1>2, <1>3, <2>1 DEF Begin
      <3>2. nalu_type \in Int /\ 3 \in Int
            BY DEF kSPS, kPPS
      <3>3. builder \in Fitting(insert, FALSE, trapped)
            BY <1>2, <1>3, <3>1, Zenon
      <3>4. QED
            BY <1>2, <3>1, <3>2, <3>3, BeginNALUFacts
    <2>2. ASSUME NEW e \in Elements, AppendOne(e)
          PROVE  builder' \in Fitting(insert, in_nalu, trapped)
      <3>1. e \in SyntaxElements /\ builder' = AppendElement(builder, e)
            BY <2>2, ElementsAssumption DEF AppendOne
      <3>2. builder' \in Counting(insert, in_nalu, trapped, Codes(builder.data))
            BY <1>3, <3>1, AppendElementFacts
      <3>3. QED
            BY <3>2 DEF Counting
    <2>3. ASSUME Finish PROVE builder' \in Fitting(insert, FALSE, trapped)
      <3>1. builder' = FinishNALU(builder)
            BY <2>3 DEF Finish
      <3>2. QED
            BY <1>3, <3>1, FinishNALUFacts
    <2>4. ASSUME Flush PROVE builder' \in Fitting(insert, in_nalu, trapped)
      <3>1. ~in_nalu /\ builder' = FlushReg(builder)
            BY <1>3, <2>4 DEF Flush
      <3>2. builder' \in Counting(insert, in_nalu, trapped, Codes(builder.data))
            BY <1>3, <3>1, FlushRegFacts
      <3>3. QED
            BY <3>2 DEF Counting
    <2>5. ASSUME NEW slice \in Slices, AppendSlice(slice)
          PROVE  builder' \in Fitting(insert, in_nalu, trapped)
          BY <1>2, <2>5, SliceStep
    <2>6. QED
          BY <1>1, <1>2, <2>1, <2>2, <2>3, <2>4, <2>5 DEF Next
  <1>5. QED
        BY <1>1, <1>2, <1>4 DEF StreamInv, BuilderInv, RunInv, NoTypeOne

LEMMA StreamInvIsInductive ==
  ASSUME StreamInv, [RunNext \/ ClientNext]_streamVars
  PROVE  StreamInv'
  <1>1. CASE UNCHANGED streamVars
        BY <1>1 DEF StreamInv, BuilderInv, RunInv, NoTypeOne, streamVars, runVars, vars
  <1>2. CASE RunNext
        BY <1>2, SPSStep, PPSStep, DumpStep, NextSliceStep, FlushStreamStep DEF RunNext
  <1>3. CASE ClientNext
        BY <1>3, ClientStep
  <1>4. QED
        BY <1>1, <1>2, <1>3

THEOREM StreamInvTheorem == StreamSpec => []StreamInv
  <1>1. RunInit \/ ClientInit => StreamInv
        BY InitEstablishesStreamInv
  <1>2. StreamInv /\ [RunNext \/ ClientNext]_streamVars => StreamInv'
        BY StreamInvIsInductive
  <1>3. QED
        BY <1>1, <1>2, PTL DEF StreamSpec

\* No byte is written past the end of data_ (h264_decoder_delegate.cc:286-303), for every
\* picture, slice and syntax element, inside a NALU or not: one Grow at a time is enough
\* because it adds at least a register's bytes (the static_assert at line 231).
THEOREM WritesFitTheBufferTheorem == StreamSpec => []WritesFitTheBuffer
  <1>1. StreamInv => WritesFitTheBuffer
        BY DEF StreamInv, BuilderInv, Fitting, WritesFitTheBuffer
  <1>2. QED
        BY <1>1, StreamInvTheorem, PTL

\* The CHECKs of the builder's state never fail (h264_decoder_delegate.cc:171, 172, 206,
\* 213, 248 and 282), neither in Run nor for a client that begins and finishes its NALUs in
\* turn. The hypothesis is what BuildPackedH264SPS itself refuses (line 438).
THEOREM NeverTrapsTheorem ==
  ASSUME \A p \in Pictures : p.pic_order_cnt_type # 1
  PROVE  StreamSpec => []NeverTraps
  <1>1. StreamInv => NeverTraps
    <2> SUFFICES ASSUME StreamInv PROVE ~builder.trapped
        BY DEF NeverTraps
    <2>1. PICK insert, in_nalu, trapped \in BOOLEAN :
            builder \in Fitting(insert, in_nalu, trapped) /\ (NoTypeOne => ~trapped)
          BY DEF StreamInv, BuilderInv
    <2>2. ~trapped
          BY <2>1 DEF NoTypeOne
    <2>3. QED
          BY <2>1, <2>2 DEF Fitting, Builders
  <1>2. QED
        BY <1>1, StreamInvTheorem, PTL

--------------------------------------------------------------------------------
(* The start codes of a client.                                              *)

\* A slice comes escaped from the application, and ends in a byte with its stop bit.
SlicesAreEscaped == \A slice \in Slices : StartCodesIn(slice) = {} /\ EndsWell(slice)

\* The stream of a builder that inserts emulation prevention bytes has as many start
\* codes: inside a NALU the bytes that are written, outside one with those in the register.
DelimitedBy(b, codes) ==
  \E insert, in_nalu \in BOOLEAN :
    /\ b \in Fitting(insert, in_nalu, FALSE)
    /\ insert /\ in_nalu => Codes(b.data) = codes
    /\ insert /\ ~in_nalu =>
         Len(b.reg) % 8 = 0 /\ Codes(Stream(b)) = codes /\ EndsWell(Stream(b))

ClientInv == pc = "client" => units \in Nat /\ DelimitedBy(builder, 2 * units)

\* Outside a NALU with an empty register, the stream is what is written.
LEMMA NothingInRegister ==
  ASSUME NEW insert, NEW in_nalu, NEW trapped, NEW b \in Fitting(insert, in_nalu, trapped),
         b.reg = <<>>
  PROVE  Stream(b) = b.data /\ Len(b.reg) % 8 = 0
  <1>1. b.data \in Seq(D)
        BY FittingIsCounting
  <1>2. Stream(b) = b.data
    <2>1. BytesOf(b.reg) = <<>>
          BY NoBytes, Zenon
    <2>2. QED
          BY <1>1, <2>1, NoBytes, Zenon DEF Stream
  <1>3. Len(b.reg) % 8 = 0
    <2>1. Len(b.reg) = 0
          OBVIOUS
    <2>2. QED
          BY <2>1
  <1>4. QED
        BY <1>2, <1>3

LEMMA ConstructedDelimits ==
  ASSUME NEW insert \in BOOLEAN
  PROVE  DelimitedBy(Constructed(insert), 0)
  <1> DEFINE b == Constructed(insert)
  <1>1. b \in Fitting(insert, FALSE, FALSE) /\ b.reg = <<>>
        BY ConstructedFacts
  <1>2. b.data = <<>>
        BY DEF Constructed, Reset, Members
  <1> HIDE DEF b
  <1>3. Stream(b) = b.data /\ Len(b.reg) % 8 = 0
        BY <1>1, NothingInRegister
  <1>4. Codes(b.data) = 0
    <2>1. PICK none : none = <<>>
          OBVIOUS
    <2>2. none \in Seq(D) /\ 1..Len(none) = {}
          BY <2>1
    <2>3. StartCodesIn(none) = {}
          BY <2>2, CodesFacts
    <2>4. QED
          BY <1>2, <2>1, <2>3, FS_EmptySet DEF Codes
  <1>5. EndsWell(b.data)
        BY <1>2 DEF EndsWell
  <1>6. QED
        BY <1>1, <1>3, <1>4, <1>5 DEF DelimitedBy, b

LEMMA BeginDelimits ==
  ASSUME units \in Nat, DelimitedBy(builder, 2 * units),
         NEW nalu_type \in {kSPS, kPPS}, Begin(nalu_type, 3)
  PROVE  units' \in Nat /\ DelimitedBy(builder', 2 * units')
  <1> DEFINE begun == BeginNALU(builder, nalu_type, 3)
  <1>1. PICK insert, in_nalu \in BOOLEAN :
          /\ builder \in Fitting(insert, in_nalu, FALSE)
          /\ insert /\ ~in_nalu => Codes(Stream(builder)) = 2 * units /\ EndsWell(Stream(builder))
        BY DEF DelimitedBy
  <1>2. /\ builder.in_nalu = FALSE /\ builder.reg = <<>>
        /\ builder' = begun /\ units' = units + 1
    <2>1. builder.in_nalu \in BOOLEAN
          BY <1>1 DEF Fitting, Builders
    <2>2. QED
          BY <2>1 DEF Begin
  <1>3. in_nalu = FALSE
        BY <1>1, <1>2 DEF Fitting, Builders
  <1>4. builder \in Fitting(insert, FALSE, FALSE) /\ Stream(builder) = builder.data
        BY <1>1, <1>2, <1>3, NothingInRegister
  <1>5. /\ begun \in Fitting(insert, TRUE, FALSE)
        /\ insert /\ EndsWell(builder.data) => begun \in Counting(insert, TRUE, FALSE, Codes(builder.data) + 2)
    <2>1. nalu_type \in Int /\ 3 \in Int /\ FALSE \in BOOLEAN
          BY DEF kSPS, kPPS
    <2>2. QED
          BY <1>1, <1>2, <1>4, <2>1, BeginNALUFacts
  <1> HIDE DEF begun
  <1>6. insert => Codes(begun.data) = 2 * units + 2
    <2> SUFFICES ASSUME insert PROVE Codes(begun.data) = 2 * units + 2
        OBVIOUS
    <2>1. Codes(builder.data) = 2 * units /\ EndsWell(builder.data)
          BY <1>1, <1>3, <1>4, Zenon
    <2>2. begun \in Counting(insert, TRUE, FALSE, 2 * units + 2)
          BY <1>5, <2>1, Zenon
    <2>3. QED
          BY <2>2 DEF Counting
  <1>7. units' \in Nat /\ 2 * units' = 2 * units + 2
        BY <1>2
  <1>8. DelimitedBy(begun, 2 * units + 2)
        BY <1>1, <1>5, <1>6 DEF DelimitedBy
  <1>9. QED
        BY <1>2, <1>7, <1>8, Zenon

LEMMA AppendOneDelimits ==
  ASSUME units \in Nat, DelimitedBy(builder, 2 * units), NEW e \in Elements, AppendOne(e)
  PROVE  units' \in Nat /\ DelimitedBy(builder', 2 * units')
  <1> DEFINE codes == 2 * units
             appended == AppendElement(builder, e)
  <1>1. PICK insert, in_nalu \in BOOLEAN :
          /\ builder \in Fitting(insert, in_nalu, FALSE)
          /\ insert /\ in_nalu => Codes(builder.data) = codes
        BY DEF DelimitedBy
  <1>2. builder.in_nalu = in_nalu /\ builder.in_nalu /\ builder' = appended /\ units' = units
        BY <1>1, FittingIsCounting DEF AppendOne
  <1>3. in_nalu = TRUE
        BY <1>1, <1>2
  <1>4. e \in SyntaxElements /\ FALSE \in BOOLEAN
        BY ElementsAssumption
  <1> HIDE DEF codes
  <1>5. builder \in Counting(insert, in_nalu, FALSE, codes)
        BY <1>1 DEF Counting
  <1>6. appended \in Counting(insert, in_nalu, FALSE, codes)
        BY <1>4, <1>5, AppendElementFacts
  <1> HIDE DEF appended
  <1>7. DelimitedBy(appended, codes)
        BY <1>1, <1>3, <1>6 DEF DelimitedBy, Counting
  <1>8. QED
        BY <1>2, <1>7, Zenon DEF codes

LEMMA FinishDelimits ==
  ASSUME units \in Nat, DelimitedBy(builder, 2 * units), Finish
  PROVE  units' \in Nat /\ DelimitedBy(builder', 2 * units')
  <1> DEFINE codes == 2 * units
             finished == FinishNALU(builder)
  <1>1. PICK insert, in_nalu \in BOOLEAN :
          /\ builder \in Fitting(insert, in_nalu, FALSE)
          /\ insert /\ in_nalu => Codes(builder.data) = codes
        BY DEF DelimitedBy
  <1>2. builder.in_nalu = in_nalu /\ builder.in_nalu /\ builder' = finished /\ units' = units
        BY <1>1, FittingIsCounting DEF Finish
  <1>3. in_nalu = TRUE
        BY <1>1, <1>2
  <1> HIDE DEF codes
  <1>4. builder \in Counting(insert, in_nalu, FALSE, codes)
        BY <1>1 DEF Counting
  <1>5. /\ finished \in Fitting(insert, FALSE, FALSE) /\ finished.reg = <<>>
        /\ insert /\ in_nalu => Codes(finished.data) = codes /\ EndsWell(finished.data)
    <2>1. FALSE \in BOOLEAN
          OBVIOUS
    <2>2. QED
          BY <1>1, <1>4, <2>1, FinishNALUFacts
  <1> HIDE DEF finished
  <1>6. Stream(finished) = finished.data /\ Len(finished.reg) % 8 = 0
        BY <1>5, NothingInRegister
  <1>7. DelimitedBy(finished, codes)
        BY <1>1, <1>3, <1>5, <1>6 DEF DelimitedBy
  <1>8. QED
        BY <1>2, <1>7, Zenon DEF codes

LEMMA FlushDelimits ==
  ASSUME units \in Nat, DelimitedBy(builder, 2 * units), Flush
  PROVE  units' \in Nat /\ DelimitedBy(builder', 2 * units')
  <1> DEFINE codes == 2 * units
             flushed == FlushReg(builder)
  <1>1. PICK insert, in_nalu \in BOOLEAN :
          /\ builder \in Fitting(insert, in_nalu, FALSE)
          /\ insert /\ ~in_nalu => /\ Len(builder.reg) % 8 = 0
                                   /\ Codes(Stream(builder)) = codes /\ EndsWell(Stream(builder))
        BY DEF DelimitedBy
  <1>2. builder.in_nalu = in_nalu /\ ~builder.in_nalu /\ builder' = flushed /\ units' = units
    <2>1. builder.in_nalu = in_nalu
          BY <1>1 DEF Fitting, Builders
    <2>2. QED
          BY <2>1 DEF Flush
  <1>3. in_nalu = FALSE /\ FALSE \in BOOLEAN
        BY <1>1, <1>2
  <1> HIDE DEF codes
  <1>4. flushed \in Fitting(insert, FALSE, FALSE)
    <2>1. builder \in Counting(insert, FALSE, FALSE, Codes(builder.data)) /\ ~(insert /\ FALSE)
          BY <1>1, <1>3, FittingIsCounting
    <2>2. flushed \in Counting(insert, FALSE, FALSE, Codes(builder.data))
          BY <1>3, <2>1, FlushRegFacts
    <2>3. QED
          BY <2>2 DEF Counting
  <1>5. insert => Stream(flushed) = Stream(builder) /\ Len(flushed.reg) % 8 = 0
    <2> SUFFICES ASSUME insert PROVE Stream(flushed) = Stream(builder) /\ Len(flushed.reg) % 8 = 0
        OBVIOUS
    <2>1. builder \in Aligned(insert, FALSE, FALSE) /\ ~(insert /\ FALSE)
          BY <1>1, <1>3 DEF Aligned
    <2>2. Stream(flushed) = Stream(builder) /\ flushed \in Aligned(insert, FALSE, FALSE)
          BY <1>3, <2>1, FlushRegOutside
    <2>3. QED
          BY <2>2 DEF Aligned
  <1> HIDE DEF flushed
  <1>6. DelimitedBy(flushed, codes)
        BY <1>1, <1>3, <1>4, <1>5 DEF DelimitedBy
  <1>7. QED
        BY <1>2, <1>6, Zenon DEF codes

\* A start code and a slice make two start codes more, and end like the slice.
LEMMA SliceCodes ==
  ASSUME SlicesAreEscaped, NEW s \in Seq(D), EndsWell(s), NEW slice \in Slices
  PROVE  LET all == s \o (<<0, 0, 0, 1>> \o slice)
         IN Codes(all) = Codes(s) + 2 /\ EndsWell(all)
  <1>1. PICK four : four = <<0, 0, 0, 1>>
        OBVIOUS
  <1>2. four \in Seq(D) /\ Codes(four) = 2 /\ EndsWell(four)
        BY <1>1, FourBytes
  <1>3. slice \in Seq(D) /\ EndsWell(slice) /\ Codes(slice) = 0
    <2>1. slice \in Seq(D)
          BY SlicesAssumption DEF D
    <2>2. StartCodesIn(slice) = {} /\ EndsWell(slice)
          BY DEF SlicesAreEscaped
    <2>3. QED
          BY <2>1, <2>2, FS_EmptySet DEF Codes
  <1> DEFINE unit == four \o slice
             all == s \o unit
  <1>4. /\ unit \in Seq(D) /\ Len(unit) = 4 + Len(slice)
        /\ \A i \in 1..4 : unit[i] = four[i]
        /\ \A i \in 1..Len(slice) : unit[4 + i] = slice[i]
    <2>1. Len(four) = 4
          BY <1>1
    <2>2. /\ four \o slice \in Seq(D) /\ Len(four \o slice) = Len(four) + Len(slice)
          /\ \A i \in 1..Len(four) : (four \o slice)[i] = four[i]
          /\ \A i \in 1..Len(slice) : (four \o slice)[Len(four) + i] = slice[i]
          BY <1>2, <1>3, ConcatParts
    <2>3. QED
          BY <2>1, <2>2, Zenon
  <1>5. Codes(unit) = 2
    <2>1. Codes(unit) = Codes(four) + Codes(slice)
          BY <1>2, <1>3, CodesConcat
    <2>2. QED
          BY <1>2, <1>3, <2>1
  <1>6. unit[Len(unit)] # 0
    <2>1. CASE slice = <<>>
      <3>1. Len(unit) = 4 /\ four[4] = 1
            BY <1>1, <1>4, <2>1
      <3>2. QED
            BY <1>4, <3>1
    <2>2. CASE slice # <<>>
      <3>1. Len(slice) \in 1..Len(slice) /\ slice[Len(slice)] # 0
            BY <1>3, <2>2 DEF EndsWell
      <3>2. QED
            BY <1>4, <3>1
    <2>3. QED
          BY <2>1, <2>2
  <1> HIDE DEF unit
  <1>7. all \in Seq(D) /\ Len(all) = Len(s) + Len(unit) /\ \A i \in 1..Len(unit) : all[Len(s) + i] = unit[i]
    <2>1. unit \in Seq(D)
          BY <1>4
    <2>2. /\ s \o unit \in Seq(D) /\ Len(s \o unit) = Len(s) + Len(unit)
          /\ \A i \in 1..Len(unit) : (s \o unit)[Len(s) + i] = unit[i]
          BY <2>1, ConcatParts
    <2>3. QED
          BY <2>2, Zenon
  <1>8. Codes(all) = Codes(s) + 2
    <2>1. Codes(all) = Codes(s) + Codes(unit)
          BY <1>4, CodesConcat
    <2>2. QED
          BY <1>5, <2>1
  <1>9. EndsWell(all)
    <2>1. Len(unit) \in 1..Len(unit)
          BY <1>3, <1>4
    <2>2. all[Len(all)] # 0
          BY <1>6, <1>7, <2>1
    <2>3. QED
          BY <2>2 DEF EndsWell
  <1> HIDE DEF all
  <1>10. QED
         BY <1>1, <1>8, <1>9, Zenon DEF all, unit

LEMMA AppendSliceDelimits ==
  ASSUME SlicesAreEscaped, units \in Nat, DelimitedBy(builder, 2 * units),
         NEW slice \in Slices, AppendSlice(slice)
  PROVE  units' \in Nat /\ DelimitedBy(builder', 2 * units')
  <1>1. PICK insert, in_nalu \in BOOLEAN :
          /\ builder \in Fitting(insert, in_nalu, FALSE)
          /\ insert /\ ~in_nalu => /\ Len(builder.reg) % 8 = 0
                                   /\ Codes(Stream(builder)) = 2 * units /\ EndsWell(Stream(builder))
        BY DEF DelimitedBy
  <1>2. builder.in_nalu = in_nalu /\ ~builder.in_nalu /\ units' = units + 1
    <2>1. builder.in_nalu = in_nalu
          BY <1>1 DEF Fitting, Builders
    <2>2. QED
          BY <2>1 DEF AppendSlice
  <1>3. in_nalu = FALSE /\ FALSE \in BOOLEAN
        BY <1>1, <1>2
  <1>4. builder' \in Fitting(insert, FALSE, FALSE)
        BY <1>1, <1>3, SliceStep
  <1>5. ASSUME insert
        PROVE  Len(builder'.reg) % 8 = 0 /\ Codes(Stream(builder')) = 2 * units + 2 /\ EndsWell(Stream(builder'))
    <2> DEFINE written == StartCode \o [i \in DOMAIN slice |-> u(8, slice[i])]
               c == FoldLeft(AppendElement, builder, written)
               added == <<0, 0, 0, 1>> \o slice
    <2>1. builder \in Aligned(insert, FALSE, FALSE)
          BY <1>1, <1>3, <1>5 DEF Aligned
    <2>2. c \in Aligned(insert, FALSE, FALSE) /\ Added(builder, added, c)
          BY <2>1, SliceAppended, Zenon
    <2>3. builder' = c
          BY DEF AppendSlice
    <2> HIDE DEF c
    <2>4. Stream(builder) \in Seq(D)
          BY <2>1, StreamFacts
    <2>5. Codes(Stream(builder)) = 2 * units /\ EndsWell(Stream(builder))
          BY <1>1, <1>3, <1>5, Zenon
    <2>6. Codes(Stream(builder) \o added) = Codes(Stream(builder)) + 2 /\ EndsWell(Stream(builder) \o added)
          BY <2>4, <2>5, SliceCodes, Zenon
    <2> HIDE DEF added
    <2>7. Stream(c) = Stream(builder) \o added
          BY <2>2, Zenon DEF Added
    <2>8. Codes(Stream(c)) = 2 * units + 2 /\ EndsWell(Stream(c))
          BY <2>5, <2>6, <2>7, Zenon
    <2>9. Len(c.reg) % 8 = 0
          BY <2>2 DEF Aligned
    <2>10. QED
           BY <2>3, <2>8, <2>9, Zenon
  <1>6. units' \in Nat /\ 2 * units' = 2 * units + 2
        BY <1>2
  <1>7. DelimitedBy(builder', 2 * units + 2)
        BY <1>1, <1>4, <1>5 DEF DelimitedBy
  <1>8. QED
        BY <1>6, <1>7, Zenon

LEMMA InitEstablishesClientInv == RunInit \/ ClientInit => ClientInv
  <1>1. ASSUME RunInit PROVE ClientInv
    <2>1. pc # "client"
          BY <1>1 DEF RunInit
    <2>2. QED
          BY <2>1 DEF ClientInv
  <1>2. ASSUME ClientInit PROVE ClientInv
    <2>1. PICK insert \in BOOLEAN : builder = Constructed(insert)
          BY <1>2 DEF ClientInit, Init
    <2>2. units = 0 /\ 2 * 0 = 0
          BY <1>2 DEF ClientInit, Init
    <2>3. DelimitedBy(builder, 2 * units)
          BY <2>1, <2>2, ConstructedDelimits, Zenon
    <2>4. QED
          BY <2>2, <2>3 DEF ClientInv
  <1>3. QED
        BY <1>1, <1>2

LEMMA ClientInvIsInductive ==
  ASSUME SlicesAreEscaped, ClientInv, [RunNext \/ ClientNext]_streamVars
  PROVE  ClientInv'
  <1>1. CASE UNCHANGED streamVars
    <2>1. builder' = builder /\ units' = units /\ pc' = pc
          BY <1>1 DEF streamVars, vars
    <2>2. QED
          BY <2>1 DEF ClientInv, DelimitedBy
  <1>2. CASE RunNext
    <2>1. pc' # "client"
          BY <1>2 DEF RunNext, BuildPackedH264SPS, BuildPackedH264PPS, DumpParameterSets,
                      AppendNextSlice, FlushStream
    <2>2. QED
          BY <2>1 DEF ClientInv
  <1>3. CASE ClientNext
    <2>1. pc = "client" /\ Next
          BY <1>3 DEF ClientNext
    <2>2. units \in Nat /\ DelimitedBy(builder, 2 * units)
          BY <2>1 DEF ClientInv
    <2>3. units' \in Nat /\ DelimitedBy(builder', 2 * units')
      <3>1. ASSUME NEW nalu_type \in {kSPS, kPPS}, Begin(nalu_type, 3)
            PROVE  units' \in Nat /\ DelimitedBy(builder', 2 * units')
            BY <2>2, <3>1, BeginDelimits, Zenon
      <3>2. ASSUME NEW e \in Elements, AppendOne(e)
            PROVE  units' \in Nat /\ DelimitedBy(builder', 2 * units')
            BY <2>2, <3>2, AppendOneDelimits, Zenon
      <3>3. ASSUME NEW slice \in Slices, AppendSlice(slice)
            PROVE  units' \in Nat /\ DelimitedBy(builder', 2 * units')
            BY <2>2, <3>3, AppendSliceDelimits, Zenon
      <3>4. QED
            BY <2>1, <2>2, <3>1, <3>2, <3>3, FinishDelimits, FlushDelimits, Zenon DEF Next
    <2>4. QED
          BY <2>3 DEF ClientInv
  <1>4. QED
        BY <1>1, <1>2, <1>3

\* With emulation prevention, two zero bytes and one below three are found only in the
\* start codes (spec 7.3.1, h264_decoder_delegate.cc:283-295), for a client that appends any
\* elements it likes to its NALUs, and for every size of the register they are split
\* among. The hypothesis is on what the application passes: slices come escaped, and end
\* in the byte with their stop bit.
THEOREM StartCodesDelimitTheorem ==
  ASSUME \A slice \in Slices : StartCodesIn(slice) = {} /\ EndsWell(slice)
  PROVE  StreamSpec => []StartCodesDelimit
  <1>1. SlicesAreEscaped
        BY DEF SlicesAreEscaped
  <1>2. RunInit \/ ClientInit => ClientInv
        BY InitEstablishesClientInv
  <1>3. ClientInv /\ [RunNext \/ ClientNext]_streamVars => ClientInv'
        BY <1>1, ClientInvIsInductive
  <1>4. StreamInv /\ ClientInv => StartCodesDelimit
    <2> SUFFICES ASSUME StreamInv, ClientInv,
                        builder.insert_emulation_prevention_bytes, builder.reg = <<>>
                 PROVE  Codes(builder.data) = 2 * units
        BY DEF StartCodesDelimit, Codes
    <2>1. PICK n, m, t \in BOOLEAN :
            builder \in Fitting(n, m, t) /\ (pc # "client" => ~n)
          BY DEF StreamInv, BuilderInv
    <2>2. pc = "client"
          BY <2>1, FittingIsCounting
    <2>3. PICK insert, in_nalu \in BOOLEAN :
            /\ builder \in Fitting(insert, in_nalu, FALSE)
            /\ insert /\ in_nalu => Codes(builder.data) = 2 * units
            /\ insert /\ ~in_nalu => Codes(Stream(builder)) = 2 * units
          BY <2>2 DEF ClientInv, DelimitedBy
    <2>4. insert /\ Stream(builder) = builder.data
      <3>1. insert
            BY <2>3 DEF Fitting, Builders
      <3>2. Stream(builder) = builder.data
            BY <2>3, NothingInRegister
      <3>3. QED
            BY <3>1, <3>2
    <2>5. QED
          BY <2>3, <2>4, Zenon
  <1>5. QED
        BY <1>2, <1>3, <1>4, StreamInvTheorem, PTL DEF StreamSpec
================================================================================
