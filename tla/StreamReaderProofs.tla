------------------------- MODULE StreamReaderProofs -------------------------
(***************************************************************************)
(* Proofs about the reader of one direction of a conversation, for any     *)
(* text, any capacity and any sequence of calls.                           *)
(*                                                                         *)
(* Buffer holds no position of the stream: the theorems are about what its *)
(* blocks imply.  Rep(bs, b, c) says that the blocks bs place the bytes b  *)
(* behind position c of the stream, LostIn(bs, c) which positions they     *)
(* leave out.  A Discard cuts blocks off at the front (CutRep, CutLost), a *)
(* write extends them at the end (ExtendRep, ExtendLost); the invariant    *)
(* SInv says that the buffer represents the stream behind the cursor.      *)
(* From it follow Validate and, call by call, the refinement of GapStream. *)
(***************************************************************************)
EXTENDS StreamReader, FiniteSetTheorems, TLAPS

-----------------------------------------------------------------------------
(* Sums.                                                                   *)

\* A nonempty set of natural numbers has a smallest member: the form of
\* induction the proofs below use.
LEMMA Smallest ==
  ASSUME NEW S \in SUBSET Nat, S # {}
  PROVE  \E i \in S : \A j \in S : i <= j
<1> DEFINE R == {r \in Nat \X Nat : r[1] < r[2]}
<1>1. IsWellFoundedOn(R, Nat)
  BY NatLessThanWellFounded DEF OpToRel
<1>2. ASSUME NEW i \in Nat, NEW j \in Nat, <<j, i>> \notin R PROVE i <= j
  BY <1>2
<1> HIDE DEF R
<1>3. PICK i \in S : \A j \in S : ~(<<j, i>> \in R)
  BY <1>1, WFMin
<1> QED BY <1>2, <1>3

\* s is the function of the partial sums of f up to m.
Sums(s, f, m) == s = [k \in 0..m |-> IF k = 0 THEN 0 ELSE s[k - 1] + f[k]]

\* Partial sums exist.
LEMMA SumsExist ==
  ASSUME NEW m \in Nat, NEW f \in [1..m -> Nat], NEW n \in 0..m
  PROVE  \E s \in [0..n -> Nat] : Sums(s, f, n)
<1> DEFINE S == {i \in 0..m : ~\E s \in [0..i -> Nat] : Sums(s, f, i)}
<1> SUFFICES ASSUME S # {} PROVE FALSE
  OBVIOUS
<1>1. S \in SUBSET Nat
  OBVIOUS
<1>2. PICK i \in S : \A j \in S : i <= j
  BY <1>1, Smallest
<1>3. CASE i = 0
  <2> DEFINE s == [k \in 0..0 |-> 0]
  <2>1. s \in [0..i -> Nat] /\ Sums(s, f, i)
    BY <1>3 DEF Sums
  <2> QED BY <1>2, <2>1
<1>4. CASE i # 0
  <2>1. i \in 1..m /\ i - 1 \in 0..m /\ i - 1 < i
    BY <1>2, <1>4
  <2>2. i - 1 \notin S
    <3> HIDE DEF S
    <3> QED BY <1>1, <1>2, <2>1
  <2>3. PICK s \in [0..(i - 1) -> Nat] : Sums(s, f, i - 1)
    BY <2>1, <2>2
  <2> DEFINE t == [k \in 0..i |-> IF k = i THEN s[i - 1] + f[i] ELSE s[k]]
  <2>4. t \in [0..i -> Nat]
    BY <2>1, <2>3
  <2>5. ASSUME NEW k \in 0..i PROVE t[k] = IF k = 0 THEN 0 ELSE t[k - 1] + f[k]
    BY <2>1, <2>3 DEF Sums
  <2>6. Sums(t, f, i)
    <3> HIDE DEF t
    <3> QED BY <2>4, <2>5 DEF Sums
  <2> HIDE DEF t
  <2> QED BY <1>2, <2>4, <2>6
<1> QED BY <1>3, <1>4

\* SumTo is computed by such a function.
LEMMA SumToSums ==
  ASSUME NEW m \in Nat, NEW f \in [1..m -> Nat], NEW n \in 0..m
  PROVE  \E s : Sums(s, f, n) /\ SumTo(f, n) = s[n]
<1> DEFINE c == CHOOSE s : Sums(s, f, n)
<1>1. Sums(c, f, n)
  BY SumsExist, Zenon
<1>2. SumTo(f, n) = c[n]
  BY Zenon DEF SumTo, Sums
<1> QED BY <1>1, <1>2, Zenon

\* Functions of partial sums agree where what they sum does.
LEMMA SumsAgree ==
  ASSUME NEW m \in Nat, NEW n \in Nat, NEW f, NEW g, NEW s, NEW t,
         Sums(s, f, m), Sums(t, g, n), NEW i \in 0..m, i <= n, \A k \in 1..i : f[k] = g[k]
  PROVE  s[i] = t[i]
<1> DEFINE S == {k \in 0..i : s[k] # t[k]}
<1> SUFFICES ASSUME S # {} PROVE FALSE
  OBVIOUS
<1>1. S \in SUBSET Nat
  OBVIOUS
<1>2. PICK k \in S : \A j \in S : k <= j
  BY <1>1, Smallest
<1>3. \A j \in 0..m : s[j] = IF j = 0 THEN 0 ELSE s[j - 1] + f[j]
  BY DEF Sums
<1>4. \A j \in 0..n : t[j] = IF j = 0 THEN 0 ELSE t[j - 1] + g[j]
  BY DEF Sums
<1>5. k # 0
  BY <1>2, <1>3, <1>4
<1>6. k - 1 \in 0..i /\ k - 1 < k /\ k \in 1..i /\ k \in 0..m /\ k \in 0..n
  BY <1>2, <1>5
<1>7. k - 1 \notin S
  <2> HIDE DEF S
  <2> QED BY <1>1, <1>2, <1>6
<1>8. s[k - 1] = t[k - 1] /\ f[k] = g[k]
  BY <1>6, <1>7
<1> QED BY <1>2, <1>3, <1>4, <1>5, <1>6, <1>8

\* The equations of SumTo.
LEMMA SumFacts ==
  ASSUME NEW m \in Nat, NEW f \in [1..m -> Nat]
  PROVE  /\ SumTo(f, 0) = 0
         /\ \A i \in 0..m : SumTo(f, i) \in Nat
         /\ \A i \in 1..m : SumTo(f, i) = SumTo(f, i - 1) + f[i]
<1>1. SumTo(f, 0) = 0
  <2>1. PICK s : Sums(s, f, 0) /\ SumTo(f, 0) = s[0]
    BY SumToSums
  <2> QED BY <2>1 DEF Sums
<1>2. ASSUME NEW i \in 0..m PROVE SumTo(f, i) \in Nat
  <2>1. PICK s : Sums(s, f, i) /\ SumTo(f, i) = s[i]
    BY SumToSums
  <2>2. PICK t \in [0..i -> Nat] : Sums(t, f, i)
    BY SumsExist
  <2>3. s[i] = t[i]
    BY <2>1, <2>2, SumsAgree
  <2> QED BY <2>1, <2>2, <2>3
<1>3. ASSUME NEW i \in 1..m PROVE SumTo(f, i) = SumTo(f, i - 1) + f[i]
  <2>0. i \in 0..m /\ i - 1 \in 0..m /\ i - 1 \in Nat /\ i - 1 <= i
    OBVIOUS
  <2>1. PICK s : Sums(s, f, i) /\ SumTo(f, i) = s[i]
    BY <2>0, SumToSums
  <2>2. PICK t : Sums(t, f, i - 1) /\ SumTo(f, i - 1) = t[i - 1]
    BY <2>0, SumToSums
  <2>3. t[i - 1] = s[i - 1]
    BY <2>0, <2>1, <2>2, SumsAgree
  <2>4. s[i] = s[i - 1] + f[i]
    BY <2>0, <2>1 DEF Sums
  <2> QED BY <2>1, <2>2, <2>3, <2>4
<1> QED BY <1>1, <1>2, <1>3

\* Partial sums do not decrease; a later one includes the last summand.
LEMMA SumGrows ==
  ASSUME NEW m \in Nat, NEW f \in [1..m -> Nat], NEW i \in 0..m, NEW j \in i..m
  PROVE  /\ SumTo(f, i) <= SumTo(f, j)
         /\ i < j => SumTo(f, i) + f[j] <= SumTo(f, j)
<1>0. /\ \A k \in 0..m : SumTo(f, k) \in Nat
      /\ \A k \in 1..m : SumTo(f, k) = SumTo(f, k - 1) + f[k]
  BY SumFacts
<1>1. \A k \in i..m : SumTo(f, i) <= SumTo(f, k)
  <2> DEFINE S == {k \in i..m : ~(SumTo(f, i) <= SumTo(f, k))}
  <2> SUFFICES ASSUME S # {} PROVE FALSE
    OBVIOUS
  <2>1. S \in SUBSET Nat
    OBVIOUS
  <2>2. PICK k \in S : \A l \in S : k <= l
    BY <2>1, Smallest
  <2>3. k # i
    BY <1>0, <2>2
  <2>4. k - 1 \in i..m /\ k - 1 < k /\ k \in 1..m /\ k \in 0..m /\ k - 1 \in 0..m
    BY <2>2, <2>3
  <2>5. k - 1 \notin S
    <3> HIDE DEF S
    <3> QED BY <2>1, <2>2, <2>4
  <2>6. SumTo(f, i) <= SumTo(f, k - 1)
    BY <2>4, <2>5
  <2>7. /\ SumTo(f, k) = SumTo(f, k - 1) + f[k] /\ f[k] \in Nat
        /\ SumTo(f, k - 1) \in Nat /\ SumTo(f, i) \in Nat
    BY <1>0, <2>4
  <2>8. SumTo(f, i) <= SumTo(f, k)
    BY <2>6, <2>7
  <2> QED BY <2>2, <2>8
<1>2. ASSUME i < j PROVE SumTo(f, i) + f[j] <= SumTo(f, j)
  <2>1. j \in 1..m /\ j - 1 \in i..m /\ j - 1 \in 0..m
    BY <1>2
  <2>2. /\ SumTo(f, j) = SumTo(f, j - 1) + f[j] /\ f[j] \in Nat /\ SumTo(f, i) <= SumTo(f, j - 1)
        /\ SumTo(f, j - 1) \in Nat /\ SumTo(f, i) \in Nat
    BY <1>0, <1>1, <2>1
  <2> QED BY <2>2
<1> QED BY <1>1, <1>2

\* f, of length m, and g, of length n, agree on 1..i.
Alike(f, m, g, n, i) ==
  /\ f \in [1..m -> Nat] /\ g \in [1..n -> Nat]
  /\ i <= m /\ i <= n
  /\ \A k \in 1..i : f[k] = g[k]

\* The sum depends on what is summed only.
LEMMA SumPrefix ==
  ASSUME NEW m \in Nat, NEW n \in Nat, NEW i \in Nat, NEW f, NEW g, Alike(f, m, g, n, i)
  PROVE  SumTo(f, i) = SumTo(g, i)
<1>0. \A k \in 1..i : f[k] = g[k]
  BY DEF Alike
<1>a. i \in 0..n /\ i \in 0..m /\ f \in [1..m -> Nat] /\ g \in [1..n -> Nat]
  BY DEF Alike
<1>1. PICK s : Sums(s, f, i) /\ SumTo(f, i) = s[i]
  BY <1>a, SumToSums
<1>2. PICK t : Sums(t, g, i) /\ SumTo(g, i) = t[i]
  BY <1>a, SumToSums
<1> QED BY <1>0, <1>1, <1>2, SumsAgree

\* g, of length n, is what is left of f, of length m, when c is taken from the
\* first i elements together.
Shifted(g, n, f, m, i, c) ==
  /\ f \in [1..m -> Nat] /\ g \in [1..n -> Nat]
  /\ n = m - i + 1
  /\ g[1] = SumTo(f, i) - c
  /\ \A k \in 2..n : g[k] = f[i + k - 1]

\* The sums of what is left.
LEMMA SumShift ==
  ASSUME NEW m \in Nat, NEW n \in Nat, NEW i \in 1..m, NEW c \in Nat,
         NEW f, NEW g, Shifted(g, n, f, m, i, c), NEW j \in 1..n
  PROVE  SumTo(g, j) = SumTo(f, i + j - 1) - c
<1> USE DEF Shifted
<1>0. /\ \A k \in 0..m : SumTo(f, k) \in Nat
      /\ \A k \in 1..m : SumTo(f, k) = SumTo(f, k - 1) + f[k]
  BY SumFacts
<1>1. /\ SumTo(g, 0) = 0
      /\ \A k \in 0..n : SumTo(g, k) \in Nat
      /\ \A k \in 1..n : SumTo(g, k) = SumTo(g, k - 1) + g[k]
  BY SumFacts
<1> DEFINE S == {k \in 1..n : SumTo(g, k) # SumTo(f, i + k - 1) - c}
<1> SUFFICES ASSUME S # {} PROVE FALSE
  OBVIOUS
<1>2. S \in SUBSET Nat
  OBVIOUS
<1>3. PICK k \in S : \A l \in S : k <= l
  BY <1>2, Smallest
<1>4. k # 1
  <2>1. SumTo(g, 1) = SumTo(g, 0) + g[1]
    BY <1>1, <1>3
  <2>2. 1 - 1 = 0 /\ i + 1 - 1 = i /\ 1 \in 1..n
    BY <1>3
  <2>3. SumTo(g, 1) = SumTo(f, i) - c
    BY <1>1, <2>1, <2>2
  <2> QED BY <1>3, <2>2, <2>3
<1> DEFINE q == i + k - 1
<1>5. /\ k - 1 \in 1..n /\ k - 1 < k /\ k \in 2..n /\ k \in 1..n
      /\ q \in 1..m /\ i + (k - 1) - 1 = q - 1 /\ q - 1 \in 0..m
  BY <1>3, <1>4
<1>6. k - 1 \notin S
  <2> HIDE DEF S
  <2> QED BY <1>2, <1>3, <1>5
<1>7. SumTo(g, k - 1) = SumTo(f, q - 1) - c
  BY <1>5, <1>6
<1>8. SumTo(g, k) = SumTo(g, k - 1) + f[q]
  BY <1>1, <1>5
<1>a. SumTo(g, k) # SumTo(f, q) - c
  BY <1>3
<1> HIDE DEF q, S
<1>9. /\ SumTo(f, q) = SumTo(f, q - 1) + f[q]
      /\ SumTo(f, q - 1) \in Nat /\ f[q] \in Nat
  BY <1>0, <1>5
<1>10. SumTo(g, k) = SumTo(f, q) - c
  BY <1>7, <1>8, <1>9
<1> QED BY <1>a, <1>10

\* Where a position below the total lies.
LEMMA SumFind ==
  ASSUME NEW m \in Nat, NEW f \in [1..m -> Nat], NEW p \in Nat \ {0}, p <= SumTo(f, m)
  PROVE  \E i \in 1..m : SumTo(f, i - 1) < p /\ p <= SumTo(f, i)
<1>0. /\ SumTo(f, 0) = 0
      /\ \A k \in 0..m : SumTo(f, k) \in Nat
  BY SumFacts
<1> DEFINE S == {k \in 0..m : p <= SumTo(f, k)}
<1>1. S \in SUBSET Nat /\ m \in S
  OBVIOUS
<1>2. PICK i \in S : \A l \in S : i <= l
  BY <1>1, Smallest
<1>3. i \in 0..m /\ p <= SumTo(f, i)
  BY <1>2
<1>4. i # 0
  BY <1>0, <1>3
<1>5. i \in 1..m /\ i - 1 \in 0..m /\ i - 1 < i
  BY <1>3, <1>4
<1>6. i - 1 \notin S
  <2> HIDE DEF S
  <2> QED BY <1>1, <1>2, <1>5
<1>7. SumTo(f, i - 1) < p
  BY <1>0, <1>5, <1>6
<1> QED BY <1>3, <1>5, <1>7
-----------------------------------------------------------------------------
(* Blocks and bytes.                                                       *)

Blk == [gap : Nat, dataLen : Nat]

\* lenTo and dataTo of any sequence of blocks.
L(bs, i) == SumTo(lens(bs), i)
D(bs, i) == SumTo(dataLens(bs), i)

\* No block is empty and only the first may have no gap.
Proper(bs) ==
  /\ bs \in Seq(Blk)
  /\ \A i \in 1..Len(bs) : blockLen(bs[i]) > 0 /\ (i > 1 => bs[i].gap > 0)

\* The bytes b are those the blocks bs place after position c of the stream.
Content(bs, b, c) ==
  /\ D(bs, Len(bs)) = Len(b)
  /\ \A i \in 1..Len(bs) : \A j \in 1..bs[i].dataLen :
       b[D(bs, i - 1) + j] = c + L(bs, i - 1) + bs[i].gap + j

Rep(bs, b, c) == Proper(bs) /\ b \in Seq(Int) /\ c \in Int /\ Content(bs, b, c)

\* The positions the blocks leave out.
LostIn(bs, c) ==
  UNION {(c + L(bs, i - 1) + 1)..(c + L(bs, i - 1) + bs[i].gap) : i \in 1..Len(bs)}

\* The lengths of blocks are natural numbers.
LEMMA LensType ==
  ASSUME NEW bs \in Seq(Blk)
  PROVE  /\ lens(bs) \in [1..Len(bs) -> Nat] /\ dataLens(bs) \in [1..Len(bs) -> Nat]
         /\ Len(bs) \in Nat
         /\ \A i \in 1..Len(bs) :
              /\ bs[i].gap \in Nat /\ bs[i].dataLen \in Nat
              /\ lens(bs)[i] = bs[i].gap + bs[i].dataLen
              /\ dataLens(bs)[i] = bs[i].dataLen
<1>1. Len(bs) \in Nat /\ DOMAIN bs = 1..Len(bs)
  OBVIOUS
<1>2. ASSUME NEW i \in 1..Len(bs) PROVE bs[i].gap \in Nat /\ bs[i].dataLen \in Nat
  <2>1. bs[i] \in Blk
    OBVIOUS
  <2> QED BY <2>1 DEF Blk
<1>3. lens(bs) = [k \in 1..Len(bs) |-> bs[k].gap + bs[k].dataLen]
  BY <1>1 DEF lens, blockLen
<1>4. dataLens(bs) = [k \in 1..Len(bs) |-> bs[k].dataLen]
  BY <1>1 DEF dataLens
<1> QED BY <1>1, <1>2, <1>3, <1>4

\* lenTo starts at 0, grows by the length of each block and never falls.
LEMMA LFacts ==
  ASSUME NEW bs \in Seq(Blk)
  PROVE  /\ L(bs, 0) = 0
         /\ \A i \in 0..Len(bs) : L(bs, i) \in Nat
         /\ \A i \in 1..Len(bs) : L(bs, i) = L(bs, i - 1) + (bs[i].gap + bs[i].dataLen)
         /\ \A i \in 0..Len(bs) : \A j \in i..Len(bs) : L(bs, i) <= L(bs, j)
<1>1. /\ L(bs, 0) = 0
      /\ \A i \in 0..Len(bs) : L(bs, i) \in Nat
      /\ \A i \in 1..Len(bs) : L(bs, i) = L(bs, i - 1) + lens(bs)[i]
  BY LensType, SumFacts DEF L
<1>2. \A i \in 0..Len(bs) : \A j \in i..Len(bs) : L(bs, i) <= L(bs, j)
  BY LensType, SumGrows DEF L
<1> QED BY <1>1, <1>2, LensType

\* So does dataTo, by the data of each block.
LEMMA DFacts ==
  ASSUME NEW bs \in Seq(Blk)
  PROVE  /\ D(bs, 0) = 0
         /\ \A i \in 0..Len(bs) : D(bs, i) \in Nat
         /\ \A i \in 1..Len(bs) : D(bs, i) = D(bs, i - 1) + bs[i].dataLen
         /\ \A i \in 0..Len(bs) : \A j \in i..Len(bs) : D(bs, i) <= D(bs, j)
<1>1. /\ D(bs, 0) = 0
      /\ \A i \in 0..Len(bs) : D(bs, i) \in Nat
      /\ \A i \in 1..Len(bs) : D(bs, i) = D(bs, i - 1) + dataLens(bs)[i]
  BY LensType, SumFacts DEF D
<1>2. \A i \in 0..Len(bs) : \A j \in i..Len(bs) : D(bs, i) <= D(bs, j)
  BY LensType, SumGrows DEF D
<1> QED BY <1>1, <1>2, LensType

\* A position is lost when it lies in the gap of some block.
LEMMA LostMember ==
  ASSUME NEW bs \in Seq(Blk), NEW c \in Int, NEW q
  PROVE  q \in LostIn(bs, c) <=>
           \E i \in 1..Len(bs) :
             q \in (c + L(bs, i - 1) + 1)..(c + L(bs, i - 1) + bs[i].gap)
  BY DEF LostIn

\* What block.discard leaves of a block and takes from it.
LEMMA TrimFacts ==
  ASSUME NEW x \in Blk, NEW t \in Nat, t < x.gap + x.dataLen
  PROVE  /\ trimmed(x, t) \in Blk /\ taken(x, t) \in Nat /\ taken(x, t) <= x.dataLen
         /\ trimmed(x, t).dataLen = x.dataLen - taken(x, t)
         /\ trimmed(x, t).gap + trimmed(x, t).dataLen = (x.gap + x.dataLen) - t
         /\ x.gap + taken(x, t) = t + trimmed(x, t).gap
         /\ trimmed(x, t).gap > 0 => x.gap = t + trimmed(x, t).gap
         /\ x.gap > t => x.gap = t + trimmed(x, t).gap
<1>1. x.gap \in Nat /\ x.dataLen \in Nat
  BY DEF Blk
<1>2. CASE x.gap > t
  <2>1. taken(x, t) = 0 /\ trimmed(x, t) = [gap |-> x.gap - t, dataLen |-> x.dataLen - 0]
    BY <1>2 DEF taken, trimmed
  <2>2. x.gap - t \in Nat /\ x.dataLen - 0 = x.dataLen
    BY <1>1, <1>2
  <2>3. trimmed(x, t) \in Blk
    BY <1>1, <2>1, <2>2 DEF Blk
  <2> QED BY <1>1, <1>2, <2>1, <2>2, <2>3
<1>3. CASE ~(x.gap > t)
  <2>1. taken(x, t) = t - x.gap /\ trimmed(x, t) = [gap |-> 0, dataLen |-> x.dataLen - (t - x.gap)]
    BY <1>3 DEF taken, trimmed
  <2>2. t - x.gap \in Nat /\ x.dataLen - (t - x.gap) \in Nat
    BY <1>1, <1>3
  <2>3. trimmed(x, t) \in Blk
    BY <1>1, <2>1, <2>2 DEF Blk
  <2> QED BY <1>1, <1>3, <2>1, <2>2, <2>3
<1> QED BY <1>2, <1>3

\* The blocks that remain when block i has become x and those before it go.
Rest(bs, i, x) == <<x>> \o SubSeq(bs, i + 1, Len(bs))

\* What Rest consists of.
LEMMA RestFacts ==
  ASSUME NEW bs \in Seq(Blk), NEW i \in 1..Len(bs), NEW x \in Blk
  PROVE  /\ Rest(bs, i, x) \in Seq(Blk) /\ Len(Rest(bs, i, x)) = Len(bs) - i + 1
         /\ Rest(bs, i, x)[1] = x
         /\ \A k \in 2..(Len(bs) - i + 1) : Rest(bs, i, x)[k] = bs[i + k - 1]
<1> DEFINE y == SubSeq(bs, i + 1, Len(bs))
           m == Len(bs) - i
<1>1. y \in Seq(Blk) /\ Len(y) = m /\ m \in Nat
  OBVIOUS
<1>2. \A k \in 1..m : y[k] = bs[i + k]
  OBVIOUS
<1>3. Rest(bs, i, x) = <<x>> \o y
  BY DEF Rest
<1> HIDE DEF y
<1>4. Rest(bs, i, x) \in Seq(Blk) /\ Len(Rest(bs, i, x)) = m + 1
  <2>1. <<x>> \in Seq(Blk) /\ Len(<<x>>) = 1
    OBVIOUS
  <2> HIDE DEF m
  <2>2. <<x>> \o y \in Seq(Blk) /\ Len(<<x>> \o y) = 1 + Len(y)
    BY <1>1, <2>1
  <2> QED BY <1>1, <1>3, <2>2
<1>5. Rest(bs, i, x)[1] = x /\ \A k \in 2..(m + 1) : Rest(bs, i, x)[k] = y[k - 1]
  BY <1>1, <1>3
<1>6. ASSUME NEW k \in 2..(m + 1) PROVE Rest(bs, i, x)[k] = bs[i + k - 1]
  <2>1. k - 1 \in 1..m /\ i + (k - 1) = i + k - 1
    OBVIOUS
  <2> QED BY <1>2, <1>5, <2>1
<1>7. m + 1 = Len(bs) - i + 1
  OBVIOUS
<1> QED BY <1>4, <1>5, <1>6, <1>7

\* bs2 is what remains of bs when n positions with o bytes are gone.
Remains(bs2, bs, i, n, o) ==
  /\ Len(bs2) = Len(bs) - i + 1
  /\ \A k \in 2..Len(bs2) : bs2[k] = bs[i + k - 1]
  /\ bs2[1].gap + bs2[1].dataLen = L(bs, i) - n
  /\ bs2[1].dataLen = D(bs, i) - o

\* The sums over what remains are those of the whole, less what was cut.
LEMMA RestSums ==
  ASSUME NEW bs \in Seq(Blk), NEW bs2 \in Seq(Blk), NEW i \in 1..Len(bs),
         NEW n \in Nat, NEW o \in Nat,
         Remains(bs2, bs, i, n, o), NEW j \in 1..Len(bs2)
  PROVE  L(bs2, j) = L(bs, i + j - 1) - n /\ D(bs2, j) = D(bs, i + j - 1) - o
<1>1. /\ lens(bs) \in [1..Len(bs) -> Nat] /\ dataLens(bs) \in [1..Len(bs) -> Nat]
      /\ lens(bs2) \in [1..Len(bs2) -> Nat] /\ dataLens(bs2) \in [1..Len(bs2) -> Nat]
      /\ Len(bs) \in Nat /\ Len(bs2) \in Nat /\ Len(bs2) = Len(bs) - i + 1
  BY LensType DEF Remains
<1>2. \A k \in 1..Len(bs2) : lens(bs2)[k] = bs2[k].gap + bs2[k].dataLen /\ dataLens(bs2)[k] = bs2[k].dataLen
  BY LensType
<1>3. \A k \in 1..Len(bs) : lens(bs)[k] = bs[k].gap + bs[k].dataLen /\ dataLens(bs)[k] = bs[k].dataLen
  BY LensType
<1>4. \A k \in 2..Len(bs2) : k \in 1..Len(bs2) /\ i + k - 1 \in 1..Len(bs)
  BY <1>1
<1>5. 1 \in 1..Len(bs2)
  BY <1>1
<1>6. lens(bs2)[1] = SumTo(lens(bs), i) - n /\ dataLens(bs2)[1] = SumTo(dataLens(bs), i) - o
  BY <1>2, <1>5 DEF L, D, Remains
<1>7. \A k \in 2..Len(bs2) : lens(bs2)[k] = lens(bs)[i + k - 1] /\ dataLens(bs2)[k] = dataLens(bs)[i + k - 1]
  <2> TAKE k \in 2..Len(bs2)
  <2>1. bs2[k] = bs[i + k - 1]
    BY DEF Remains
  <2> QED BY <1>2, <1>3, <1>4, <2>1
<1> DEFINE f == lens(bs)
           g == lens(bs2)
           df == dataLens(bs)
           dg == dataLens(bs2)
           m == Len(bs)
           m2 == Len(bs2)
<1>8. L(bs2, j) = L(bs, i + j - 1) - n
  <2>1. m \in Nat /\ i \in 1..m /\ m2 \in Nat /\ j \in 1..m2
    BY <1>1
  <2>2. Shifted(g, m2, f, m, i, n)
    BY <1>1, <1>6, <1>7 DEF Shifted
  <2> HIDE DEF f, g, m, m2
  <2>3. SumTo(g, j) = SumTo(f, i + j - 1) - n
    BY <2>1, <2>2, SumShift
  <2> QED BY <2>3 DEF L, f, g
<1>9. D(bs2, j) = D(bs, i + j - 1) - o
  <2>1. m \in Nat /\ i \in 1..m /\ m2 \in Nat /\ j \in 1..m2
    BY <1>1
  <2>2. Shifted(dg, m2, df, m, i, o)
    BY <1>1, <1>6, <1>7 DEF Shifted
  <2> HIDE DEF df, dg, m, m2
  <2>3. SumTo(dg, j) = SumTo(df, i + j - 1) - o
    BY <2>1, <2>2, SumShift
  <2> QED BY <2>3 DEF D, df, dg
<1> QED BY <1>8, <1>9

\* The same of the block that is cut: x2 remains of x, which starts at
\* position p and byte q.
CutBlock(x2, x, p, q, n, o) ==
  /\ p <= n /\ q <= o /\ o <= q + x.dataLen
  /\ x2.dataLen = x.dataLen - (o - q)
  /\ p + x.gap + (o - q) = n + x2.gap
  /\ x2.gap > 0 => o = q
  /\ p + x.gap > n => o = q
  /\ x2.gap + x2.dataLen > 0

\* Blocks that were neither empty nor adjacent still are not.
LEMMA CutProper ==
  ASSUME NEW bs, Proper(bs), NEW bs2 \in Seq(Blk), NEW i \in 1..Len(bs), NEW n \in Nat, NEW o \in Nat,
         Remains(bs2, bs, i, n, o), CutBlock(bs2[1], bs[i], L(bs, i - 1), D(bs, i - 1), n, o)
  PROVE  Proper(bs2)
<1>1. /\ bs \in Seq(Blk) /\ Len(bs) \in Nat
      /\ \A k \in 1..Len(bs) : blockLen(bs[k]) > 0 /\ (k > 1 => bs[k].gap > 0)
  BY DEF Proper
<1>2. Len(bs2) \in Nat /\ Len(bs2) = Len(bs) - i + 1 /\ \A k \in 2..Len(bs2) : bs2[k] = bs[i + k - 1]
  BY DEF Remains
<1>3. ASSUME NEW k \in 1..Len(bs2) PROVE blockLen(bs2[k]) > 0 /\ (k > 1 => bs2[k].gap > 0)
  <2>1. CASE k = 1
    BY <2>1 DEF blockLen, CutBlock
  <2>2. CASE k # 1
    <3>1. k \in 2..Len(bs2) /\ i + k - 1 \in 1..Len(bs) /\ i + k - 1 > 1
      BY <1>1, <1>2, <2>2, SMTT(40)
    <3> QED BY <1>1, <1>2, <3>1
  <2> QED BY <2>1, <2>2
<1> QED BY <1>3 DEF Proper

\* What SubSeq keeps of the end of a sequence.
LEMMA TailFacts ==
  ASSUME NEW b \in Seq(Int), NEW o \in 0..Len(b)
  PROVE  /\ SubSeq(b, o + 1, Len(b)) \in Seq(Int) /\ Len(SubSeq(b, o + 1, Len(b))) = Len(b) - o
         /\ \A x \in 1..(Len(b) - o) : SubSeq(b, o + 1, Len(b))[x] = b[o + x]
  OBVIOUS

\* Where block k of what remains was before.
LEMMA CutIndex ==
  ASSUME NEW m \in Nat, NEW i \in 1..m, NEW m2, m2 = m - i + 1, NEW k \in 1..m2, k # 1
  PROVE  /\ k \in 2..m2 /\ k - 1 \in 1..m2 /\ k - 1 \in 0..m2 /\ i + (k - 1) - 1 = (i + k - 1) - 1
         /\ i + k - 1 \in 1..m /\ (i + k - 1) - 1 \in 0..m
  OBVIOUS

\* The bytes behind a cut are those the remaining blocks place behind the
\* moved cursor.
LEMMA CutRep ==
  ASSUME NEW bs, NEW b, NEW c, Rep(bs, b, c), NEW bs2 \in Seq(Blk), NEW i \in 1..Len(bs),
         NEW n \in Nat, NEW o \in 0..Len(b), Remains(bs2, bs, i, n, o),
         CutBlock(bs2[1], bs[i], L(bs, i - 1), D(bs, i - 1), n, o)
  PROVE  /\ Rep(bs2, SubSeq(b, o + 1, Len(b)), c + n)
         /\ L(bs2, Len(bs2)) = L(bs, Len(bs)) - n
<1> DEFINE b2 == SubSeq(b, o + 1, Len(b))
<1>1. /\ Proper(bs) /\ bs \in Seq(Blk) /\ Len(bs) \in Nat
      /\ b \in Seq(Int) /\ Len(b) \in Nat /\ c \in Int
      /\ D(bs, Len(bs)) = Len(b)
  BY DEF Rep, Proper, Content
<1>2. \A k \in 1..Len(bs) : \A j \in 1..bs[k].dataLen :
         b[D(bs, k - 1) + j] = c + L(bs, k - 1) + bs[k].gap + j
  BY DEF Rep, Content
<1>3. /\ Len(bs2) \in Nat \ {0} /\ Len(bs2) = Len(bs) - i + 1
      /\ \A k \in 2..Len(bs2) : bs2[k] = bs[i + k - 1]
  BY <1>1 DEF Remains
<1>4. \A k \in 1..Len(bs2) : L(bs2, k) = L(bs, i + k - 1) - n /\ D(bs2, k) = D(bs, i + k - 1) - o
  BY <1>1, RestSums
<1>5. b2 \in Seq(Int) /\ Len(b2) = Len(b) - o /\ \A x \in 1..(Len(b) - o) : b2[x] = b[o + x]
  BY <1>1, TailFacts
<1> HIDE DEF b2
<1>6. /\ D(bs2, Len(bs2)) = Len(b2)
      /\ L(bs2, Len(bs2)) = L(bs, Len(bs)) - n
  <2>1. i + Len(bs2) - 1 = Len(bs) /\ Len(bs2) \in 1..Len(bs2)
    BY <1>1, <1>3
  <2> QED BY <1>1, <1>4, <1>5, <2>1
<1>7. /\ \A k \in 1..Len(bs) : bs[k].gap \in Nat /\ bs[k].dataLen \in Nat
      /\ \A k \in 1..Len(bs2) : bs2[k].gap \in Nat /\ bs2[k].dataLen \in Nat
  BY <1>1, LensType
<1>8. \A k \in 0..Len(bs) : L(bs, k) \in Nat /\ D(bs, k) \in Nat /\ D(bs, k) <= Len(b)
  <2>1. \A k \in 0..Len(bs) : L(bs, k) \in Nat /\ D(bs, k) \in Nat
    BY <1>1, LFacts, DFacts
  <2>2. \A k \in 0..Len(bs) : Len(bs) \in k..Len(bs)
    BY <1>1
  <2>3. \A k \in 0..Len(bs) : D(bs, k) <= Len(b)
    BY <1>1, <2>2, DFacts
  <2> QED BY <2>1, <2>3
<1>9. \A k \in 1..Len(bs) : k - 1 \in 0..Len(bs) /\ k \in 0..Len(bs) /\ D(bs, k) = D(bs, k - 1) + bs[k].dataLen
  BY <1>1, DFacts
<1>10. ASSUME NEW k \in 1..Len(bs2), NEW j \in 1..bs2[k].dataLen
       PROVE  b2[D(bs2, k - 1) + j] = (c + n) + L(bs2, k - 1) + bs2[k].gap + j
  <2>1. CASE k = 1
    <3> DEFINE q == D(bs, i - 1)
               p == L(bs, i - 1)
               g == bs[i].gap
               d == bs[i].dataLen
               gg == bs2[1].gap
    <3>1. D(bs2, 0) = 0 /\ L(bs2, 0) = 0
      BY LFacts, DFacts
    <3>2. q \in Nat /\ p \in Nat /\ g \in Nat /\ d \in Nat /\ gg \in Nat /\ j \in Nat
      <4>1. 1 \in 1..Len(bs2) /\ i - 1 \in 0..Len(bs) /\ j \in Nat
        BY <1>1, <1>3, <1>9
      <4> QED BY <1>7, <1>8, <4>1
    <3>3. q <= o /\ p + g + (o - q) = n + gg /\ j <= d - (o - q) /\ j >= 1
      BY <2>1 DEF CutBlock
    <3>4. q + d <= Len(b)
      BY <1>8, <1>9
    <3> HIDE DEF q, p, g, d, gg
    <3>5. (o - q) + j \in 1..d /\ j \in 1..(Len(b) - o) /\ q + ((o - q) + j) = o + j
      BY <1>1, <3>2, <3>3, <3>4, SMTT(40)
    <3>6. b[q + ((o - q) + j)] = c + p + g + ((o - q) + j)
      BY <1>2, <3>5 DEF q, p, g, d
    <3>7. b2[j] = b[o + j]
      BY <1>5, <3>5
    <3>8. c + p + g + ((o - q) + j) = (c + n) + 0 + gg + j
      BY <1>1, <3>2, <3>3
    <3>9. k - 1 = 0 /\ 0 + j = j
      BY <2>1, <3>2
    <3> QED BY <2>1, <3>1, <3>5, <3>6, <3>7, <3>8, <3>9 DEF gg
  <2>2. CASE k # 1
    <3> DEFINE l == i + k - 1
               q == D(bs, l - 1)
               p == L(bs, l - 1)
               d == bs[l].dataLen
    <3>1. /\ k \in 2..Len(bs2) /\ k - 1 \in 1..Len(bs2) /\ i + (k - 1) - 1 = l - 1
          /\ l \in 1..Len(bs) /\ l - 1 \in 0..Len(bs)
      BY <1>1, <1>3, <2>2, CutIndex
    <3>2. bs2[k] = bs[l] /\ L(bs2, k - 1) = p - n /\ D(bs2, k - 1) = q - o
      BY <1>3, <1>4, <3>1
    <3>3. q - o \in Nat
      <4>1. \A kk \in 0..Len(bs2) : D(bs2, kk) \in Nat
        BY DFacts
      <4>2. k - 1 \in 0..Len(bs2)
        BY <1>1, <1>3, <2>2, CutIndex
      <4> QED BY <3>2, <4>1, <4>2
    <3>4. q \in Nat /\ p \in Nat /\ d \in Nat /\ bs[l].gap \in Nat /\ j \in 1..d /\ q + d <= Len(b)
      <4>1. D(bs, l) = q + d /\ D(bs, l) <= Len(b)
        BY <1>8, <1>9, <3>1
      <4> QED BY <1>7, <1>8, <3>1, <3>2, <4>1
    <3>5. b[q + j] = c + p + bs[l].gap + j
      BY <1>2, <3>1, <3>4
    <3> HIDE DEF l, q, p, d
    <3>6. (q - o) + j \in 1..(Len(b) - o) /\ o + ((q - o) + j) = q + j
      <4> DEFINE z == Len(b)
      <4>1. o \in Nat /\ z \in Nat /\ q + d <= z
        BY <1>1, <3>4
      <4> HIDE DEF z
      <4>2. (q - o) + j \in 1..(z - o) /\ o + ((q - o) + j) = q + j
        BY <3>3, <3>4, <4>1
      <4> QED BY <4>2 DEF z
    <3>7. b2[(q - o) + j] = b[q + j]
      BY <1>5, <3>6
    <3>8. c + p + bs[l].gap + j = (c + n) + (p - n) + bs[l].gap + j
      BY <1>1, <3>4
    <3> QED BY <3>2, <3>5, <3>7, <3>8
  <2> QED BY <2>1, <2>2
<1>11. Proper(bs2)
  BY <1>1, CutProper
<1>12. Content(bs2, b2, c + n)
  BY <1>6, <1>10 DEF Content
<1>13. c + n \in Int
  BY <1>1
<1>14. Rep(bs2, b2, c + n)
  BY <1>5, <1>11, <1>12, <1>13 DEF Rep
<1> QED BY <1>6, <1>14 DEF b2

Beyond(S, p) == {q \in S : q > p}

\* The lost positions that remain are those behind the cut.
LEMMA CutLost ==
  ASSUME NEW bs \in Seq(Blk), NEW c \in Int, NEW bs2 \in Seq(Blk), NEW i \in 1..Len(bs),
         NEW n \in Nat, NEW o \in Nat, Remains(bs2, bs, i, n, o),
         CutBlock(bs2[1], bs[i], L(bs, i - 1), D(bs, i - 1), n, o)
  PROVE  LostIn(bs2, c + n) = Beyond(LostIn(bs, c), c + n)
<1>1. /\ Len(bs) \in Nat /\ Len(bs2) \in Nat \ {0} /\ Len(bs2) = Len(bs) - i + 1
      /\ \A k \in 2..Len(bs2) : bs2[k] = bs[i + k - 1]
  BY DEF Remains
<1>2. \A k \in 1..Len(bs2) : L(bs2, k) = L(bs, i + k - 1) - n
  BY RestSums
<1>3. L(bs2, 0) = 0 /\ \A k \in 0..Len(bs2) : L(bs2, k) \in Nat
  BY LFacts
<1>4. /\ \A k \in 1..Len(bs) : bs[k].gap \in Nat /\ bs[k].dataLen \in Nat
      /\ \A k \in 1..Len(bs2) : bs2[k].gap \in Nat
  BY LensType
<1>5. /\ \A k \in 0..Len(bs) : L(bs, k) \in Nat
      /\ \A k \in 1..Len(bs) : L(bs, k) = L(bs, k - 1) + (bs[k].gap + bs[k].dataLen)
      /\ \A k \in 0..Len(bs) : \A j \in k..Len(bs) : L(bs, k) <= L(bs, j)
  BY LFacts
<1> DEFINE p == L(bs, i - 1)
           g == bs[i].gap
           gg == bs2[1].gap
<1>6. p \in Nat /\ g \in Nat /\ gg \in Nat /\ D(bs, i - 1) \in Nat /\ 1 \in 1..Len(bs2)
  <2>1. i - 1 \in 0..Len(bs) /\ 1 \in 1..Len(bs2)
    BY <1>1
  <2> QED BY <1>4, <1>5, <2>1, DFacts
<1>7. /\ p <= n /\ p + g <= n + gg
      /\ gg > 0 => p + g = n + gg
      /\ p + g > n => p + g = n + gg
  BY <1>6, SMTT(40) DEF CutBlock
<1>8. ASSUME NEW k \in 2..Len(bs2)
      PROVE  /\ i + k - 1 \in 1..Len(bs) /\ bs2[k] = bs[i + k - 1]
             /\ (c + n) + L(bs2, k - 1) = c + L(bs, (i + k - 1) - 1)
             /\ L(bs2, k - 1) \in Nat
  <2>1. /\ k - 1 \in 1..Len(bs2) /\ k - 1 \in 0..Len(bs2) /\ i + (k - 1) - 1 = (i + k - 1) - 1
        /\ i + k - 1 \in 1..Len(bs) /\ (i + k - 1) - 1 \in 0..Len(bs)
    BY <1>1, CutIndex
  <2>2. L(bs2, k - 1) = L(bs, (i + k - 1) - 1) - n
    BY <1>2, <2>1
  <2>3. L(bs, (i + k - 1) - 1) \in Nat
    BY <1>5, <2>1
  <2>4. (c + n) + L(bs2, k - 1) = c + L(bs, (i + k - 1) - 1)
    BY <2>2, <2>3
  <2>5. bs2[k] = bs[i + k - 1] /\ L(bs2, k - 1) \in Nat
    BY <1>1, <1>3, <2>1
  <2> QED BY <2>1, <2>4, <2>5
<1> HIDE DEF p, g, gg
<1>9. ASSUME NEW q \in LostIn(bs2, c + n) PROVE q \in LostIn(bs, c) /\ q > c + n
  <2>0. c + n \in Int
    OBVIOUS
  <2>1. PICK k \in 1..Len(bs2) :
          q \in ((c + n) + L(bs2, k - 1) + 1)..((c + n) + L(bs2, k - 1) + bs2[k].gap)
    BY <2>0, LostMember
  <2>2. CASE k = 1
    <3>1. q \in ((c + n) + 0 + 1)..((c + n) + 0 + gg)
      <4>1. k - 1 = 0
        BY <2>2
      <4> QED BY <1>3, <2>1, <2>2, <4>1 DEF gg
    <3>2. q \in (c + p + 1)..(c + p + g) /\ q > c + n
      BY <1>6, <1>7, <3>1
    <3> QED BY <3>2, LostMember DEF p, g
  <2>3. CASE k # 1
    <3>1. k \in 2..Len(bs2)
      BY <1>1, <2>3
    <3> DEFINE l == i + k - 1
               x == (c + n) + L(bs2, k - 1)
    <3>2. /\ l \in 1..Len(bs) /\ bs2[k] = bs[l] /\ x = c + L(bs, l - 1)
          /\ L(bs2, k - 1) \in Nat /\ bs[l].gap \in Nat
      BY <1>4, <1>8, <3>1
    <3>3. q \in (c + L(bs, l - 1) + 1)..(c + L(bs, l - 1) + bs[l].gap)
      BY <2>1, <3>2
    <3>4. q > c + n
      BY <2>1, <3>2, SMTT(40)
    <3> QED BY <3>2, <3>3, <3>4, LostMember
  <2> QED BY <2>2, <2>3
<1>10. ASSUME NEW q \in LostIn(bs, c), q > c + n PROVE q \in LostIn(bs2, c + n)
  <2>0. c + n \in Int
    OBVIOUS
  <2>1. PICK l \in 1..Len(bs) : q \in (c + L(bs, l - 1) + 1)..(c + L(bs, l - 1) + bs[l].gap)
    BY LostMember
  <2>2. l - 1 \in 0..Len(bs) /\ l \in 0..Len(bs) /\ i - 1 \in 0..Len(bs)
    BY <1>1
  <2>3. /\ L(bs, l - 1) \in Nat /\ L(bs, l) = L(bs, l - 1) + (bs[l].gap + bs[l].dataLen)
        /\ bs[l].gap \in Nat /\ bs[l].dataLen \in Nat
    BY <1>4, <1>5, <2>2
  <2>4. ~(l < i)
    <3> SUFFICES ASSUME l < i PROVE FALSE
      OBVIOUS
    <3>1. i - 1 \in l..Len(bs)
      BY <1>1
    <3>2. L(bs, l) <= p
      BY <1>5, <2>2, <3>1 DEF p
    <3>3. q \in Int /\ q <= c + L(bs, l - 1) + bs[l].gap
      BY <2>1, <2>3
    <3>4. q <= c + L(bs, l) /\ L(bs, l) \in Nat
      <4> DEFINE x == L(bs, l - 1)
                 y == L(bs, l)
                 u == bs[l].gap
                 v == bs[l].dataLen
      <4>1. x \in Nat /\ u \in Nat /\ v \in Nat /\ y = x + (u + v) /\ q <= c + x + u
        BY <2>3, <3>3
      <4> HIDE DEF x, y, u, v
      <4>2. q <= c + y /\ y \in Nat
        BY <3>3, <4>1
      <4> QED BY <4>2 DEF y
    <3> QED BY <1>6, <1>7, <1>10, <3>2, <3>3, <3>4
  <2>5. CASE l = i
    <3>1. q \in (c + p + 1)..(c + p + g)
      BY <2>1, <2>5 DEF p, g
    <3>2. q \in ((c + n) + 0 + 1)..((c + n) + 0 + gg)
      BY <1>6, <1>7, <1>10, <3>1
    <3>3. q \in ((c + n) + L(bs2, 1 - 1) + 1)..((c + n) + L(bs2, 1 - 1) + bs2[1].gap)
      <4>1. 1 - 1 = 0
        OBVIOUS
      <4> QED BY <1>3, <3>2, <4>1 DEF gg
    <3> QED BY <1>6, <2>0, <3>3, LostMember
  <2>6. CASE l > i
    <3> DEFINE k == l - i + 1
    <3>1. k \in 2..Len(bs2) /\ i + k - 1 = l /\ k \in 1..Len(bs2)
      BY <1>1, <2>6
    <3>2. bs2[k] = bs[l] /\ (c + n) + L(bs2, k - 1) = c + L(bs, l - 1)
      BY <1>8, <3>1
    <3> HIDE DEF k
    <3>3. q \in ((c + n) + L(bs2, k - 1) + 1)..((c + n) + L(bs2, k - 1) + bs2[k].gap)
      BY <2>1, <3>2
    <3> QED BY <2>0, <3>1, <3>3, LostMember
  <2> QED BY <1>1, <2>4, <2>5, <2>6
<1> QED BY <1>9, <1>10 DEF Beyond

\* Sequences of blocks that begin alike have the same sums there.
LEMMA SameSums ==
  ASSUME NEW bs \in Seq(Blk), NEW bs2 \in Seq(Blk), NEW h \in Nat, h <= Len(bs), h <= Len(bs2),
         \A k \in 1..h : bs2[k] = bs[k], NEW j \in 0..h
  PROVE  L(bs2, j) = L(bs, j) /\ D(bs2, j) = D(bs, j)
<1>1. /\ lens(bs) \in [1..Len(bs) -> Nat] /\ dataLens(bs) \in [1..Len(bs) -> Nat]
      /\ lens(bs2) \in [1..Len(bs2) -> Nat] /\ dataLens(bs2) \in [1..Len(bs2) -> Nat]
      /\ Len(bs) \in Nat /\ Len(bs2) \in Nat
  BY LensType
<1>2. /\ \A k \in 1..Len(bs2) : lens(bs2)[k] = bs2[k].gap + bs2[k].dataLen /\ dataLens(bs2)[k] = bs2[k].dataLen
      /\ \A k \in 1..Len(bs) : lens(bs)[k] = bs[k].gap + bs[k].dataLen /\ dataLens(bs)[k] = bs[k].dataLen
  BY LensType
<1>3. \A k \in 1..j : k \in 1..h /\ k \in 1..Len(bs) /\ k \in 1..Len(bs2)
  BY <1>1
<1>4. \A k \in 1..j : lens(bs2)[k] = lens(bs)[k] /\ dataLens(bs2)[k] = dataLens(bs)[k]
  BY <1>2, <1>3
<1>5. j \in 0..Len(bs2) /\ j <= Len(bs)
  BY <1>1
<1> DEFINE f == lens(bs)
           g == lens(bs2)
           df == dataLens(bs)
           dg == dataLens(bs2)
           m == Len(bs)
           n == Len(bs2)
<1>6. m \in Nat /\ n \in Nat /\ j \in Nat
  BY <1>1
<1>a. Alike(g, n, f, m, j) /\ Alike(dg, n, df, m, j)
  BY <1>1, <1>4, <1>5 DEF Alike
<1> HIDE DEF f, g, df, dg, m, n
<1>7. SumTo(g, j) = SumTo(f, j)
  BY <1>6, <1>a, SumPrefix
<1>8. SumTo(dg, j) = SumTo(df, j)
  BY <1>6, <1>a, SumPrefix
<1> QED BY <1>7, <1>8 DEF L, D, f, g, df, dg

\* bs2 extends bs by data bytes, behind a gap of skip positions: in a block of
\* their own, or in the last block.
Extends(bs2, bs, skip, count) ==
  /\ bs2 \in Seq(Blk) /\ Len(bs2) \in Nat \ {0}
  /\ \A k \in 1..(Len(bs2) - 1) : bs2[k] = bs[k]
  /\ \/ /\ Len(bs2) = Len(bs) + 1
        /\ bs2[Len(bs2)] = [gap |-> skip, dataLen |-> count]
     \/ /\ Len(bs2) = Len(bs) /\ skip = 0
        /\ bs2[Len(bs2)] = [gap |-> bs[Len(bs)].gap, dataLen |-> bs[Len(bs)].dataLen + count]

\* The sums over the first blocks are unchanged by a write and the last one
\* grows by what was written.
LEMMA ExtendSums ==
  ASSUME NEW bs \in Seq(Blk), NEW bs2, NEW skip \in Nat, NEW count \in Nat,
         Extends(bs2, bs, skip, count)
  PROVE  /\ \A k \in 0..(Len(bs2) - 1) : L(bs2, k) = L(bs, k) /\ D(bs2, k) = D(bs, k)
         /\ L(bs2, Len(bs2)) = L(bs, Len(bs)) + skip + count
         /\ D(bs2, Len(bs2)) = D(bs, Len(bs)) + count
<1> DEFINE m == Len(bs2)
<1>1. /\ bs2 \in Seq(Blk) /\ m \in Nat \ {0} /\ Len(bs) \in Nat
      /\ \A k \in 1..(m - 1) : bs2[k] = bs[k]
  BY DEF Extends
<1>2. m - 1 \in Nat /\ m - 1 <= Len(bs) /\ m - 1 <= Len(bs2) /\ m \in 1..Len(bs2) /\ m - 1 \in 0..(m - 1)
  BY <1>1 DEF Extends
<1>3. \A k \in 0..(m - 1) : L(bs2, k) = L(bs, k) /\ D(bs2, k) = D(bs, k)
  BY <1>1, <1>2, SameSums
<1>4. /\ L(bs2, m) = L(bs2, m - 1) + (bs2[m].gap + bs2[m].dataLen)
      /\ D(bs2, m) = D(bs2, m - 1) + bs2[m].dataLen
  BY <1>1, <1>2, LFacts, DFacts
<1>5. m - 1 \in 0..Len(bs)
  BY <1>1, <1>2
<1>6. L(bs, m - 1) \in Nat /\ D(bs, m - 1) \in Nat
  BY <1>5, LFacts, DFacts
<1>7. L(bs2, m) = L(bs, Len(bs)) + skip + count /\ D(bs2, m) = D(bs, Len(bs)) + count
  <2>1. CASE m = Len(bs) + 1 /\ bs2[m] = [gap |-> skip, dataLen |-> count]
    <3>1. m - 1 = Len(bs) /\ bs2[m].gap = skip /\ bs2[m].dataLen = count
      BY <1>1, <2>1
    <3> DEFINE p == L(bs, m - 1)
               q == D(bs, m - 1)
    <3>2. /\ L(bs2, m) = p + (skip + count) /\ D(bs2, m) = q + count
          /\ L(bs, Len(bs)) = p /\ D(bs, Len(bs)) = q
      BY <1>2, <1>3, <1>4, <3>1
    <3>3. p \in Nat
      BY <1>6
    <3> HIDE DEF p, q
    <3>4. p + (skip + count) = p + skip + count
      BY <3>3
    <3> QED BY <3>2, <3>4
  <2>2. CASE /\ m = Len(bs) /\ skip = 0
             /\ bs2[m] = [gap |-> bs[Len(bs)].gap, dataLen |-> bs[Len(bs)].dataLen + count]
    <3>1. bs2[m].gap = bs[m].gap /\ bs2[m].dataLen = bs[m].dataLen + count /\ m \in 1..Len(bs)
      BY <1>1, <2>2
    <3>2. /\ L(bs, m) = L(bs, m - 1) + (bs[m].gap + bs[m].dataLen)
          /\ D(bs, m) = D(bs, m - 1) + bs[m].dataLen
          /\ bs[m].gap \in Nat /\ bs[m].dataLen \in Nat
      BY <3>1, LFacts, DFacts, LensType
    <3> DEFINE p == L(bs, m - 1)
               q == D(bs, m - 1)
               u == bs[m].gap
               v == bs[m].dataLen
    <3>3. /\ L(bs2, m) = p + (u + (v + count)) /\ D(bs2, m) = q + (v + count)
          /\ L(bs, Len(bs)) = p + (u + v) /\ D(bs, Len(bs)) = q + v
      BY <1>2, <1>3, <1>4, <2>2, <3>1, <3>2
    <3>4. p \in Nat /\ q \in Nat /\ u \in Nat /\ v \in Nat
      BY <1>6, <3>2
    <3> HIDE DEF p, q, u, v
    <3>5. p + (u + (v + count)) = (p + (u + v)) + 0 + count /\ q + (v + count) = (q + v) + count
      BY <3>4
    <3> QED BY <2>2, <3>3, <3>5
  <2> QED BY <2>1, <2>2 DEF Extends
<1> QED BY <1>3, <1>7

\* data is what follows the gap that bs2 has in addition.
Follows(data, bs2, bs, c, skip) ==
  /\ Extends(bs2, bs, skip, Len(data)) /\ skip + Len(data) > 0
  /\ Len(bs2) > Len(bs) => skip > 0 \/ Len(bs) = 0
  /\ \A j \in 1..Len(data) : data[j] = c + L(bs, Len(bs)) + skip + j

\* Bytes written after a gap are where the blocks place them.
LEMMA ExtendRep ==
  ASSUME NEW bs, NEW b, NEW c, Rep(bs, b, c), NEW skip \in Nat, NEW bs2, NEW data \in Seq(Int),
         Follows(data, bs2, bs, c, skip)
  PROVE  /\ Rep(bs2, b \o data, c)
         /\ L(bs2, Len(bs2)) = L(bs, Len(bs)) + skip + Len(data)
         /\ Len(b \o data) = Len(b) + Len(data)
<1> USE DEF Follows
<1> DEFINE m == Len(bs2)
           b2 == b \o data
           z == Len(data)
<1>1. /\ bs \in Seq(Blk) /\ Len(bs) \in Nat /\ Proper(bs)
      /\ b \in Seq(Int) /\ Len(b) \in Nat /\ c \in Int
      /\ D(bs, Len(bs)) = Len(b) /\ z \in Nat
  BY DEF Rep, Proper, Content
<1>2. \A k \in 1..Len(bs) : \A j \in 1..bs[k].dataLen :
         b[D(bs, k - 1) + j] = c + L(bs, k - 1) + bs[k].gap + j
  BY DEF Rep, Content
<1>3. /\ bs2 \in Seq(Blk) /\ m \in Nat \ {0}
      /\ \A k \in 1..(m - 1) : bs2[k] = bs[k]
      /\ \/ m = Len(bs) + 1 /\ bs2[m] = [gap |-> skip, dataLen |-> z]
         \/ /\ m = Len(bs) /\ skip = 0
            /\ bs2[m] = [gap |-> bs[Len(bs)].gap, dataLen |-> bs[Len(bs)].dataLen + z]
  BY DEF Extends
<1>4. /\ \A k \in 0..(m - 1) : L(bs2, k) = L(bs, k) /\ D(bs2, k) = D(bs, k)
      /\ L(bs2, m) = L(bs, Len(bs)) + skip + z
      /\ D(bs2, m) = D(bs, Len(bs)) + z
  BY <1>1, ExtendSums
<1>5. /\ b2 \in Seq(Int) /\ Len(b2) = Len(b) + z
      /\ \A x \in 1..Len(b) : b2[x] = b[x]
      /\ \A x \in 1..z : b2[Len(b) + x] = data[x]
  BY <1>1
<1> HIDE DEF b2, z
<1>6. \A k \in 1..Len(bs) : bs[k].gap \in Nat /\ bs[k].dataLen \in Nat /\ bs[k].gap + bs[k].dataLen > 0 /\ (k > 1 => bs[k].gap > 0)
  BY <1>1, LensType DEF Proper, blockLen
<1>7. Proper(bs2)
  <2>1. ASSUME NEW k \in 1..m PROVE bs2[k].gap + bs2[k].dataLen > 0 /\ (k > 1 => bs2[k].gap > 0)
    <3>1. CASE k < m
      <4>1. k \in 1..(m - 1) /\ k \in 1..Len(bs)
        BY <1>1, <1>3, <3>1
      <4> QED BY <1>3, <1>6, <4>1
    <3>2. CASE k = m /\ m = Len(bs) + 1 /\ bs2[m] = [gap |-> skip, dataLen |-> z]
      <4>1. m > Len(bs) /\ (k > 1 => Len(bs) # 0)
        BY <1>1, <3>2
      <4> QED BY <3>2, <4>1 DEF z
    <3>3. CASE /\ k = m /\ m = Len(bs)
               /\ bs2[m] = [gap |-> bs[Len(bs)].gap, dataLen |-> bs[Len(bs)].dataLen + z]
      <4>1. m \in 1..Len(bs)
        BY <1>1, <1>3, <3>3
      <4>2. bs2[m].gap = bs[m].gap /\ bs2[m].dataLen = bs[m].dataLen + z
        BY <3>3
      <4> QED BY <1>1, <1>6, <3>3, <4>1, <4>2, SMTT(40)
    <3> QED BY <1>3, <3>1, <3>2, <3>3
  <2> QED BY <1>3, <2>1 DEF Proper, blockLen
<1>8. \A k \in 0..Len(bs) : L(bs, k) \in Nat /\ D(bs, k) \in Nat /\ D(bs, k) <= Len(b)
  <2>1. \A k \in 0..Len(bs) : L(bs, k) \in Nat /\ D(bs, k) \in Nat
    BY <1>1, LFacts, DFacts
  <2>2. \A k \in 0..Len(bs) : Len(bs) \in k..Len(bs)
    BY <1>1
  <2>3. \A k \in 0..Len(bs) : D(bs, k) <= Len(b)
    BY <1>1, <2>2, DFacts
  <2> QED BY <2>1, <2>3
<1>9. \A k \in 1..Len(bs) : k - 1 \in 0..Len(bs) /\ k \in 0..Len(bs) /\ D(bs, k) = D(bs, k - 1) + bs[k].dataLen
                            /\ L(bs, k) = L(bs, k - 1) + (bs[k].gap + bs[k].dataLen)
  BY <1>1, DFacts, LFacts
<1>10. ASSUME NEW k \in 1..Len(bs), NEW j \in 1..bs[k].dataLen
       PROVE  b2[D(bs, k - 1) + j] = c + L(bs, k - 1) + bs[k].gap + j
  <2> DEFINE q == D(bs, k - 1)
             d == bs[k].dataLen
  <2>1. q \in Nat /\ d \in Nat /\ q + d <= Len(b)
    BY <1>6, <1>8, <1>9
  <2>2. b[q + j] = c + L(bs, k - 1) + bs[k].gap + j /\ j \in 1..d
    BY <1>2
  <2> HIDE DEF q, d
  <2>3. q + j \in 1..Len(b)
    BY <1>1, <2>1, <2>2
  <2>4. b2[q + j] = b[q + j]
    BY <1>5, <2>3
  <2> QED BY <2>2, <2>4 DEF q
<1>11. ASSUME NEW k \in 1..m, NEW j \in 1..bs2[k].dataLen
       PROVE  b2[D(bs2, k - 1) + j] = c + L(bs2, k - 1) + bs2[k].gap + j
  <2>0. k - 1 \in 0..(m - 1) /\ L(bs2, k - 1) = L(bs, k - 1) /\ D(bs2, k - 1) = D(bs, k - 1)
    <3>1. k - 1 \in 0..(m - 1)
      BY <1>3
    <3> QED BY <1>4, <3>1
  <2>1. CASE k < m
    <3>1. k \in 1..(m - 1) /\ k \in 1..Len(bs)
      BY <1>1, <1>3, <2>1
    <3>2. bs2[k] = bs[k]
      BY <1>3, <3>1
    <3> QED BY <1>10, <2>0, <3>1, <3>2
  <2>2. CASE k = m /\ m = Len(bs) + 1 /\ bs2[m] = [gap |-> skip, dataLen |-> z]
    <3>1. k - 1 = Len(bs) /\ bs2[k].gap = skip /\ bs2[k].dataLen = z
      BY <1>1, <2>2
    <3>2. j \in 1..z /\ D(bs, k - 1) = Len(b)
      BY <1>1, <3>1
    <3>3. b2[Len(b) + j] = data[j]
      BY <1>5, <3>2
    <3>4. data[j] = c + L(bs, k - 1) + skip + j
      BY <3>1, <3>2 DEF z
    <3> QED BY <2>0, <3>1, <3>2, <3>3, <3>4
  <2>3. CASE /\ k = m /\ m = Len(bs) /\ skip = 0
             /\ bs2[m] = [gap |-> bs[Len(bs)].gap, dataLen |-> bs[Len(bs)].dataLen + z]
    <3> DEFINE q == D(bs, k - 1)
               p == L(bs, k - 1)
               g == bs[k].gap
               d == bs[k].dataLen
    <3>1. bs2[k].gap = g /\ bs2[k].dataLen = d + z /\ k \in 1..Len(bs)
      BY <2>3
    <3>2. q \in Nat /\ p \in Nat /\ g \in Nat /\ d \in Nat /\ q + d = Len(b) /\ L(bs, Len(bs)) = p + (g + d)
      BY <1>1, <1>6, <1>8, <1>9, <2>3, <3>1
    <3>3. CASE j \in 1..d
      BY <1>10, <2>0, <3>1, <3>3
    <3>4. CASE j \notin 1..d
      <4>0. j \in 1..(d + z)
        BY <3>1
      <4> HIDE DEF q, p, g, d
      <4>1. j - d \in 1..z /\ q + j = Len(b) + (j - d)
        <5> DEFINE y == Len(b)
        <5>1. y \in Nat /\ z \in Nat /\ q + d = y
          BY <1>1, <3>2
        <5> HIDE DEF y
        <5>2. j - d \in 1..z /\ q + j = y + (j - d)
          BY <3>2, <3>4, <4>0, <5>1
        <5> QED BY <5>2 DEF y
      <4>2. b2[q + j] = data[j - d]
        BY <1>5, <4>1
      <4>3. data[j - d] = c + L(bs, Len(bs)) + skip + (j - d)
        BY <4>1 DEF z
      <4>4. c + (p + (g + d)) + 0 + (j - d) = c + p + g + j
        BY <1>1, <3>2, <4>0
      <4> QED BY <2>0, <2>3, <3>1, <3>2, <4>2, <4>3, <4>4 DEF q, p
    <3> QED BY <3>3, <3>4
  <2> QED BY <1>3, <2>1, <2>2, <2>3
<1>12. Content(bs2, b2, c)
  BY <1>1, <1>4, <1>5, <1>11 DEF Content
<1>13. Rep(bs2, b2, c)
  BY <1>1, <1>5, <1>7, <1>12 DEF Rep
<1> QED BY <1>4, <1>5, <1>13 DEF b2, z

\* What a write adds to the lost positions.
LEMMA ExtendLost ==
  ASSUME NEW bs \in Seq(Blk), NEW c \in Int, NEW bs2, NEW skip \in Nat, NEW count \in Nat,
         Extends(bs2, bs, skip, count)
  PROVE  LostIn(bs2, c) = LostIn(bs, c) \cup ((c + L(bs, Len(bs)) + 1)..(c + L(bs, Len(bs)) + skip))
<1> DEFINE m == Len(bs2)
           New == (c + L(bs, Len(bs)) + 1)..(c + L(bs, Len(bs)) + skip)
<1>1. /\ bs2 \in Seq(Blk) /\ m \in Nat \ {0} /\ Len(bs) \in Nat
      /\ \A k \in 1..(m - 1) : bs2[k] = bs[k]
  BY DEF Extends
<1>2. \A k \in 0..(m - 1) : L(bs2, k) = L(bs, k)
  BY ExtendSums
<1>3. \A k \in 1..m : k - 1 \in 0..(m - 1) /\ L(bs2, k - 1) = L(bs, k - 1)
  <2>1. \A k \in 1..m : k - 1 \in 0..(m - 1)
    BY <1>1
  <2> QED BY <1>2, <2>1
<1>4. CASE m = Len(bs) + 1 /\ bs2[m] = [gap |-> skip, dataLen |-> count]
  <2>1. m - 1 = Len(bs) /\ m \in 1..m /\ bs2[m].gap = skip
    BY <1>1, <1>4
  <2>2. New = (c + L(bs2, m - 1) + 1)..(c + L(bs2, m - 1) + bs2[m].gap)
    BY <1>3, <2>1
  <2>3. ASSUME NEW q \in LostIn(bs2, c) PROVE q \in LostIn(bs, c) \cup New
    <3>1. PICK k \in 1..m : q \in (c + L(bs2, k - 1) + 1)..(c + L(bs2, k - 1) + bs2[k].gap)
      BY <1>1, LostMember
    <3>2. CASE k = m
      BY <2>2, <3>1, <3>2
    <3>3. CASE k # m
      <4>1. k \in 1..(m - 1) /\ k \in 1..Len(bs)
        BY <1>1, <2>1, <3>3
      <4>2. q \in (c + L(bs, k - 1) + 1)..(c + L(bs, k - 1) + bs[k].gap)
        BY <1>1, <1>3, <3>1, <4>1
      <4> QED BY <4>1, <4>2, LostMember
    <3> QED BY <3>2, <3>3
  <2>4. ASSUME NEW q \in LostIn(bs, c) PROVE q \in LostIn(bs2, c)
    <3>1. PICK k \in 1..Len(bs) : q \in (c + L(bs, k - 1) + 1)..(c + L(bs, k - 1) + bs[k].gap)
      BY LostMember
    <3>2. k \in 1..(m - 1) /\ k \in 1..m
      BY <1>1, <2>1
    <3>3. q \in (c + L(bs2, k - 1) + 1)..(c + L(bs2, k - 1) + bs2[k].gap)
      BY <1>1, <1>3, <3>1, <3>2
    <3> QED BY <1>1, <3>2, <3>3, LostMember
  <2>5. ASSUME NEW q \in New PROVE q \in LostIn(bs2, c)
    <3> HIDE DEF New
    <3> QED BY <1>1, <2>1, <2>2, LostMember
  <2> QED BY <2>3, <2>4, <2>5
<1>5. CASE /\ m = Len(bs) /\ skip = 0
           /\ bs2[m] = [gap |-> bs[Len(bs)].gap, dataLen |-> bs[Len(bs)].dataLen + count]
  <2>1. New = {}
    <3>1. L(bs, Len(bs)) \in Nat
      <4>1. Len(bs) \in 0..Len(bs)
        BY <1>1
      <4> QED BY <4>1, LFacts
    <3> QED BY <1>5, <3>1
  <2>2. ASSUME NEW k \in 1..m PROVE bs2[k].gap = bs[k].gap
    <3>1. CASE k = m
      BY <1>5, <3>1
    <3>2. CASE k # m
      <4>1. k \in 1..(m - 1)
        BY <1>1, <3>2
      <4> QED BY <1>1, <4>1
    <3> QED BY <3>1, <3>2
  <2>3. ASSUME NEW k \in 1..m
        PROVE  (c + L(bs2, k - 1) + 1)..(c + L(bs2, k - 1) + bs2[k].gap)
                 = (c + L(bs, k - 1) + 1)..(c + L(bs, k - 1) + bs[k].gap)
    BY <1>3, <2>2
  <2>4. ASSUME NEW q PROVE q \in LostIn(bs2, c) <=> q \in LostIn(bs, c)
    <3>1. q \in LostIn(bs2, c) <=>
            \E k \in 1..m : q \in (c + L(bs2, k - 1) + 1)..(c + L(bs2, k - 1) + bs2[k].gap)
      BY <1>1, LostMember
    <3>2. q \in LostIn(bs, c) <=>
            \E k \in 1..m : q \in (c + L(bs, k - 1) + 1)..(c + L(bs, k - 1) + bs[k].gap)
      BY <1>5, LostMember
    <3> QED BY <2>3, <3>1, <3>2
  <2> QED BY <2>1, <2>4
<1> QED BY <1>4, <1>5 DEF Extends

\* The window the blocks cover, and where a position of it lies.
LEMMA LostRange ==
  ASSUME NEW bs \in Seq(Blk), NEW c \in Int
  PROVE  LostIn(bs, c) \subseteq (c + 1)..(c + L(bs, Len(bs)))
<1> SUFFICES ASSUME NEW q \in LostIn(bs, c) PROVE q \in (c + 1)..(c + L(bs, Len(bs)))
  OBVIOUS
<1>1. PICK k \in 1..Len(bs) : q \in (c + L(bs, k - 1) + 1)..(c + L(bs, k - 1) + bs[k].gap)
  BY LostMember
<1> DEFINE p == L(bs, k - 1)
           u == bs[k].gap
           v == bs[k].dataLen
           z == L(bs, Len(bs))
<1>2. Len(bs) \in Nat /\ k - 1 \in 0..Len(bs) /\ k \in 0..Len(bs) /\ Len(bs) \in k..Len(bs) /\ Len(bs) \in 0..Len(bs)
  OBVIOUS
<1>3. p \in Nat /\ u \in Nat /\ v \in Nat /\ p + (u + v) <= z /\ z \in Nat
  BY <1>2, LFacts, LensType
<1>4. q \in (c + p + 1)..(c + p + u)
  BY <1>1
<1> HIDE DEF p, u, v, z
<1>5. q \in (c + 1)..(c + z)
  BY <1>3, <1>4
<1> QED BY <1>5 DEF z

\* Byte x of b is byte j of block i.
At(bs, b, c, x, i, j) ==
  /\ i \in 1..Len(bs) /\ j \in 1..bs[i].dataLen
  /\ x = D(bs, i - 1) + j
  /\ b[x] = c + L(bs, i - 1) + bs[i].gap + j

\* Every byte of the buffer belongs to one block.
LEMMA BytePlace ==
  ASSUME NEW bs, NEW b, NEW c, Rep(bs, b, c), NEW x \in 1..Len(b)
  PROVE  \E i, j : At(bs, b, c, x, i, j)
<1>1. /\ bs \in Seq(Blk) /\ Len(bs) \in Nat /\ D(bs, Len(bs)) = Len(b)
      /\ \A k \in 1..Len(bs) : \A j \in 1..bs[k].dataLen :
           b[D(bs, k - 1) + j] = c + L(bs, k - 1) + bs[k].gap + j
  BY DEF Rep, Proper, Content
<1>2. PICK i \in 1..Len(bs) : D(bs, i - 1) < x /\ x <= D(bs, i)
  <2>1. x \in Nat \ {0} /\ x <= SumTo(dataLens(bs), Len(bs))
    BY <1>1 DEF D, Rep
  <2>2. dataLens(bs) \in [1..Len(bs) -> Nat]
    BY <1>1, LensType
  <2> QED BY <1>1, <2>1, <2>2, SumFind DEF D
<1> DEFINE q == D(bs, i - 1)
           d == bs[i].dataLen
<1>3. q \in Nat /\ d \in Nat /\ D(bs, i) = q + d
  <2>1. i - 1 \in 0..Len(bs)
    BY <1>1
  <2> QED BY <1>1, <2>1, DFacts, LensType
<1>4. x - q \in 1..d /\ x = q + (x - q)
  <2>1. q < x /\ x <= q + d /\ x \in Nat
    BY <1>2, <1>3
  <2> HIDE DEF q, d
  <2> QED BY <1>3, <2>1
<1>5. b[q + (x - q)] = c + L(bs, i - 1) + bs[i].gap + (x - q)
  BY <1>1, <1>4
<1>6. At(bs, b, c, x, i, x - q)
  BY <1>4, <1>5 DEF At
<1> QED BY <1>6

\* The numbers around byte j of block i.
LEMMA AtFacts ==
  ASSUME NEW bs \in Seq(Blk), NEW b, NEW c \in Int, NEW x, NEW i, NEW j, At(bs, b, c, x, i, j)
  PROVE  /\ L(bs, i - 1) \in Nat /\ L(bs, i) \in Nat /\ L(bs, i) <= L(bs, Len(bs))
         /\ L(bs, Len(bs)) \in Nat /\ bs[i].gap \in Nat /\ j \in Nat /\ i \in 1..Len(bs)
         /\ b[x] \in Int
         /\ c + L(bs, i - 1) + bs[i].gap < b[x]
         /\ b[x] <= c + L(bs, i)
<1>1. /\ i \in 1..Len(bs) /\ j \in 1..bs[i].dataLen
      /\ b[x] = c + L(bs, i - 1) + bs[i].gap + j
  BY DEF At
<1>2. Len(bs) \in Nat /\ i - 1 \in 0..Len(bs) /\ i \in 0..Len(bs) /\ Len(bs) \in i..Len(bs) /\ Len(bs) \in 0..Len(bs)
  BY <1>1
<1> DEFINE p == L(bs, i - 1)
           g == bs[i].gap
           d == bs[i].dataLen
<1>3. p \in Nat /\ g \in Nat /\ d \in Nat /\ L(bs, i) = p + (g + d)
  BY <1>1, <1>2, LFacts, LensType
<1>4. L(bs, i) <= L(bs, Len(bs)) /\ L(bs, Len(bs)) \in Nat
  BY <1>2, LFacts
<1>5. j \in 1..d /\ b[x] = c + p + g + j
  BY <1>1
<1> HIDE DEF p, g, d
<1>6. j \in Nat /\ b[x] \in Int /\ c + p + g < b[x] /\ b[x] <= c + (p + (g + d)) /\ p + (g + d) \in Nat
  BY <1>3, <1>5
<1> QED BY <1>1, <1>3, <1>4, <1>6 DEF p, g

\* The bytes lie in the window, outside the lost positions, and in order.
LEMMA BytesApart ==
  ASSUME NEW bs, NEW b, NEW c, Rep(bs, b, c)
  PROVE  /\ \A x \in 1..Len(b) : b[x] \in ((c + 1)..(c + L(bs, Len(bs)))) \ LostIn(bs, c)
         /\ \A x, y \in 1..Len(b) : x # y => b[x] # b[y]
<1>1. bs \in Seq(Blk) /\ c \in Int /\ Len(bs) \in Nat
  BY DEF Rep, Proper
<1>2. \A k \in 0..Len(bs) : \A l \in k..Len(bs) : L(bs, k) <= L(bs, l)
  BY <1>1, LFacts
<1>3. \A k \in 0..Len(bs) : L(bs, k) \in Nat
  BY <1>1, LFacts
<1>4. \A k \in 1..Len(bs) : L(bs, k) = L(bs, k - 1) + (bs[k].gap + bs[k].dataLen) /\ bs[k].gap \in Nat /\ bs[k].dataLen \in Nat
  BY <1>1, LFacts, LensType
<1>5. ASSUME NEW x \in 1..Len(b) PROVE b[x] \in ((c + 1)..(c + L(bs, Len(bs)))) \ LostIn(bs, c)
  <2>1. PICK i, j : At(bs, b, c, x, i, j)
    BY BytePlace
  <2> DEFINE p == L(bs, i - 1)
             r == L(bs, i)
             z == L(bs, Len(bs))
             g == bs[i].gap
             v == b[x]
  <2>2. /\ p \in Nat /\ r \in Nat /\ r <= z /\ z \in Nat /\ g \in Nat
        /\ v \in Int /\ c + p + g < v /\ v <= c + r
    BY <1>1, <2>1, AtFacts
  <2>3. i \in 1..Len(bs) /\ i - 1 \in 0..Len(bs) /\ i \in 0..Len(bs)
    BY <1>1, <2>1 DEF At
  <2>4. v \in (c + 1)..(c + z)
    <3> HIDE DEF p, r, z, g, v
    <3> QED BY <1>1, <2>2
  <2>5. v \notin LostIn(bs, c)
    <3> SUFFICES ASSUME v \in LostIn(bs, c) PROVE FALSE
      OBVIOUS
    <3>1. PICK k \in 1..Len(bs) : v \in (c + L(bs, k - 1) + 1)..(c + L(bs, k - 1) + bs[k].gap)
      BY <1>1, LostMember
    <3> DEFINE s == L(bs, k - 1)
               t == L(bs, k)
               u == bs[k].gap
               w == bs[k].dataLen
    <3>2. s \in Nat /\ t \in Nat /\ u \in Nat /\ w \in Nat /\ t = s + (u + w) /\ k - 1 \in 0..Len(bs) /\ k \in 0..Len(bs)
      <4>1. k - 1 \in 0..Len(bs) /\ k \in 0..Len(bs)
        BY <1>1
      <4> QED BY <1>3, <1>4, <4>1
    <3>3. v \in (c + s + 1)..(c + s + u)
      BY <3>1
    <3>4. CASE k < i
      <4>1. i - 1 \in k..Len(bs)
        BY <1>1, <2>3, <3>4
      <4>2. t <= p
        BY <1>2, <3>2, <4>1
      <4> HIDE DEF p, r, z, g, v, s, t, u, w
      <4> QED BY <1>1, <2>2, <3>2, <3>3, <4>2
    <3>5. CASE k = i
      <4>1. s = p /\ u = g
        BY <3>5
      <4> HIDE DEF p, r, z, g, v, s, t, u, w
      <4> QED BY <1>1, <2>2, <3>2, <3>3, <4>1
    <3>6. CASE k > i
      <4>1. k - 1 \in i..Len(bs)
        BY <1>1, <2>3, <3>6
      <4>2. r <= s
        BY <1>2, <2>3, <4>1
      <4> HIDE DEF p, r, z, g, v, s, t, u, w
      <4> QED BY <1>1, <2>2, <3>2, <3>3, <4>2
    <3> QED BY <2>3, <3>4, <3>5, <3>6
  <2> QED BY <2>4, <2>5
<1>6. ASSUME NEW x \in 1..Len(b), NEW y \in 1..Len(b), x # y PROVE b[x] # b[y]
  <2>1. PICK i, j : At(bs, b, c, x, i, j)
    BY BytePlace
  <2>2. PICK k, l : At(bs, b, c, y, k, l)
    BY BytePlace
  <2> DEFINE p == L(bs, i - 1)
             r == L(bs, i)
             s == L(bs, k - 1)
             t == L(bs, k)
             g == bs[i].gap
             u == bs[k].gap
             v == b[x]
             w == b[y]
  <2>3. p \in Nat /\ r \in Nat /\ g \in Nat /\ v \in Int /\ c + p + g < v /\ v <= c + r /\ i \in 1..Len(bs) /\ j \in Nat
    BY <1>1, <2>1, AtFacts
  <2>4. s \in Nat /\ t \in Nat /\ u \in Nat /\ w \in Int /\ c + s + u < w /\ w <= c + t /\ k \in 1..Len(bs) /\ l \in Nat
    BY <1>1, <2>2, AtFacts
  <2>a. i \in 1..Len(bs) /\ k \in 1..Len(bs)
    BY <2>3, <2>4
  <2>5. CASE i = k
    <3>1. x = D(bs, i - 1) + j /\ y = D(bs, i - 1) + l
      BY <2>1, <2>2, <2>5 DEF At
    <3>2. j # l
      BY <1>6, <3>1
    <3>3. v = c + p + g + j /\ w = c + p + g + l
      BY <2>1, <2>2, <2>5 DEF At
    <3> HIDE DEF p, g, v, w
    <3>4. c \in Int /\ p \in Nat /\ g \in Nat /\ j \in Nat /\ l \in Nat
      BY <1>1, <2>3, <2>4
    <3>5. c + p + g + j # c + p + g + l
      BY <3>2, <3>4
    <3> QED BY <3>3, <3>5 DEF v, w
  <2>6. CASE i < k
    <3>1. k - 1 \in i..Len(bs) /\ i \in 0..Len(bs)
      BY <1>1, <2>a, <2>6
    <3>2. r <= s
      BY <1>2, <3>1
    <3> HIDE DEF p, r, s, t, g, u, v, w
    <3>3. v # w
      BY <1>1, <2>3, <2>4, <3>2
    <3> QED BY <3>3 DEF v, w
  <2>7. CASE k < i
    <3>1. i - 1 \in k..Len(bs) /\ k \in 0..Len(bs)
      BY <1>1, <2>a, <2>7
    <3>2. t <= p
      BY <1>2, <3>1
    <3> HIDE DEF p, r, s, t, g, u, v, w
    <3>3. v # w
      BY <1>1, <2>3, <2>4, <3>2
    <3> QED BY <3>3 DEF v, w
  <2> QED BY <2>a, <2>5, <2>6, <2>7
<1> QED BY <1>5, <1>6

\* Every position of the window that is not lost is in b.
LEMMA BytesThere ==
  ASSUME NEW bs, NEW b, NEW c, Rep(bs, b, c),
         NEW v \in ((c + 1)..(c + L(bs, Len(bs)))) \ LostIn(bs, c)
  PROVE  \E x \in 1..Len(b) : b[x] = v
<1>1. bs \in Seq(Blk) /\ c \in Int /\ Len(bs) \in Nat /\ D(bs, Len(bs)) = Len(b) /\ Len(b) \in Nat
  BY DEF Rep, Proper, Content
<1>2. \A k \in 1..Len(bs) : \A j \in 1..bs[k].dataLen :
         b[D(bs, k - 1) + j] = c + L(bs, k - 1) + bs[k].gap + j
  BY DEF Rep, Content
<1>3. L(bs, Len(bs)) \in Nat
  <2>1. Len(bs) \in 0..Len(bs)
    BY <1>1
  <2> QED BY <1>1, <2>1, LFacts
<1> DEFINE z == L(bs, Len(bs))
<1>4. v - c \in Nat \ {0} /\ v - c <= z /\ v \in Int
  <2>1. v \in (c + 1)..(c + z) /\ z \in Nat
    BY <1>3
  <2> HIDE DEF z
  <2> QED BY <1>1, <2>1
<1>5. PICK i \in 1..Len(bs) : L(bs, i - 1) < v - c /\ v - c <= L(bs, i)
  <2>1. lens(bs) \in [1..Len(bs) -> Nat] /\ v - c <= SumTo(lens(bs), Len(bs))
    BY <1>1, <1>4, LensType DEF L
  <2> QED BY <1>1, <1>4, <2>1, SumFind DEF L
<1> DEFINE p == L(bs, i - 1)
           q == D(bs, i - 1)
           g == bs[i].gap
           d == bs[i].dataLen
           j == (v - c) - (p + g)
<1>6. /\ p \in Nat /\ q \in Nat /\ g \in Nat /\ d \in Nat /\ p < v - c /\ v - c <= p + (g + d)
      /\ q + d <= Len(b)
  <2>1. i - 1 \in 0..Len(bs) /\ i \in 0..Len(bs) /\ Len(bs) \in i..Len(bs)
    BY <1>1
  <2>2. D(bs, i) = q + d /\ D(bs, i) <= D(bs, Len(bs)) /\ q \in Nat
    BY <1>1, <2>1, DFacts
  <2>3. L(bs, i) = p + (g + d) /\ p \in Nat /\ g \in Nat /\ d \in Nat
    BY <1>1, <2>1, LFacts, LensType
  <2> QED BY <1>1, <1>5, <2>2, <2>3
<1>7. ~(v \in (c + p + 1)..(c + p + g))
  BY <1>1, LostMember
<1>8. q + j \in 1..Len(b) /\ j \in 1..d /\ c + p + g + j = v
  <2> DEFINE y == Len(b)
  <2>1. y \in Nat /\ q + d <= y
    BY <1>1, <1>6
  <2> HIDE DEF p, q, g, d, y
  <2>2. v - c > p + g
    BY <1>1, <1>4, <1>6, <1>7
  <2>3. q + j \in 1..y /\ j \in 1..d /\ c + p + g + j = v
    BY <1>1, <1>4, <1>6, <2>1, <2>2
  <2> QED BY <2>3 DEF y
<1>9. b[q + j] = c + p + g + j
  <2> HIDE DEF j
  <2> QED BY <1>2, <1>8
<1> QED BY <1>8, <1>9

\* So there are as many of them as bytes.
LEMMA BytesCounted ==
  ASSUME NEW bs, NEW b, NEW c, Rep(bs, b, c)
  PROVE  Cardinality(((c + 1)..(c + L(bs, Len(bs)))) \ LostIn(bs, c)) = Len(b)
<1> DEFINE S == ((c + 1)..(c + L(bs, Len(bs)))) \ LostIn(bs, c)
           n == Len(b)
<1>1. b \in Seq(Int) /\ n \in Nat /\ DOMAIN b = 1..n
  BY DEF Rep
<1>2. \A x \in 1..n : b[x] \in S
  BY BytesApart
<1>3. \A x, y \in 1..n : x # y => b[x] # b[y]
  BY BytesApart
<1>4. \A v \in S : \E x \in 1..n : b[x] = v
  BY BytesThere
<1> HIDE DEF S
<1>5. b \in [1..n -> S]
  <2>1. b = [x \in 1..n |-> b[x]]
    BY <1>1
  <2> QED BY <1>2, <2>1
<1>6. ExistsBijection(1..n, S)
  BY <1>3, <1>4, <1>5 DEF ExistsBijection, Bijection, Injection, Surjection, IsInjective
<1>7. IsFiniteSet(1..n) /\ Cardinality(1..n) = n
  BY <1>1, FS_Interval, SMTT(40)
<1> QED BY <1>6, <1>7, FS_Bijection DEF S

\* block.discard cuts as CutBlock says.
LEMMA TrimCuts ==
  ASSUME NEW x \in Blk, NEW t \in Nat, t < x.gap + x.dataLen, NEW p \in Nat, NEW q \in Nat
  PROVE  CutBlock(trimmed(x, t), x, p, q, p + t, q + taken(x, t))
<1> DEFINE k == taken(x, t)
           a == x.gap
           d == x.dataLen
           aa == trimmed(x, t).gap
           dd == trimmed(x, t).dataLen
<1>1. /\ k \in Nat /\ k <= d /\ dd = d - k /\ aa + dd = (a + d) - t /\ a + k = t + aa
      /\ aa > 0 => a = t + aa
      /\ a > t => a = t + aa
      /\ trimmed(x, t) \in Blk
  BY TrimFacts
<1>2. a \in Nat /\ d \in Nat /\ aa \in Nat /\ dd \in Nat /\ t < a + d
  BY <1>1 DEF Blk
<1> HIDE DEF k, a, d, aa, dd
<1>3. /\ p <= p + t /\ q <= q + k /\ q + k <= q + d
      /\ dd = d - ((q + k) - q)
      /\ p + a + ((q + k) - q) = (p + t) + aa
      /\ aa + dd > 0
  BY <1>1, <1>2
<1>4. (aa > 0 => q + k = q) /\ (p + a > p + t => q + k = q)
  BY <1>1, <1>2
<1> QED BY <1>3, <1>4 DEF CutBlock, k, a, d, aa, dd

\* Discarding n positions, t of them in block i: the blocks before it go, it is
\* trimmed, and the bytes go with them.
CutDone(bs, b, c, i, t) ==
  LET n   == L(bs, i - 1) + t
      o   == D(bs, i - 1) + taken(bs[i], t)
      bs2 == Rest(bs, i, trimmed(bs[i], t))
      b2  == SubSeq(b, o + 1, Len(b))
  IN  /\ Rep(bs2, b2, c + n)
      /\ L(bs2, Len(bs2)) = L(bs, Len(bs)) - n
      /\ Len(b2) <= Len(b)
      /\ LostIn(bs2, c + n) = Beyond(LostIn(bs, c), c + n)

\* What dropBlocks and block.discard leave represents the stream behind the
\* cut.
LEMMA Cut ==
  ASSUME NEW bs, NEW b, NEW c, Rep(bs, b, c), NEW i \in 1..Len(bs), NEW t \in Nat,
         t < bs[i].gap + bs[i].dataLen
  PROVE  CutDone(bs, b, c, i, t)
<1> DEFINE p == L(bs, i - 1)
           q == D(bs, i - 1)
           x == bs[i]
           k == taken(x, t)
           x2 == trimmed(x, t)
           n == p + t
           o == q + k
           bs2 == Rest(bs, i, x2)
           b2 == SubSeq(b, o + 1, Len(b))
<1>1. /\ bs \in Seq(Blk) /\ Len(bs) \in Nat /\ b \in Seq(Int) /\ Len(b) \in Nat /\ c \in Int
      /\ D(bs, Len(bs)) = Len(b)
  BY DEF Rep, Proper, Content
<1>2. i - 1 \in 0..Len(bs) /\ i \in 0..Len(bs) /\ Len(bs) \in i..Len(bs)
  BY <1>1
<1>3. p \in Nat /\ L(bs, i) = p + (x.gap + x.dataLen)
  BY <1>1, <1>2, LFacts
<1>4. q \in Nat /\ D(bs, i) = q + x.dataLen /\ D(bs, i) <= Len(b)
  BY <1>1, <1>2, DFacts
<1>5. x \in Blk /\ x.gap \in Nat /\ x.dataLen \in Nat
  <2>1. x \in Blk
    BY <1>1
  <2> QED BY <2>1 DEF Blk
<1>6. CutBlock(x2, x, p, q, n, o)
  <2> HIDE DEF p, q, x
  <2>1. t < x.gap + x.dataLen
    BY DEF x
  <2> QED BY <1>3, <1>4, <1>5, <2>1, TrimCuts
<1>7. x2 \in Blk /\ k \in Nat /\ k <= x.dataLen /\ x2.dataLen = x.dataLen - k /\ x2.gap + x2.dataLen = (x.gap + x.dataLen) - t
  <2> HIDE DEF x
  <2>1. t < x.gap + x.dataLen
    BY DEF x
  <2> QED BY <1>5, <2>1, TrimFacts
<1>8. /\ bs2 \in Seq(Blk) /\ Len(bs2) = Len(bs) - i + 1 /\ bs2[1] = x2
      /\ \A l \in 2..(Len(bs) - i + 1) : bs2[l] = bs[i + l - 1]
  <2> HIDE DEF x2
  <2> QED BY <1>1, <1>7, RestFacts
<1> HIDE DEF p, q, x, k, x2, bs2
<1>9. n \in Nat /\ o \in 0..Len(b) /\ o \in Nat
  <2> DEFINE y == Len(b)
             d == x.dataLen
  <2>1. y \in Nat /\ d \in Nat /\ q + d <= y /\ k <= d
    BY <1>1, <1>4, <1>5, <1>7
  <2> HIDE DEF y, d
  <2>2. n \in Nat /\ o \in 0..y /\ o \in Nat
    BY <1>3, <1>4, <1>7, <2>1
  <2> QED BY <2>2 DEF y
<1>10. x2.gap + x2.dataLen = L(bs, i) - n
  <2> DEFINE s == x.gap + x.dataLen
  <2>1. s \in Nat /\ x2.gap + x2.dataLen = s - t /\ L(bs, i) = p + s
    BY <1>3, <1>5, <1>7
  <2> HIDE DEF s
  <2>2. (p + s) - n = s - t
    BY <1>3, <2>1
  <2> QED BY <2>1, <2>2
<1>11. x2.dataLen = D(bs, i) - o
  BY <1>4, <1>5, <1>7
<1> HIDE DEF n, o
<1>12. Remains(bs2, bs, i, n, o)
  BY <1>8, <1>10, <1>11 DEF Remains
<1>13. CutBlock(bs2[1], bs[i], L(bs, i - 1), D(bs, i - 1), n, o)
  BY <1>6, <1>8 DEF x, p, q
<1>14. Rep(bs2, b2, c + n) /\ L(bs2, Len(bs2)) = L(bs, Len(bs)) - n
  BY <1>8, <1>9, <1>12, <1>13, CutRep
<1>15. LostIn(bs2, c + n) = Beyond(LostIn(bs, c), c + n)
  BY <1>1, <1>8, <1>9, <1>12, <1>13, CutLost
<1>16. Len(b2) <= Len(b)
  <2>1. Len(b2) = Len(b) - o
    BY <1>1, <1>9, TailFacts
  <2> QED BY <1>1, <1>9, <2>1
<1> QED BY <1>14, <1>15, <1>16 DEF CutDone, p, q, x, k, x2, bs2, n, o

-----------------------------------------------------------------------------
(* What can be read at once.                                               *)

GappedIn(bs) == {i \in DOMAIN bs : bs[i].gap > 0}
AvailIn(bs)  == IF GappedIn(bs) = {} THEN D(bs, Len(bs)) ELSE D(bs, Least(GappedIn(bs)) - 1)
GapIn(bs)    == IF GappedIn(bs) = {} THEN 0 ELSE bs[Least(GappedIn(bs))].gap

\* Least is the member that is not above any other.
LEMMA LeastFacts ==
  ASSUME NEW S, NEW i \in S, S \subseteq Int, \A j \in S : i <= j
  PROVE  Least(S) = i
<1>1. Least(S) \in S /\ \A j \in S : Least(S) <= j
  BY DEF Least
<1>2. Least(S) <= i /\ i <= Least(S) /\ Least(S) \in Int /\ i \in Int
  BY <1>1
<1> QED BY <1>2

\* a positions can be read and then g are lost, or none when g is 0.
Readable(bs, b, c, a, g) ==
  /\ a \in Nat /\ g \in Nat
  /\ a <= Len(b) /\ a + g <= L(bs, Len(bs))
  /\ \A j \in 1..a : b[j] = c + j
  /\ g = 0 => LostIn(bs, c) = {} /\ a = L(bs, Len(bs))
  /\ g > 0 => /\ (c + a + 1)..(c + a + g) \subseteq LostIn(bs, c)
              /\ \A p \in LostIn(bs, c) : c + a + 1 <= p

\* The first block has no gap before it, or the first data comes after one.
LEMMA AvailFacts ==
  ASSUME NEW bs, NEW b, NEW c, Rep(bs, b, c)
  PROVE  Readable(bs, b, c, AvailIn(bs), GapIn(bs))
<1>1. /\ bs \in Seq(Blk) /\ c \in Int /\ Len(bs) \in Nat /\ D(bs, Len(bs)) = Len(b) /\ Len(b) \in Nat
      /\ \A k \in 1..Len(bs) : k > 1 => bs[k].gap > 0
  BY DEF Rep, Proper, Content
<1>2. \A k \in 1..Len(bs) : \A j \in 1..bs[k].dataLen :
         b[D(bs, k - 1) + j] = c + L(bs, k - 1) + bs[k].gap + j
  BY DEF Rep, Content
<1>3. /\ L(bs, 0) = 0 /\ D(bs, 0) = 0
      /\ \A k \in 0..Len(bs) : L(bs, k) \in Nat /\ D(bs, k) \in Nat
      /\ \A k \in 1..Len(bs) : L(bs, k) = L(bs, k - 1) + (bs[k].gap + bs[k].dataLen)
      /\ \A k \in 1..Len(bs) : D(bs, k) = D(bs, k - 1) + bs[k].dataLen
  BY <1>1, LFacts, DFacts
<1>4. /\ \A k \in 0..Len(bs) : \A l \in k..Len(bs) : L(bs, k) <= L(bs, l)
      /\ \A k \in 0..Len(bs) : \A l \in k..Len(bs) : D(bs, k) <= D(bs, l)
  BY <1>1, LFacts, DFacts
<1>5. \A k \in 1..Len(bs) : bs[k].gap \in Nat /\ bs[k].dataLen \in Nat
  BY <1>1, LensType
<1>6. GappedIn(bs) = {k \in 1..Len(bs) : bs[k].gap > 0}
  BY <1>1 DEF GappedIn
<1>7. ASSUME NEW q \in LostIn(bs, c)
      PROVE  \E k \in 1..Len(bs) : q \in (c + L(bs, k - 1) + 1)..(c + L(bs, k - 1) + bs[k].gap)
  BY <1>1, LostMember
<1>8. CASE Len(bs) = 0
  <2>1. AvailIn(bs) = 0 /\ GapIn(bs) = 0
    BY <1>3, <1>6, <1>8 DEF AvailIn, GapIn
  <2>2. LostIn(bs, c) = {}
    BY <1>7, <1>8
  <2> QED BY <1>1, <1>3, <1>8, <2>1, <2>2 DEF Readable
<1>9. CASE Len(bs) # 0 /\ bs[1].gap > 0
  <2>0. 1 \in 1..Len(bs) /\ 0 \in 0..Len(bs) /\ 1 \in 0..Len(bs) /\ Len(bs) \in 1..Len(bs) /\ 1 - 1 = 0
    BY <1>1, <1>9
  <2>1. Least(GappedIn(bs)) = 1
    <3>1. 1 \in GappedIn(bs) /\ GappedIn(bs) \subseteq Int /\ \A k \in GappedIn(bs) : 1 <= k
      BY <1>6, <1>9, <2>0
    <3> QED BY <3>1, LeastFacts
  <2>2. AvailIn(bs) = 0 /\ GapIn(bs) = bs[1].gap
    BY <1>3, <1>6, <1>9, <2>0, <2>1 DEF AvailIn, GapIn
  <2> DEFINE g == bs[1].gap
             z == L(bs, Len(bs))
  <2>3. g \in Nat /\ g > 0 /\ z \in Nat /\ g <= z
    <3>1. L(bs, 1) = 0 + (g + bs[1].dataLen) /\ L(bs, 1) <= z /\ bs[1].dataLen \in Nat /\ g \in Nat /\ z \in Nat
      BY <1>3, <1>4, <1>5, <2>0
    <3> QED BY <1>9, <3>1
  <2>4. (c + 0 + 1)..(c + 0 + g) \subseteq LostIn(bs, c)
    BY <1>1, <1>3, <2>0, LostMember
  <2>5. ASSUME NEW p \in LostIn(bs, c) PROVE c + 0 + 1 <= p
    <3>1. p \in (c + 1)..(c + z)
      BY <1>1, LostRange
    <3> QED BY <1>1, <3>1
  <2> HIDE DEF g, z
  <2>6. 0 + g <= z /\ 0 <= Len(b) /\ 1..0 = {}
    BY <1>1, <2>3
  <2>7. Readable(bs, b, c, 0, g)
    BY <2>3, <2>4, <2>5, <2>6 DEF Readable, z
  <2> QED BY <2>2, <2>7 DEF g
<1>10. CASE Len(bs) # 0 /\ ~(bs[1].gap > 0)
  <2> DEFINE d == bs[1].dataLen
             z == L(bs, Len(bs))
  <2>0. 1 \in 1..Len(bs) /\ 0 \in 0..Len(bs) /\ 1 \in 0..Len(bs) /\ Len(bs) \in 1..Len(bs) /\ 1 - 1 = 0 /\ Len(bs) \in 0..Len(bs)
    BY <1>1, <1>10
  <2>1. bs[1].gap = 0 /\ d \in Nat /\ z \in Nat
    BY <1>3, <1>5, <1>10, <2>0
  <2>2. L(bs, 1) = d /\ D(bs, 1) = d
    <3>1. L(bs, 1) = 0 + (0 + d) /\ D(bs, 1) = 0 + d
      BY <1>3, <2>0, <2>1
    <3> QED BY <2>1, <3>1
  <2>3. d <= z /\ d <= Len(b)
    BY <1>1, <1>4, <2>0, <2>2
  <2>4. ASSUME NEW j \in 1..d PROVE b[j] = c + j
    <3>1. b[D(bs, 1 - 1) + j] = c + L(bs, 1 - 1) + bs[1].gap + j
      BY <1>2, <2>0
    <3>2. b[0 + j] = c + 0 + 0 + j
      BY <1>3, <2>0, <2>1, <3>1
    <3>3. j \in Int
      BY <2>1
    <3> QED BY <1>1, <3>2, <3>3
  <2>5. CASE Len(bs) = 1
    <3>1. GappedIn(bs) = {}
      BY <1>6, <1>10, <2>5
    <3>2. AvailIn(bs) = d /\ GapIn(bs) = 0 /\ z = d
      BY <2>2, <2>5, <3>1 DEF AvailIn, GapIn
    <3>3. LostIn(bs, c) = {}
      <4> SUFFICES ASSUME NEW q \in LostIn(bs, c) PROVE FALSE
        OBVIOUS
      <4>1. PICK k \in 1..Len(bs) : q \in (c + L(bs, k - 1) + 1)..(c + L(bs, k - 1) + bs[k].gap)
        BY <1>7
      <4>2. k = 1
        BY <2>5
      <4>3. q \in (c + 0 + 1)..(c + 0 + 0)
        BY <1>3, <2>0, <2>1, <4>1, <4>2
      <4> QED BY <1>1, <4>3
    <3> HIDE DEF d, z
    <3>4. d + 0 <= z
      BY <2>1, <3>2
    <3>5. Readable(bs, b, c, d, 0)
      BY <2>1, <2>3, <2>4, <3>2, <3>3, <3>4 DEF Readable, z
    <3> QED BY <3>2, <3>5
  <2>6. CASE Len(bs) # 1
    <3> DEFINE g == bs[2].gap
    <3>0. 2 \in 1..Len(bs) /\ 2 \in 0..Len(bs) /\ Len(bs) \in 2..Len(bs) /\ 2 - 1 = 1
      <4> DEFINE y == Len(bs)
      <4>1. y \in Nat /\ y # 0 /\ y # 1
        BY <1>1, <1>10, <2>6
      <4> HIDE DEF y
      <4>2. 2 \in 1..y /\ 2 \in 0..y /\ y \in 2..y /\ 2 - 1 = 1
        BY <4>1
      <4> QED BY <4>2 DEF y
    <3>1. g > 0 /\ g \in Nat /\ bs[2].dataLen \in Nat
      BY <1>1, <1>5, <3>0
    <3>2. Least(GappedIn(bs)) = 2
      <4>1. 2 \in GappedIn(bs) /\ GappedIn(bs) \subseteq Int
        BY <1>6, <3>0, <3>1
      <4>2. ASSUME NEW k \in GappedIn(bs) PROVE 2 <= k
        BY <1>6, <1>10
      <4> QED BY <4>1, <4>2, LeastFacts
    <3>3. AvailIn(bs) = d /\ GapIn(bs) = g
      <4>1. GappedIn(bs) # {}
        BY <1>6, <3>0, <3>1
      <4> QED BY <2>2, <3>0, <3>2, <4>1 DEF AvailIn, GapIn
    <3>4. d + g <= z
      <4>1. L(bs, 2) = d + (g + bs[2].dataLen) /\ L(bs, 2) <= z
        BY <1>3, <1>4, <2>0, <2>2, <3>0
      <4> HIDE DEF d, g, z
      <4> QED BY <2>1, <3>1, <4>1
    <3>5. (c + d + 1)..(c + d + g) \subseteq LostIn(bs, c)
      <4>1. (c + d + 1)..(c + d + g) = (c + L(bs, 2 - 1) + 1)..(c + L(bs, 2 - 1) + bs[2].gap)
        BY <2>2, <3>0
      <4> HIDE DEF d, g
      <4> QED BY <1>1, <3>0, <4>1, LostMember
    <3>6. ASSUME NEW p \in LostIn(bs, c) PROVE c + d + 1 <= p
      <4>1. PICK k \in 1..Len(bs) : p \in (c + L(bs, k - 1) + 1)..(c + L(bs, k - 1) + bs[k].gap)
        BY <1>7
      <4>2. k # 1
        <5> SUFFICES ASSUME k = 1 PROVE FALSE
          OBVIOUS
        <5>1. p \in (c + 0 + 1)..(c + 0 + 0)
          BY <1>3, <2>0, <2>1, <4>1
        <5> QED BY <1>1, <5>1
      <4>3. k - 1 \in 1..Len(bs) /\ k - 1 \in 0..Len(bs)
        BY <1>1, <4>2
      <4>4. d <= L(bs, k - 1) /\ L(bs, k - 1) \in Nat /\ bs[k].gap \in Nat
        BY <1>3, <1>4, <1>5, <2>0, <2>2, <4>3
      <4> HIDE DEF d
      <4> QED BY <1>1, <2>1, <4>1, <4>4
    <3> HIDE DEF d, g, z
    <3>7. Readable(bs, b, c, d, g)
      BY <2>1, <2>3, <2>4, <3>1, <3>4, <3>5, <3>6 DEF Readable, z
    <3> QED BY <3>3, <3>7
  <2> QED BY <2>5, <2>6
<1> QED BY <1>8, <1>9, <1>10

-----------------------------------------------------------------------------
(* The invariant.                                                          *)

Lengths ==
  /\ sent \in 0..N /\ discard \in 0..MaxAhead
  /\ len \in Nat /\ len <= sent /\ len = L(blocks, Len(blocks))
  /\ discard > 0 => len = 0
  /\ Len(buf) <= Cap

Flags ==
  /\ closed \in BOOLEAN /\ eof \in BOOLEAN
  /\ err \in {"nil", "write"}

SInv == Lengths /\ Rep(blocks, buf, cursor) /\ Flags /\ result.out \in Seq(Positions)

\* An empty buffer represents nothing at any cursor.
LEMMA EmptyRep ==
  ASSUME NEW c \in Int
  PROVE  /\ Rep(<<>>, <<>>, c) /\ L(<<>>, Len(<<>>)) = 0 /\ Len(<<>>) = 0
         /\ LostIn(<<>>, c) = {}
<1>1. << >> \in Seq(Blk) /\ << >> \in Seq(Int) /\ Len(<< >>) = 0
  OBVIOUS
<1>2. L(<< >>, 0) = 0 /\ D(<< >>, 0) = 0
  BY <1>1, LFacts, DFacts
<1>3. Proper(<< >>)
  BY <1>1 DEF Proper
<1>4. Content(<< >>, << >>, c)
  BY <1>1, <1>2 DEF Content
<1>5. LostIn(<< >>, c) = {}
  BY <1>1 DEF LostIn
<1> QED BY <1>1, <1>2, <1>3, <1>4, <1>5 DEF Rep

\* The stream has a length.
LEMMA TextLength == N \in Nat
  BY ReaderAssumption DEF N

\* The representation in terms of the lemmas above.
LEMMA SInvFacts ==
  ASSUME SInv
  PROVE  /\ blocks \in Seq(Blk) /\ Len(blocks) \in Nat /\ buf \in Seq(Int) /\ Len(buf) \in Nat
         /\ sent \in Nat /\ discard \in Nat /\ len \in Nat /\ cursor \in Nat
         /\ cursor = sent - len + discard /\ cursor + len <= sent + discard
         /\ discard = 0 => cursor + len = sent
         /\ \A i : lenTo(i) = L(blocks, i) /\ dataTo(i) = D(blocks, i)
         /\ avail = AvailIn(blocks) /\ gap = GapIn(blocks)
         /\ lostAhead = LostIn(blocks, cursor)
<1>1. blocks \in Seq(Blk) /\ Len(blocks) \in Nat /\ buf \in Seq(Int) /\ Len(buf) \in Nat
  BY DEF SInv, Rep, Proper
<1>2. sent \in Nat /\ discard \in Nat /\ len \in Nat /\ len <= sent
  BY TextLength, ReaderAssumption DEF SInv, Lengths
<1>3. cursor = sent - len + discard
  BY DEF cursor
<1>4. cursor \in Nat /\ cursor + len <= sent + discard /\ (discard = 0 => cursor + len = sent)
  BY <1>2, <1>3
<1>5. \A i : lenTo(i) = L(blocks, i) /\ dataTo(i) = D(blocks, i)
  BY DEF lenTo, dataTo, L, D
<1>6. avail = AvailIn(blocks) /\ gap = GapIn(blocks)
  BY <1>5 DEF avail, gap, AvailIn, GapIn, gapped, GappedIn
<1>7. lostAhead = LostIn(blocks, cursor)
  <2>1. DOMAIN blocks = 1..Len(blocks)
    BY <1>1
  <2> QED BY <1>5, <2>1 DEF lostAhead, LostIn
<1> QED BY <1>1, <1>2, <1>3, <1>4, <1>5, <1>6, <1>7

\* The bytes are positions of the stream.
LEMMA BufType ==
  ASSUME SInv
  PROVE  buf \in Seq(Positions)
<1>1. /\ buf \in Seq(Int) /\ Len(buf) \in Nat /\ cursor \in Nat /\ len \in Nat /\ sent \in Nat /\ discard \in Nat
      /\ discard = 0 => cursor + len = sent
  BY SInvFacts
<1>2. len = L(blocks, Len(blocks)) /\ (discard > 0 => len = 0) /\ sent <= N /\ N \in Nat
  BY TextLength DEF SInv, Lengths
<1>3. ASSUME NEW x \in 1..Len(buf) PROVE buf[x] \in Positions
  <2>1. buf[x] \in (cursor + 1)..(cursor + len)
    BY <1>2, BytesApart DEF SInv
  <2>2. buf[x] \in 1..N
    BY <1>1, <1>2, <2>1
  <2> QED BY <2>2 DEF Positions
<1> QED BY <1>1, <1>3

\* A nonempty set of natural numbers has a Least.
LEMMA LeastOf ==
  ASSUME NEW S, S \subseteq Nat, S # {}
  PROVE  Least(S) \in S /\ \A j \in S : Least(S) <= j
<1>1. PICK i \in S : \A j \in S : i <= j
  BY Smallest
<1>2. Least(S) = i
  <2>1. S \subseteq Int
    OBVIOUS
  <2> QED BY <1>1, <2>1, LeastFacts
<1> QED BY <1>1, <1>2

\* What Buffer.Discard(n) achieves.
DiscardDone(n) ==
  /\ Rep(blocks', buf', cursor + n)
  /\ len' = L(blocks', Len(blocks')) /\ len' \in Nat /\ len' <= len
  /\ discard' \in Nat /\ discard' - len' = (discard - len) + n
  /\ discard' = discard \/ discard' = (discard - len) + n
  /\ discard' > 0 => len' = 0
  /\ Len(buf') <= Len(buf)
  /\ LostIn(blocks', cursor + n) = Beyond(LostIn(blocks, cursor), cursor + n)

\* A Discard that outlasts the buffer.
LEMMA DiscardAll ==
  ASSUME SInv, NEW n \in Nat, buf' = <<>>, len' = 0, blocks' = <<>>,
         discard' = discard + n - len, len <= n
  PROVE  DiscardDone(n)
<1>1. /\ blocks \in Seq(Blk) /\ cursor \in Nat /\ discard \in Nat /\ len \in Nat /\ len = L(blocks, Len(blocks))
      /\ Len(buf) \in Nat
  BY SInvFacts DEF SInv, Lengths
<1>2. cursor + n \in Int /\ cursor \in Int
  BY <1>1
<1>3. Rep(blocks', buf', cursor + n) /\ len' = L(blocks', Len(blocks')) /\ LostIn(blocks', cursor + n) = {} /\ Len(buf') = 0
  BY <1>2, EmptyRep
<1>4. LostIn(blocks, cursor) \subseteq (cursor + 1)..(cursor + len)
  BY <1>1, <1>2, LostRange
<1>5. Beyond(LostIn(blocks, cursor), cursor + n) = {}
  BY <1>1, <1>4, SMTT(40) DEF Beyond
<1>6. discard' = (discard - len) + n /\ discard' - len' = (discard - len) + n /\ discard' \in Nat
  BY <1>1
<1>7. len' \in Nat /\ len' <= len /\ Len(buf') <= Len(buf)
  BY <1>1, <1>3
<1> QED BY <1>3, <1>5, <1>6, <1>7 DEF DiscardDone

\* Arithmetic of DiscardSome.
LEMMA LessNat ==
  ASSUME NEW a \in Nat, NEW n \in Nat, n < a
  PROVE  a - n \in Nat /\ a - n <= a /\ 0 - (a - n) = (0 - a) + n
  OBVIOUS

\* A Discard that ends inside block i.
LEMMA DiscardSome ==
  ASSUME SInv, NEW i \in 1..Len(blocks), NEW t \in Nat, t < blocks[i].gap + blocks[i].dataLen,
         buf' = SubSeq(buf, D(blocks, i - 1) + taken(blocks[i], t) + 1, Len(buf)),
         len' = len - (L(blocks, i - 1) + t),
         blocks' = Rest(blocks, i, trimmed(blocks[i], t)),
         discard' = discard
  PROVE  DiscardDone(L(blocks, i - 1) + t)
<1> DEFINE n == L(blocks, i - 1) + t
<1>1. Rep(blocks, buf, cursor)
  BY DEF SInv
<1>2. /\ Rep(blocks', buf', cursor + n)
      /\ L(blocks', Len(blocks')) = L(blocks, Len(blocks)) - n
      /\ Len(buf') <= Len(buf)
      /\ LostIn(blocks', cursor + n) = Beyond(LostIn(blocks, cursor), cursor + n)
  <2>1. CutDone(blocks, buf, cursor, i, t)
    BY <1>1, Cut
  <2> QED BY <2>1 DEF CutDone
<1>3. /\ blocks \in Seq(Blk) /\ Len(blocks) \in Nat /\ discard \in Nat /\ len \in Nat
      /\ len = L(blocks, Len(blocks)) /\ (discard > 0 => len = 0)
  BY SInvFacts DEF SInv, Lengths
<1>4. n \in Nat /\ n < len
  <2> DEFINE p == L(blocks, i - 1)
             s == blocks[i].gap + blocks[i].dataLen
  <2>1. i - 1 \in 0..Len(blocks) /\ i \in 0..Len(blocks) /\ Len(blocks) \in i..Len(blocks)
    BY <1>3
  <2>2. p \in Nat /\ L(blocks, i) = p + s /\ L(blocks, i) <= len
    BY <1>3, <2>1, LFacts
  <2>3. t < s /\ s \in Nat
    BY <1>3, LensType
  <2> HIDE DEF p, s
  <2>4. p + t \in Nat /\ p + t < len
    BY <1>3, <2>2, <2>3
  <2> QED BY <2>4 DEF p
<1>5. len' = len - n
  OBVIOUS
<1> HIDE DEF n
<1>6. len' = L(blocks', Len(blocks'))
  BY <1>2, <1>3, <1>5
<1>7. len' \in Nat /\ len' <= len /\ discard' \in Nat /\ discard' - len' = (discard - len) + n /\ ~(discard' > 0)
  <2>1. discard = 0 /\ discard' = 0
    BY <1>3, <1>4
  <2>2. len - n \in Nat /\ len - n <= len /\ 0 - (len - n) = (0 - len) + n
    BY <1>3, <1>4, LessNat
  <2> QED BY <1>5, <2>1, <2>2
<1>8. DiscardDone(n)
  BY <1>2, <1>6, <1>7 DEF DiscardDone
<1> QED BY <1>8 DEF n

\* Buffer.Discard in all cases.
LEMMA DiscardFacts ==
  ASSUME SInv, NEW n \in Nat, BufferDiscard(n)
  PROVE  DiscardDone(n)
<1> DEFINE outlast == {i \in DOMAIN blocks : lenTo(i) > n}
           i == Least(outlast)
           t == n - lenTo(i - 1)
<1>1. /\ blocks \in Seq(Blk) /\ Len(blocks) \in Nat /\ DOMAIN blocks = 1..Len(blocks) /\ len \in Nat
      /\ \A k : lenTo(k) = L(blocks, k) /\ dataTo(k) = D(blocks, k)
  BY SInvFacts
<1>2. L(blocks, 0) = 0 /\ \A k \in 0..Len(blocks) : L(blocks, k) \in Nat
  BY <1>1, LFacts
<1>3. len = L(blocks, Len(blocks))
  BY DEF SInv, Lengths
<1>4. CASE outlast = {}
  <2>1. buf' = <<>> /\ len' = 0 /\ blocks' = <<>> /\ discard' = discard + n - lenTo(Len(blocks))
    BY <1>4 DEF BufferDiscard
  <2>2. len <= n
    <3>1. CASE Len(blocks) = 0
      BY <1>2, <1>3, <3>1
    <3>2. CASE Len(blocks) # 0
      <4>1. Len(blocks) \in DOMAIN blocks
        BY <1>1, <3>2
      <4>2. ~(lenTo(Len(blocks)) > n)
        BY <1>4, <4>1
      <4> QED BY <1>1, <1>3, <4>2
    <3> QED BY <3>1, <3>2
  <2>3. discard' = discard + n - len
    BY <1>1, <1>3, <2>1
  <2> QED BY <2>1, <2>2, <2>3, DiscardAll
<1>5. CASE outlast # {}
  <2>1. /\ buf' = SubSeq(buf, dataTo(i - 1) + taken(blocks[i], t) + 1, Len(buf))
        /\ len' = len - t - lenTo(i - 1)
        /\ blocks' = <<trimmed(blocks[i], t)>> \o SubSeq(blocks, i + 1, Len(blocks))
        /\ discard' = discard
    BY <1>5 DEF BufferDiscard
  <2>2. outlast \subseteq Nat
    BY <1>1
  <2>3. i \in outlast /\ \A j \in outlast : i <= j
    <3> HIDE DEF outlast
    <3> QED BY <1>5, <2>2, LeastOf
  <2>4. i \in 1..Len(blocks) /\ L(blocks, i) > n
    BY <1>1, <2>3
  <2>5. i - 1 \in 0..Len(blocks) /\ (i - 1 = 0 \/ i - 1 \in 1..Len(blocks)) /\ i - 1 < i
    BY <1>1, <2>4
  <2>6. i - 1 \notin outlast
    <3> HIDE DEF outlast
    <3>1. \A j \in outlast : j \in Nat /\ i <= j
      BY <2>2, <2>3
    <3>2. i - 1 \in Int /\ i \in Int
      BY <2>4
    <3> QED BY <2>5, <3>1, <3>2
  <2>7. L(blocks, i - 1) <= n /\ L(blocks, i - 1) \in Nat
    <3>1. CASE i - 1 = 0
      BY <1>2, <3>1
    <3>2. CASE i - 1 \in 1..Len(blocks)
      <4>1. ~(L(blocks, i - 1) > n)
        BY <1>1, <2>6, <3>2
      <4> QED BY <1>2, <2>5, <4>1
    <3> QED BY <2>5, <3>1, <3>2
  <2> HIDE DEF outlast, i
  <2> DEFINE p == L(blocks, i - 1)
             s == blocks[i].gap + blocks[i].dataLen
  <2>8. t = n - p /\ L(blocks, i) = p + s /\ s \in Nat /\ lenTo(i - 1) = p /\ dataTo(i - 1) = D(blocks, i - 1)
    <3>1. lenTo(i - 1) = p /\ dataTo(i - 1) = D(blocks, i - 1)
      BY <1>1
    <3>2. L(blocks, i) = p + s
      BY <1>1, <2>4, LFacts
    <3>3. s \in Nat
      BY <1>1, <2>4, LensType
    <3> QED BY <3>1, <3>2, <3>3
  <2> HIDE DEF t, p, s
  <2>9. t \in Nat /\ n = p + t /\ t < s /\ len - t - p = len - (p + t)
    BY <1>1, <2>4, <2>7, <2>8 DEF p
  <2>10. /\ buf' = SubSeq(buf, D(blocks, i - 1) + taken(blocks[i], t) + 1, Len(buf))
         /\ len' = len - (L(blocks, i - 1) + t)
         /\ blocks' = Rest(blocks, i, trimmed(blocks[i], t))
    BY <2>1, <2>8, <2>9 DEF Rest, p
  <2>11. DiscardDone(p + t)
    BY <2>1, <2>4, <2>9, <2>10, DiscardSome DEF p, s
  <2> QED BY <2>9, <2>11
<1> QED BY <1>4, <1>5

-----------------------------------------------------------------------------
(* Writing.                                                                *)

\* The positions among those from f to l that are behind p.
Later(f, l, p) == {x \in f..l : x > p}

\* Of a gap of k and bytes after it, when d are owed: the bytes still owed
\* after the gap, and what is left of the gap.
Owed(d, k)  == IF d <= k THEN 0 ELSE d - k
Skip1(d, k) == IF d <= k THEN k - d ELSE 0

\* A reader with l positions ahead of it, of the s that have arrived, or d
\* short of them, is given a gap of k and then m bytes.
Numbers(s, l, d, k, m, c, owed, skip1) ==
  /\ skip1 \in Nat /\ owed \in Nat /\ m - owed \in Nat /\ c \in Nat
  /\ skip1 + (m - owed) = (k + m) - d /\ skip1 + (m - owed) > 0
  /\ s + k + owed = c + l + skip1
  /\ Later(s + 1, s + k, c) = (c + l + 1)..(c + l + skip1)
  /\ Later(s + k + 1, s + k + m, c) = (c + l + skip1 + 1)..(c + l + skip1 + (m - owed))

\* How many bytes of a write are dropped because they are owed, and where
\* the others are.
LEMMA WriteNumbers ==
  ASSUME NEW s \in Nat, NEW l \in Nat, NEW d \in Nat, NEW k \in Nat, NEW m \in Nat,
         d > 0 => l = 0, d < k + m, l <= s
  PROVE  Numbers(s, l, d, k, m, s - l + d, Owed(d, k), Skip1(d, k))
<1> DEFINE c == s - l + d
           owed == Owed(d, k)
           skip1 == Skip1(d, k)
<1>0. /\ c = s - l + d /\ owed = (IF d <= k THEN 0 ELSE d - k)
      /\ skip1 = IF d <= k THEN k - d ELSE 0
  BY DEF Owed, Skip1
<1> HIDE DEF c, owed, skip1
<1> SUFFICES Numbers(s, l, d, k, m, c, owed, skip1)
  BY DEF c, owed, skip1
<1>1. CASE d = 0
  <2>1. owed = 0 /\ skip1 = k /\ c = s - l /\ c + l = s
    BY <1>0, <1>1
  <2>2. Later(s + 1, s + k, c) = (c + l + 1)..(c + l + skip1)
    BY <2>1 DEF Later
  <2>3. Later(s + k + 1, s + k + m, c) = (c + l + skip1 + 1)..(c + l + skip1 + (m - owed))
    BY <2>1 DEF Later
  <2>4. /\ skip1 \in Nat /\ owed \in Nat /\ m - owed \in Nat /\ c \in Nat
        /\ skip1 + (m - owed) = (k + m) - d /\ skip1 + (m - owed) > 0
        /\ s + k + owed = c + l + skip1
    BY <1>1, <2>1
  <2> QED BY <2>2, <2>3, <2>4 DEF Numbers
<1>2. CASE d > 0 /\ d <= k
  <2>1. owed = 0 /\ skip1 = k - d /\ c = s + d /\ l = 0
    BY <1>0, <1>2
  <2>2. Later(s + 1, s + k, c) = (c + l + 1)..(c + l + skip1)
    BY <1>2, <2>1 DEF Later
  <2>3. Later(s + k + 1, s + k + m, c) = (c + l + skip1 + 1)..(c + l + skip1 + (m - owed))
    BY <1>2, <2>1 DEF Later
  <2>4. /\ skip1 \in Nat /\ owed \in Nat /\ m - owed \in Nat /\ c \in Nat
        /\ skip1 + (m - owed) = (k + m) - d /\ skip1 + (m - owed) > 0
        /\ s + k + owed = c + l + skip1
    BY <1>2, <2>1
  <2> QED BY <2>2, <2>3, <2>4 DEF Numbers
<1>3. CASE d > k
  <2>1. owed = d - k /\ skip1 = 0 /\ c = s + d /\ l = 0
    BY <1>0, <1>3
  <2>2. Later(s + 1, s + k, c) = (c + l + 1)..(c + l + skip1)
    BY <1>3, <2>1 DEF Later
  <2>3. Later(s + k + 1, s + k + m, c) = (c + l + skip1 + 1)..(c + l + skip1 + (m - owed))
    BY <1>3, <2>1 DEF Later
  <2>4. /\ skip1 \in Nat /\ owed \in Nat /\ m - owed \in Nat /\ c \in Nat
        /\ skip1 + (m - owed) = (k + m) - d /\ skip1 + (m - owed) > 0
        /\ s + k + owed = c + l + skip1
    BY <1>3, <2>1
  <2> QED BY <2>2, <2>3, <2>4 DEF Numbers
<1> QED BY <1>1, <1>2, <1>3

\* The same when all of it is owed.
LEMMA OwedNumbers ==
  ASSUME NEW s \in Nat, NEW l \in Nat, NEW d \in Nat, NEW k \in Nat, NEW m \in Nat,
         d > 0 => l = 0, d >= k + m, l <= s
  PROVE  Later(s + 1, s + k, s - l + d) = {} /\ Later(s + k + 1, s + k + m, s - l + d) = {}
  BY DEF Later

\* The two ways Write adds data to the blocks.
LEMMA AppendExtends ==
  ASSUME NEW bs \in Seq(Blk), NEW skip \in Nat, NEW count \in Nat
  PROVE  /\ Extends(Append(bs, [gap |-> skip, dataLen |-> count]), bs, skip, count)
         /\ Len(Append(bs, [gap |-> skip, dataLen |-> count])) = Len(bs) + 1
<1> DEFINE x == [gap |-> skip, dataLen |-> count]
<1>1. x \in Blk
  BY DEF Blk
<1> HIDE DEF x
<1>2. /\ Append(bs, x) \in Seq(Blk) /\ Len(Append(bs, x)) = Len(bs) + 1 /\ Len(bs) \in Nat
      /\ Append(bs, x)[Len(bs) + 1] = x
      /\ \A k \in 1..Len(bs) : Append(bs, x)[k] = bs[k]
  BY <1>1
<1>3. (Len(bs) + 1) - 1 = Len(bs) /\ Len(bs) + 1 \in Nat \ {0}
  BY <1>2
<1>4. Extends(Append(bs, x), bs, skip, count)
  BY <1>2, <1>3 DEF Extends, x
<1> QED BY <1>2, <1>4 DEF x

\* A write without a gap extends the last block.
LEMMA GrowExtends ==
  ASSUME NEW bs \in Seq(Blk), Len(bs) # 0, NEW count \in Nat
  PROVE  /\ Extends([bs EXCEPT ![Len(bs)].dataLen = @ + count], bs, 0, count)
         /\ Len([bs EXCEPT ![Len(bs)].dataLen = @ + count]) = Len(bs)
<1> DEFINE n == Len(bs)
           bs2 == [bs EXCEPT ![n].dataLen = @ + count]
<1>1. n \in Nat \ {0} /\ n \in 1..n /\ bs \in [1..n -> Blk] /\ DOMAIN bs = 1..n
  OBVIOUS
<1>2. bs[n] \in Blk
  BY <1>1
<1>3. bs[n] = [gap |-> bs[n].gap, dataLen |-> bs[n].dataLen] /\ bs[n].gap \in Nat /\ bs[n].dataLen \in Nat
  BY <1>2 DEF Blk
<1> DEFINE x == [gap |-> bs[n].gap, dataLen |-> bs[n].dataLen + count]
<1>4. [bs[n] EXCEPT !.dataLen = @ + count] = x
  BY <1>2 DEF Blk
<1>5. x \in Blk
  BY <1>3 DEF Blk
<1>6. bs2 = [bs EXCEPT ![n] = x]
  BY <1>4
<1> HIDE DEF x, n, bs2
<1>7. bs2 \in [1..n -> Blk] /\ bs2[n] = x /\ \A k \in 1..n : k # n => bs2[k] = bs[k]
  BY <1>1, <1>5, <1>6
<1>8. bs2 \in Seq(Blk) /\ Len(bs2) = n
  BY <1>1, <1>7
<1>9. \A k \in 1..(n - 1) : bs2[k] = bs[k]
  BY <1>1, <1>7
<1>10. Extends(bs2, bs, 0, count)
  BY <1>1, <1>7, <1>8, <1>9 DEF Extends, x, n
<1> QED BY <1>8, <1>10 DEF n, bs2

\* What Buffer.Write achieves when it succeeds.
WriteDone(skip, count) ==
  /\ Rep(blocks', buf', cursor)
  /\ len' = L(blocks', Len(blocks')) /\ len' \in Nat
  /\ discard' \in Nat /\ discard' <= discard
  /\ len' - discard' = (len - discard) + (skip + count)
  /\ discard' > 0 => len' = 0
  /\ Len(buf') <= Cap
  /\ LostIn(blocks', cursor) = LostIn(blocks, cursor) \cup Later(sent + 1, sent + skip, cursor)

\* Whether the bytes that arrive and are not owed are too many.
TooMuch(skip, count) ==
  LET new == Later(sent + skip + 1, sent + skip + count, cursor)
  IN  new # {} /\ Len(buf) + Cardinality(new) > Cap

\* A write all of which is owed.
LEMMA WriteOwed ==
  ASSUME SInv, NEW skip \in Nat, NEW count \in Nat, discard >= skip + count,
         discard' = discard - skip - count, UNCHANGED <<buf, len, blocks>>
  PROVE  ~TooMuch(skip, count) /\ WriteDone(skip, count)
<1>1. /\ sent \in Nat /\ discard \in Nat /\ len \in Nat /\ cursor = sent - len + discard
      /\ len <= sent /\ (discard > 0 => len = 0) /\ len = L(blocks, Len(blocks))
      /\ Len(buf) <= Cap /\ Rep(blocks, buf, cursor)
  BY SInvFacts DEF SInv, Lengths
<1>2. Later(sent + 1, sent + skip, cursor) = {} /\ Later(sent + skip + 1, sent + skip + count, cursor) = {}
  BY <1>1, OwedNumbers
<1>3. ~TooMuch(skip, count)
  BY <1>2 DEF TooMuch
<1>4. /\ discard' \in Nat /\ discard' <= discard /\ len' - discard' = (len - discard) + (skip + count)
      /\ (discard' > 0 => len' = 0)
  <2>1. discard - skip - count \in Nat /\ discard - skip - count <= discard
        /\ len - (discard - skip - count) = (len - discard) + (skip + count)
    BY <1>1
  <2> QED BY <1>1, <2>1
<1> QED BY <1>1, <1>2, <1>3, <1>4 DEF WriteDone

\* A buffer that covers no position has no block.
LEMMA NoBlocks ==
  ASSUME NEW bs, Proper(bs), L(bs, Len(bs)) = 0
  PROVE  Len(bs) = 0
<1> SUFFICES ASSUME Len(bs) # 0 PROVE FALSE
  OBVIOUS
<1>1. bs \in Seq(Blk) /\ Len(bs) \in Nat /\ 1 \in 1..Len(bs) /\ Len(bs) \in 1..Len(bs) /\ 1 \in 0..Len(bs) /\ 1 - 1 = 0
  BY DEF Proper
<1>2. bs[1].gap + bs[1].dataLen > 0
  BY <1>1 DEF Proper, blockLen
<1>3. L(bs, 1) = 0 + (bs[1].gap + bs[1].dataLen) /\ L(bs, 1) <= L(bs, Len(bs)) /\ bs[1].gap \in Nat /\ bs[1].dataLen \in Nat
  BY <1>1, LFacts, LensType
<1> QED BY <1>2, <1>3

\* The bytes of a run of positions.
LEMMA DataFacts ==
  ASSUME NEW z \in Nat, NEW p \in Int
  PROVE  LET data == [i \in 1..z |-> p + i]
         IN  data \in Seq(Int) /\ Len(data) = z /\ \A i \in 1..z : data[i] = p + i
  OBVIOUS

\* The length of a run of positions.
LEMMA RunLength ==
  ASSUME NEW p \in Int, NEW z \in Nat
  PROVE  Cardinality((p + 1)..(p + z)) = z /\ ((p + 1)..(p + z) # {} <=> z > 0)
<1>1. p + 1 \in Int /\ p + z \in Int
  OBVIOUS
<1>2. Cardinality((p + 1)..(p + z)) = IF p + 1 > p + z THEN 0 ELSE (p + z) - (p + 1) + 1
  BY <1>1, FS_Interval
<1>3. (IF p + 1 > p + z THEN 0 ELSE (p + z) - (p + 1) + 1) = z
  OBVIOUS
<1>4. z > 0 => p + 1 \in (p + 1)..(p + z)
  OBVIOUS
<1>5. ~(z > 0) => (p + 1)..(p + z) = {}
  OBVIOUS
<1> QED BY <1>2, <1>3, <1>4, <1>5

\* The bytes Write adds.
Data(skip, count) == [i \in 1..(count - Owed(discard, skip)) |-> sent + skip + Owed(discard, skip) + i]

\* A write of which something is left.
LEMMA WriteNew ==
  ASSUME SInv, NEW skip \in Nat, NEW count \in Nat, discard < skip + count
  PROVE  /\ Numbers(sent, len, discard, skip, count, cursor, Owed(discard, skip), Skip1(discard, skip))
         /\ Data(skip, count) \in Seq(Int) /\ Len(Data(skip, count)) = count - Owed(discard, skip)
         /\ \A i \in 1..Len(Data(skip, count)) :
              Data(skip, count)[i] = cursor + len + Skip1(discard, skip) + i
         /\ Len(buf) + Len(Data(skip, count)) > Cap <=> TooMuch(skip, count)
<1> DEFINE owed == Owed(discard, skip)
           skip1 == Skip1(discard, skip)
           z == count - owed
           p == cursor + len + skip1
           New == Later(sent + skip + 1, sent + skip + count, cursor)
<1>1. /\ sent \in Nat /\ discard \in Nat /\ len \in Nat /\ cursor = sent - len + discard
      /\ len <= sent /\ (discard > 0 => len = 0)
      /\ Len(buf) <= Cap /\ Len(buf) \in Nat /\ cursor \in Int /\ Cap \in Nat
  BY SInvFacts, ReaderAssumption DEF SInv, Lengths
<1>2. Numbers(sent, len, discard, skip, count, cursor, owed, skip1)
  BY <1>1, WriteNumbers
<1>3. /\ skip1 \in Nat /\ z \in Nat
      /\ sent + skip + owed = p
      /\ New = (p + 1)..(p + z)
  BY <1>2 DEF Numbers
<1>4. p \in Int
  <2> HIDE DEF skip1
  <2> QED BY <1>1, <1>3
<1>5. Data(skip, count) = [i \in 1..z |-> p + i]
  BY <1>3 DEF Data
<1> HIDE DEF z, New, p
<1>6. Data(skip, count) \in Seq(Int) /\ Len(Data(skip, count)) = z /\ \A i \in 1..z : Data(skip, count)[i] = p + i
  <2> DEFINE data == [i \in 1..z |-> p + i]
  <2>1. data \in Seq(Int) /\ Len(data) = z /\ \A i \in 1..z : data[i] = p + i
    BY <1>3, <1>4, DataFacts
  <2> QED BY <1>5, <2>1
<1>7. Cardinality(New) = z /\ (New # {} <=> z > 0)
  <2>1. Cardinality((p + 1)..(p + z)) = z /\ ((p + 1)..(p + z) # {} <=> z > 0)
    BY <1>3, <1>4, RunLength
  <2> QED BY <1>3, <2>1
<1>8. Len(buf) + Len(Data(skip, count)) > Cap <=> TooMuch(skip, count)
  <2> DEFINE y == Len(buf)
  <2>1. y \in Nat /\ y <= Cap
    BY <1>1
  <2> HIDE DEF y
  <2>2. y + z > Cap <=> (z > 0 /\ y + z > Cap)
    BY <1>1, <1>3, <2>1
  <2> QED BY <1>6, <1>7, <2>2 DEF TooMuch, New, y
<1> QED BY <1>2, <1>6, <1>8 DEF z, p

\* Arithmetic of WriteData.
LEMMA SumOf ==
  ASSUME NEW l \in Nat, NEW k \in Nat, NEW z \in Nat, NEW d \in Nat, NEW e \in Nat, k + z = e - d
  PROVE  l + k + z \in Nat /\ (l + k + z) - 0 = (l - d) + e
  OBVIOUS

\* Such a write when there is room for it.
LEMMA WriteData ==
  ASSUME SInv, NEW skip \in Nat, NEW count \in Nat, discard < skip + count, ~TooMuch(skip, count),
         Extends(blocks', blocks, Skip1(discard, skip), Len(Data(skip, count))),
         Len(blocks') > Len(blocks) => Skip1(discard, skip) > 0 \/ Len(blocks) = 0,
         buf' = buf \o Data(skip, count), discard' = 0,
         len' = len + Skip1(discard, skip) + Len(Data(skip, count))
  PROVE  WriteDone(skip, count)
<1> DEFINE skip1 == Skip1(discard, skip)
           data == Data(skip, count)
           z == Len(data)
<1>1. /\ discard \in Nat /\ len \in Nat /\ Rep(blocks, buf, cursor) /\ len = L(blocks, Len(blocks))
      /\ blocks \in Seq(Blk) /\ cursor \in Int /\ Len(buf) \in Nat /\ Cap \in Nat
  BY SInvFacts, ReaderAssumption DEF SInv, Lengths
<1>2. /\ data \in Seq(Int) /\ \A i \in 1..z : data[i] = cursor + len + skip1 + i
      /\ ~(Len(buf) + z > Cap)
      /\ Numbers(sent, len, discard, skip, count, cursor, Owed(discard, skip), skip1)
      /\ z = count - Owed(discard, skip)
  BY WriteNew
<1>3. /\ skip1 \in Nat /\ z \in Nat /\ skip1 + z = (skip + count) - discard /\ skip1 + z > 0
      /\ Later(sent + 1, sent + skip, cursor) = (cursor + len + 1)..(cursor + len + skip1)
  BY <1>2 DEF Numbers
<1>4. /\ Extends(blocks', blocks, skip1, z) /\ (Len(blocks') > Len(blocks) => skip1 > 0 \/ Len(blocks) = 0)
      /\ buf' = buf \o data /\ discard' = 0 /\ len' = len + skip1 + z
  OBVIOUS
<1> HIDE DEF skip1, data
<1>5. /\ Rep(blocks', buf', cursor)
      /\ L(blocks', Len(blocks')) = L(blocks, Len(blocks)) + skip1 + z
      /\ Len(buf') = Len(buf) + z
  <2>1. Follows(data, blocks', blocks, cursor, skip1)
    BY <1>1, <1>2, <1>3, <1>4 DEF Follows
  <2>2. Rep(blocks, buf, cursor) /\ skip1 \in Nat /\ data \in Seq(Int)
    BY <1>1, <1>2, <1>3
  <2>3. /\ Rep(blocks', buf \o data, cursor)
        /\ L(blocks', Len(blocks')) = L(blocks, Len(blocks)) + skip1 + Len(data)
        /\ Len(buf \o data) = Len(buf) + Len(data)
    BY ONLY <2>1, <2>2, ExtendRep
  <2> QED BY <1>4, <2>3
<1> HIDE DEF z
<1>6. LostIn(blocks', cursor) = LostIn(blocks, cursor) \cup ((cursor + len + 1)..(cursor + len + skip1))
  <2>1. LostIn(blocks', cursor) = LostIn(blocks, cursor) \cup
          ((cursor + L(blocks, Len(blocks)) + 1)..(cursor + L(blocks, Len(blocks)) + skip1))
    <3>1. blocks \in Seq(Blk) /\ cursor \in Int /\ skip1 \in Nat /\ z \in Nat /\ Extends(blocks', blocks, skip1, z)
      BY <1>1, <1>3, <1>4
    <3> QED BY ONLY <3>1, ExtendLost, ZenonT(20)
  <2> QED BY <1>1, <2>1
<1>7. Len(buf') <= Cap
  BY <1>1, <1>2, <1>3, <1>5, SMTT(40)
<1>8. /\ len' \in Nat /\ len' - discard' = (len - discard) + (skip + count) /\ discard' \in Nat
      /\ discard' <= discard /\ ~(discard' > 0)
  <2>1. len + skip1 + z \in Nat /\ (len + skip1 + z) - 0 = (len - discard) + (skip + count)
    <3>1. len \in Nat /\ skip1 \in Nat /\ z \in Nat /\ discard \in Nat /\ skip + count \in Nat
          /\ skip1 + z = (skip + count) - discard
      BY <1>1, <1>3
    <3> QED BY ONLY <3>1, SumOf
  <2> QED BY <1>1, <1>4, <2>1
<1>9. len' = L(blocks', Len(blocks'))
  BY <1>1, <1>4, <1>5
<1> QED BY <1>3, <1>5, <1>6, <1>7, <1>8, <1>9 DEF WriteDone

\* A negative skip counts as none.
LEMMA KnownNat == ASSUME NEW skip0 \in Int PROVE known(skip0) \in Nat
  BY DEF known

\* Buffer.Write in all cases.
LEMMA WriteFacts ==
  ASSUME SInv, NEW skip0 \in Int, NEW count \in Nat, NEW full \in BOOLEAN, Write(skip0, count, full)
  PROVE  /\ full <=> TooMuch(known(skip0), count)
         /\ full => UNCHANGED buffer
         /\ ~full => WriteDone(known(skip0), count)
<1> DEFINE skip  == known(skip0)
           skip1 == Skip1(discard, skip)
           data  == Data(skip, count)
           last  == Len(blocks)
<1>1. skip \in Nat /\ discard \in Nat /\ blocks \in Seq(Blk) /\ Len(blocks) \in Nat /\ Proper(blocks) /\ Cap \in Nat /\ Len(buf) \in Nat
  BY KnownNat, SInvFacts, ReaderAssumption DEF SInv, Rep
<1>2. CASE discard >= skip + count
  <2>1. ~full /\ discard' = discard - skip - count /\ UNCHANGED <<buf, len, blocks>>
    BY <1>2 DEF Write
  <2> HIDE DEF skip
  <2>2. ~TooMuch(skip, count) /\ WriteDone(skip, count)
    BY <1>1, <1>2, <2>1, WriteOwed
  <2> QED BY <2>1, <2>2 DEF skip
<1>3. CASE ~(discard >= skip + count)
  <2>1. /\ full = (Len(buf) + Len(data) > Cap)
        /\ full => UNCHANGED buffer
        /\ ~full => /\ buf' = buf \o data
                    /\ discard' = 0
                    /\ blocks' = IF skip1 = 0 /\ last > 0
                                 THEN [blocks EXCEPT ![last].dataLen = @ + Len(data)]
                                 ELSE Append(blocks, [gap |-> skip1, dataLen |-> Len(data)])
                    /\ len' = len + skip1 + Len(data)
    BY <1>3 DEF Write, Data, Owed, Skip1
  <2> HIDE DEF skip
  <2>2. discard < skip + count
    BY <1>1, <1>3
  <2>3. /\ Numbers(sent, len, discard, skip, count, cursor, Owed(discard, skip), skip1)
        /\ Len(data) = count - Owed(discard, skip)
        /\ Len(buf) + Len(data) > Cap <=> TooMuch(skip, count)
    BY <1>1, <2>2, WriteNew
  <2>4. skip1 \in Nat /\ Len(data) \in Nat
    BY <2>3 DEF Numbers
  <2> HIDE DEF skip1, data
  <2>5. ASSUME ~full PROVE WriteDone(skip, count)
    <3>1. ~TooMuch(skip, count) /\ buf' = buf \o data /\ discard' = 0 /\ len' = len + skip1 + Len(data)
      BY <2>1, <2>3, <2>5
    <3>2. Extends(blocks', blocks, skip1, Len(data)) /\ (Len(blocks') > Len(blocks) => skip1 > 0 \/ Len(blocks) = 0)
      <4>1. CASE skip1 = 0 /\ last > 0
        <5>1. blocks' = [blocks EXCEPT ![last].dataLen = @ + Len(data)]
          BY <2>1, <2>5, <4>1
        <5>2. Len(blocks) # 0
          BY <4>1
        <5>3. /\ Extends([blocks EXCEPT ![Len(blocks)].dataLen = @ + Len(data)], blocks, 0, Len(data))
              /\ Len([blocks EXCEPT ![Len(blocks)].dataLen = @ + Len(data)]) = Len(blocks)
          BY <1>1, <2>4, <5>2, GrowExtends
        <5>4. Extends(blocks', blocks, skip1, Len(data)) /\ Len(blocks') = Len(blocks)
          BY <4>1, <5>1, <5>3
        <5> QED BY <1>1, <5>4
      <4>2. CASE ~(skip1 = 0 /\ last > 0)
        <5>1. blocks' = Append(blocks, [gap |-> skip1, dataLen |-> Len(data)])
          BY <2>1, <2>5, <4>2
        <5>2. Extends(blocks', blocks, skip1, Len(data))
          BY <1>1, <2>4, <5>1, AppendExtends
        <5>3. skip1 > 0 \/ Len(blocks) = 0
          BY <1>1, <2>4, <4>2
        <5> QED BY <5>2, <5>3
      <4> QED BY <4>1, <4>2
    <3> QED BY <1>1, <2>2, <3>1, <3>2, WriteData DEF skip1, data
  <2> QED BY <2>1, <2>3, <2>5 DEF skip
<1> QED BY <1>2, <1>3

-----------------------------------------------------------------------------
(* The invariant is preserved.                                             *)

\* A new reader satisfies the invariant.
LEMMA SInvInit == Init => SInv
<1> SUFFICES ASSUME Init PROVE SInv
  OBVIOUS
<1>1. /\ sent = 0 /\ buf = <<>> /\ len = 0 /\ blocks = <<>> /\ discard = 0
      /\ closed = FALSE /\ eof = FALSE /\ err = "nil" /\ result.out = <<>>
  BY DEF Init
<1>2. cursor = 0
  BY <1>1 DEF cursor
<1>3. Rep(blocks, buf, cursor) /\ L(blocks, Len(blocks)) = 0 /\ Len(buf) = 0
  <2>1. 0 \in Int
    OBVIOUS
  <2> QED BY <1>1, <1>2, <2>1, EmptyRep
<1>4. Lengths
  BY <1>1, <1>3, TextLength, ReaderAssumption DEF Lengths
<1>5. result.out \in Seq(Positions)
  BY <1>1
<1> QED BY <1>1, <1>3, <1>4, <1>5 DEF SInv, Flags

\* How the cursor moves with the lengths.
LEMMA CursorMoves ==
  ASSUME NEW s \in Nat, NEW l \in Nat, NEW d \in Nat, NEW n \in Nat, NEW l2 \in Nat, NEW d2 \in Nat,
         d2 - l2 = (d - l) + n
  PROVE  s - l2 + d2 = (s - l + d) + n
  OBVIOUS

\* How it stays where it is when positions arrive.
LEMMA CursorStays ==
  ASSUME NEW s \in Nat, NEW l \in Nat, NEW d \in Nat, NEW k \in Nat, NEW m \in Nat,
         NEW l2 \in Nat, NEW d2 \in Nat, l2 - d2 = (l - d) + (k + m)
  PROVE  (s + k + m) - l2 + d2 = s - l + d
  OBVIOUS

\* A step that leaves the buffer alone.
LEMMA KeepInv ==
  ASSUME SInv, UNCHANGED <<sent, buffer>>, Flags', result'.out \in Seq(Positions)
  PROVE  SInv' /\ cursor' = cursor /\ lostAhead' = lostAhead
<1>1. sent' = sent /\ buf' = buf /\ len' = len /\ blocks' = blocks /\ discard' = discard
  BY DEF buffer
<1>2. cursor' = cursor
  BY <1>1 DEF cursor
<1>3. Lengths'
  BY <1>1 DEF SInv, Lengths
<1>4. lostAhead' = lostAhead
  BY <1>1, <1>2 DEF lostAhead, lenTo
<1> QED BY <1>1, <1>2, <1>3, <1>4 DEF SInv

\* A step that empties it.
LEMMA EmptyInv ==
  ASSUME SInv, BufferReset, sent' \in 0..N, Flags', result'.out \in Seq(Positions)
  PROVE  SInv' /\ cursor' = sent' /\ lostAhead' = {}
<1>1. buf' = <<>> /\ len' = 0 /\ blocks' = <<>> /\ discard' = 0
  BY DEF BufferReset
<1>2. cursor' = sent' /\ cursor' \in Int
  <2>1. sent' \in Nat
    BY TextLength
  <2>2. cursor' = sent' - 0 + 0
    BY <1>1 DEF cursor
  <2>3. PICK s \in Nat : s = sent'
    BY <2>1
  <2>4. s - 0 + 0 = s /\ s \in Int
    OBVIOUS
  <2> QED BY ONLY <2>2, <2>3, <2>4
<1>3. /\ Rep(blocks', buf', cursor') /\ L(blocks', Len(blocks')) = 0 /\ Len(buf') = 0
  BY <1>1, <1>2, EmptyRep
<1>4. Lengths'
  BY <1>1, <1>3, TextLength, ReaderAssumption DEF Lengths
<1>5. SInv'
  BY <1>3, <1>4 DEF SInv
<1>6. lostAhead' = {}
  <2>1. DOMAIN blocks' = {}
    BY <1>1
  <2> QED BY <2>1 DEF lostAhead
<1> QED BY <1>2, <1>5, <1>6

\* A step that discards n positions.
LEMMA DiscardInv ==
  ASSUME SInv, NEW n \in Nat, BufferDiscard(n), sent' = sent, Flags', result'.out \in Seq(Positions),
         n <= len \/ discard + n - len <= MaxAhead
  PROVE  SInv' /\ cursor' = cursor + n /\ lostAhead' = Beyond(lostAhead, cursor + n)
<1>1. DiscardDone(n)
  BY DiscardFacts
<1>2. /\ Rep(blocks', buf', cursor + n)
      /\ len' = L(blocks', Len(blocks')) /\ len' \in Nat /\ len' <= len
      /\ discard' \in Nat /\ discard' - len' = (discard - len) + n
      /\ discard' = discard \/ discard' = (discard - len) + n
      /\ discard' > 0 => len' = 0
      /\ Len(buf') <= Len(buf)
      /\ LostIn(blocks', cursor + n) = Beyond(LostIn(blocks, cursor), cursor + n)
  BY <1>1 DEF DiscardDone
<1>3. /\ sent \in Nat /\ discard \in Nat /\ len \in Nat /\ len <= sent /\ sent <= N /\ discard <= MaxAhead
      /\ Len(buf) <= Cap /\ Len(buf) \in Nat /\ MaxAhead \in Nat /\ Cap \in Nat /\ N \in Nat
      /\ cursor = sent - len + discard
  BY SInvFacts, TextLength, ReaderAssumption DEF SInv, Lengths
<1>4. cursor' = cursor + n
  <2>1. cursor' = sent - len' + discard'
    BY DEF cursor
  <2>2. sent - len' + discard' = (sent - len + discard) + n
    <3>1. PICK l2 \in Nat, d2 \in Nat : l2 = len' /\ d2 = discard'
      BY <1>2
    <3>2. sent - l2 + d2 = (sent - len + discard) + n
      <4>1. /\ sent \in Nat /\ len \in Nat /\ discard \in Nat /\ n \in Nat
            /\ d2 - l2 = (discard - len) + n
        BY <1>2, <1>3, <3>1
      <4> QED BY ONLY <4>1, CursorMoves
    <3> QED BY <3>1, <3>2
  <2> QED BY <1>3, <2>1, <2>2
<1>5. discard' <= MaxAhead
  BY <1>2, <1>3
<1>6. Len(buf') \in Nat /\ Len(buf') <= Cap
  <2>1. buf' \in Seq(Int)
    BY <1>2 DEF Rep
  <2>2. Len(buf') \in Nat
    BY <2>1
  <2> QED BY <1>2, <1>3, <2>2
<1>7. len' <= sent /\ sent \in 0..N /\ discard' \in 0..MaxAhead
  BY <1>2, <1>3, <1>5
<1>8. Lengths'
  BY <1>2, <1>6, <1>7 DEF Lengths
<1>9. SInv'
  BY <1>2, <1>4, <1>8 DEF SInv
<1>10. lostAhead' = LostIn(blocks', cursor') /\ lostAhead = LostIn(blocks, cursor)
  <2>1. DOMAIN blocks' = 1..Len(blocks') /\ DOMAIN blocks = 1..Len(blocks)
    <3>1. blocks' \in Seq(Blk) /\ blocks \in Seq(Blk)
      BY <1>2, SInvFacts DEF Rep, Proper
    <3> QED BY <3>1
  <2> QED BY <2>1 DEF lostAhead, LostIn, lenTo, L
<1> QED BY <1>2, <1>4, <1>9, <1>10

\* A step that writes.
LEMMA WriteInv ==
  ASSUME SInv, NEW skip \in Nat, NEW count \in Nat, WriteDone(skip, count),
         sent' = sent + skip + count, sent' <= N, Flags', result'.out \in Seq(Positions)
  PROVE  /\ SInv' /\ cursor' = cursor
         /\ lostAhead' = lostAhead \cup Later(sent + 1, sent + skip, cursor)
<1>2. /\ Rep(blocks', buf', cursor)
      /\ len' = L(blocks', Len(blocks')) /\ len' \in Nat
      /\ discard' \in Nat /\ discard' <= discard
      /\ len' - discard' = (len - discard) + (skip + count)
      /\ discard' > 0 => len' = 0
      /\ Len(buf') <= Cap
      /\ LostIn(blocks', cursor) = LostIn(blocks, cursor) \cup Later(sent + 1, sent + skip, cursor)
  BY DEF WriteDone
<1>3. /\ sent \in Nat /\ discard \in Nat /\ len \in Nat /\ len <= sent /\ discard <= MaxAhead
      /\ MaxAhead \in Nat /\ N \in Nat
      /\ cursor = sent - len + discard
  BY SInvFacts, TextLength, ReaderAssumption DEF SInv, Lengths
<1>4. cursor' = cursor
  <2>1. cursor' = (sent + skip + count) - len' + discard'
    BY DEF cursor
  <2>2. (sent + skip + count) - len' + discard' = sent - len + discard
    <3>1. PICK l2 \in Nat, d2 \in Nat : l2 = len' /\ d2 = discard'
      BY <1>2
    <3>2. (sent + skip + count) - l2 + d2 = sent - len + discard
      <4>1. /\ sent \in Nat /\ len \in Nat /\ discard \in Nat /\ skip \in Nat /\ count \in Nat
            /\ l2 - d2 = (len - discard) + (skip + count)
        BY <1>2, <1>3, <3>1
      <4> QED BY ONLY <4>1, CursorStays
    <3> QED BY <3>1, <3>2
  <2> QED BY <1>3, <2>1, <2>2
<1>5. len' <= sent' /\ sent' \in 0..N /\ discard' \in 0..MaxAhead
  BY <1>2, <1>3
<1>6. Lengths'
  BY <1>2, <1>5 DEF Lengths
<1>7. SInv'
  BY <1>2, <1>4, <1>6 DEF SInv
<1>8. lostAhead' = LostIn(blocks', cursor') /\ lostAhead = LostIn(blocks, cursor)
  <2>1. DOMAIN blocks' = 1..Len(blocks') /\ DOMAIN blocks = 1..Len(blocks)
    <3>1. blocks' \in Seq(Blk) /\ blocks \in Seq(Blk)
      BY <1>2, SInvFacts DEF Rep, Proper
    <3> QED BY <3>1
  <2> QED BY <2>1 DEF lostAhead, LostIn, lenTo, L
<1> QED BY <1>2, <1>4, <1>7, <1>8

-----------------------------------------------------------------------------
(* The reader in terms of the stream.                                      *)

\* The abstract specification counts with the same operator.
LEMMA SameCardinality ==
  ASSUME NEW S
  PROVE  Stream!Cardinality(S) = Cardinality(S)
  BY DEF Stream!Cardinality, Cardinality

\* The window of the stream is what the blocks cover.
LEMMA WindowFacts ==
  ASSUME SInv
  PROVE  /\ Stream!Window = (cursor + 1)..(cursor + len)
         /\ Cardinality(Stream!Window) = len
         /\ Cardinality(Stream!Window \ lostAhead) = Len(buf)
<1>1. /\ sent \in Nat /\ discard \in Nat /\ len \in Nat /\ cursor \in Nat /\ cursor \in Int
      /\ cursor = sent - len + discard /\ (discard = 0 => cursor + len = sent)
      /\ lostAhead = LostIn(blocks, cursor)
  BY SInvFacts
<1>2. len = L(blocks, Len(blocks)) /\ (discard > 0 => len = 0) /\ Rep(blocks, buf, cursor)
  BY DEF SInv, Lengths
<1>3. (cursor + 1)..sent = (cursor + 1)..(cursor + len)
  <2>1. CASE discard = 0
    BY <1>1, <2>1
  <2>2. CASE discard # 0
    <3>1. len = 0 /\ discard > 0
      BY <1>1, <1>2, <2>2
    <3>2. sent < cursor + 1 /\ cursor + len < cursor + 1
      BY <1>1, <3>1
    <3> QED BY <1>1, <3>2
  <2> QED BY <2>1, <2>2
<1>4. Stream!Window = (cursor + 1)..(cursor + len)
  BY <1>3 DEF Stream!Window
<1>5. Cardinality((cursor + 1)..(cursor + len)) = len
  BY <1>1, RunLength
<1>6. Cardinality(((cursor + 1)..(cursor + L(blocks, Len(blocks)))) \ LostIn(blocks, cursor)) = Len(buf)
  BY <1>2, BytesCounted
<1> QED BY <1>1, <1>2, <1>4, <1>5, <1>6

\* What can be read: the bytes before the first loss, which is reported with
\* a size the stream agrees with.
LEMMA StreamFacts ==
  ASSUME SInv
  PROVE  /\ avail \in Nat /\ gap \in Nat /\ avail <= Len(buf) /\ avail + gap <= len
         /\ \A j \in 1..avail : buf[j] = cursor + j
         /\ gap = 0 => lostAhead = {} /\ avail = len
         /\ gap > 0 => lostAhead # {} /\ avail < len /\ gap \in Stream!Gaps
         /\ Stream!Avail = avail
<1>1. /\ sent \in Nat /\ discard \in Nat /\ len \in Nat /\ cursor \in Nat
      /\ lostAhead = LostIn(blocks, cursor)
      /\ avail = AvailIn(blocks) /\ gap = GapIn(blocks)
  BY SInvFacts
<1>2. len = L(blocks, Len(blocks)) /\ Rep(blocks, buf, cursor) /\ len <= sent /\ sent <= N /\ N \in Nat
  BY TextLength DEF SInv, Lengths
<1>3. Readable(blocks, buf, cursor, avail, gap)
  BY <1>1, <1>2, AvailFacts
<1>4. /\ avail \in Nat /\ gap \in Nat /\ avail <= Len(buf) /\ avail + gap <= len
      /\ \A j \in 1..avail : buf[j] = cursor + j
      /\ gap = 0 => lostAhead = {} /\ avail = len
      /\ gap > 0 => /\ (cursor + avail + 1)..(cursor + avail + gap) \subseteq lostAhead
                    /\ \A p \in lostAhead : cursor + avail + 1 <= p
  BY <1>1, <1>2, <1>3 DEF Readable
<1> HIDE DEF avail, gap, lostAhead, cursor
<1>5. CASE gap = 0
  <2>1. Stream!Avail = len
    BY <1>4, <1>5, WindowFacts, SameCardinality DEF Stream!Avail
  <2> QED BY <1>4, <1>5, <2>1
<1>6. CASE gap > 0
  <2> DEFINE p == cursor + avail + 1
  <2>1. p \in lostAhead /\ \A q \in lostAhead : p <= q
    <3>1. p \in (cursor + avail + 1)..(cursor + avail + gap)
      BY <1>1, <1>4, <1>6
    <3> QED BY <1>4, <1>6, <3>1
  <2>2. lostAhead \subseteq Int
    <3>1. LostIn(blocks, cursor) \subseteq (cursor + 1)..(cursor + L(blocks, Len(blocks)))
      BY <1>1, SInvFacts, LostRange
    <3> QED BY <1>1, <3>1
  <2>3. Least(lostAhead) = p
    BY <2>1, <2>2, LeastFacts
  <2>4. Stream!Avail = Least(lostAhead) - cursor - 1
    BY <2>1 DEF Stream!Avail, Least
  <2>5. Stream!Avail = avail
    BY <1>1, <1>4, <2>3, <2>4
  <2>6. gap \in Stream!Gaps
    <3>1. gap \in 1..N
      BY <1>1, <1>2, <1>4, <1>6
    <3>2. gap \in 1..Stream!N
      BY <3>1 DEF Stream!N, N
    <3> QED BY <1>4, <1>6, <2>5, <3>2 DEF Stream!Gaps
  <2>7. avail < len
    BY <1>1, <1>4, <1>6
  <2> QED BY <1>4, <1>6, <2>1, <2>5, <2>6, <2>7
<1> QED BY <1>4, <1>5, <1>6

\* The first n bytes of buf are the n positions behind the cursor.
LEMMA FirstBytes ==
  ASSUME SInv, NEW n \in 0..avail
  PROVE  SubSeq(buf, 1, n) = Stream!Bytes(n) /\ SubSeq(buf, 1, n) \in Seq(Positions)
<1>1. /\ avail \in Nat /\ avail <= Len(buf) /\ buf \in Seq(Positions) /\ Len(buf) \in Nat
      /\ \A j \in 1..avail : buf[j] = cursor + j
  BY StreamFacts, BufType, SInvFacts
<1> HIDE DEF avail
<1>2. n \in Nat /\ n <= Len(buf)
  BY <1>1
<1>3. SubSeq(buf, 1, n) = [i \in 1..n |-> buf[i]]
  <2>1. SubSeq(buf, 1, n) \in Seq(Positions) /\ Len(SubSeq(buf, 1, n)) = n
    BY <1>1, <1>2
  <2>2. \A i \in 1..n : SubSeq(buf, 1, n)[i] = buf[i]
    BY <1>1, <1>2
  <2> QED BY <2>1, <2>2
<1>4. \A i \in 1..n : buf[i] = cursor + i
  BY <1>1, <1>2
<1>5. [i \in 1..n |-> buf[i]] = [i \in 1..n |-> cursor + i]
  BY <1>4
<1>6. SubSeq(buf, 1, n) \in Seq(Positions)
  BY <1>1, <1>2
<1> QED BY <1>3, <1>5, <1>6 DEF Stream!Bytes

-----------------------------------------------------------------------------
(* Every call keeps the invariant and is a call of the abstract reader.    *)

\* Flags that keep their values keep their types.
LEMMA FlagsKept ==
  ASSUME SInv, UNCHANGED <<closed, eof, err>>
  PROVE  Flags'
  BY DEF SInv, Flags

\* A call of a reader that has failed.
LEMMA FailedStep ==
  ASSUME SInv, NEW op, NEW n, Failed(op, n)
  PROVE  SInv' /\ Stream!Fail(op, n)
<1>1. /\ err = "write" /\ result' = [op |-> op, n |-> n, out |-> <<>>, err |-> "write", gap |-> 0]
      /\ sent' = sent /\ closed' = closed /\ eof' = eof /\ err' = err /\ UNCHANGED <<sent, buffer>>
  BY DEF SInv, Flags, Failed, Return
<1>2. result'.out \in Seq(Positions)
  BY <1>1
<1>3. SInv' /\ cursor' = cursor /\ lostAhead' = lostAhead
  BY <1>1, <1>2, FlagsKept, KeepInv
<1> QED BY <1>1, <1>3 DEF Stream!Fail, Stream!Return

\* A call that moves the cursor.
LEMMA MoveStep ==
  ASSUME SInv, NEW n \in Nat, n <= len \/ discard + n - len <= MaxAhead, BufferDiscard(n),
         UNCHANGED <<sent, closed, eof, err>>, result'.out \in Seq(Positions)
  PROVE  SInv' /\ Stream!MoveTo(cursor + n)
<1>1. Flags' /\ sent' = sent
  BY FlagsKept
<1>2. SInv' /\ cursor' = cursor + n /\ lostAhead' = Beyond(lostAhead, cursor + n)
  BY <1>1, DiscardInv
<1> QED BY <1>2 DEF Stream!MoveTo, Beyond

\* A call that leaves it where it is.
LEMMA StayStep ==
  ASSUME SInv, UNCHANGED <<sent, buffer, closed, eof, err>>, result'.out \in Seq(Positions)
  PROVE  SInv' /\ cursor' = cursor /\ lostAhead' = lostAhead
<1>1. UNCHANGED <<sent, buffer>> /\ Flags'
  BY FlagsKept
<1> QED BY <1>1, KeepInv

\* ReassemblyComplete only marks the end of the stream.
LEMMA CompleteStep ==
  ASSUME SInv, ReassemblyComplete
  PROVE  SInv' /\ Stream!Complete
<1>1. /\ eof' = TRUE /\ result' = [op |-> "Complete", n |-> 0, out |-> <<>>, err |-> "nil", gap |-> 0]
      /\ UNCHANGED <<sent, buffer>> /\ sent' = sent /\ closed' = closed /\ err' = err
  BY DEF ReassemblyComplete, Return
<1>2. Flags' /\ result'.out \in Seq(Positions)
  BY <1>1 DEF SInv, Flags
<1>3. SInv' /\ cursor' = cursor /\ lostAhead' = lostAhead
  BY <1>1, <1>2, KeepInv
<1> QED BY <1>1, <1>3 DEF Stream!Complete, Stream!Return

\* Reset starts another stream.
LEMMA ResetStep ==
  ASSUME SInv, Reset
  PROVE  SInv' /\ Stream!Restart
<1>1. /\ BufferReset /\ sent' = 0 /\ closed' = FALSE /\ eof' = FALSE /\ err' = "nil"
      /\ result' = [op |-> "Reset", n |-> 0, out |-> <<>>, err |-> "nil", gap |-> 0]
  BY DEF Reset, Return
<1>2. Flags' /\ result'.out \in Seq(Positions) /\ sent' \in 0..N
  <2>1. Flags'
    BY <1>1, Zenon DEF Flags
  <2>2. 0 \in 0..N
    BY TextLength
  <2> QED BY <1>1, <2>1, <2>2
<1>3. SInv' /\ cursor' = sent' /\ lostAhead' = {}
  BY <1>1, <1>2, EmptyInv
<1> QED BY <1>1, <1>3 DEF Stream!Restart, Stream!Return

\* Nothing that has arrived is behind the end of what has arrived.
LEMMA NoneBeyond ==
  ASSUME SInv
  PROVE  {q \in lostAhead : q > sent} = {}
<1>1. /\ lostAhead = LostIn(blocks, cursor) /\ cursor \in Nat /\ len \in Nat /\ sent \in Nat
      /\ discard \in Nat /\ (discard = 0 => cursor + len = sent) /\ blocks \in Seq(Blk)
  BY SInvFacts
<1>2. len = L(blocks, Len(blocks)) /\ (discard > 0 => len = 0)
  BY DEF SInv, Lengths
<1>3. lostAhead \subseteq (cursor + 1)..(cursor + len)
  BY <1>1, <1>2, LostRange
<1>4. CASE discard = 0
  BY <1>1, <1>3, <1>4
<1>5. CASE discard # 0
  <2>1. cursor + len < cursor + 1
    BY <1>1, <1>2, <1>5
  <2> QED BY <1>1, <1>3, <2>1
<1> QED BY <1>4, <1>5

\* Truncate moves the cursor to the end of what has arrived.
LEMMA TruncateStep ==
  ASSUME SInv, Truncate
  PROVE  SInv' /\ Stream!Truncate
<1>1. /\ BufferReset /\ sent' = sent /\ closed' = closed /\ eof' = eof /\ err' = err
      /\ result' = [op |-> "Truncate", n |-> 0, out |-> <<>>, err |-> "nil", gap |-> 0]
  BY DEF Truncate, Return
<1>2. Flags' /\ result'.out \in Seq(Positions) /\ sent' \in 0..N
  BY <1>1, FlagsKept DEF SInv, Lengths
<1>3. SInv' /\ cursor' = sent' /\ lostAhead' = {}
  BY <1>1, <1>2, EmptyInv
<1>4. Stream!MoveTo(sent)
  BY <1>1, <1>3, NoneBeyond DEF Stream!MoveTo
<1> QED BY <1>1, <1>3, <1>4 DEF Stream!Truncate, Stream!Return

\* So does Close, for good.
LEMMA CloseStep ==
  ASSUME SInv, Close
  PROVE  SInv' /\ Stream!Close
<1>1. /\ BufferReset /\ sent' = sent /\ closed' = TRUE /\ eof' = eof /\ err' = err
      /\ result' = [op |-> "Close", n |-> 0, out |-> <<>>, err |-> "nil", gap |-> 0]
  BY DEF Close, Return
<1>2. Flags' /\ result'.out \in Seq(Positions) /\ sent' \in 0..N
  BY <1>1 DEF SInv, Lengths, Flags
<1>3. SInv' /\ cursor' = sent' /\ lostAhead' = {}
  BY <1>1, <1>2, EmptyInv
<1>4. Stream!MoveTo(sent)
  BY <1>1, <1>3, NoneBeyond DEF Stream!MoveTo
<1> QED BY <1>1, <1>3, <1>4 DEF Stream!Close, Stream!Return

\* Reassembled fails exactly when the bytes still wanted exceed the
\* capacity, and otherwise declares lost what was skipped.
LEMMA ReassembledStep ==
  ASSUME SInv, NEW skip \in -1..N, NEW count \in 0..N, Reassembled(skip, count)
  PROVE  SInv' /\ Stream!Deliver(known(skip), count)
<1> DEFINE k == known(skip)
           new == Later(sent + k + 1, sent + k + count, cursor)
<1>1. PICK full \in BOOLEAN :
        /\ Write(skip, count, full)
        /\ err' = IF full THEN "write" ELSE err
        /\ sent' = IF full THEN sent ELSE sent + k + count
  BY DEF Reassembled
<1>2. /\ ~closed /\ err = "nil" /\ sent + k + count <= N /\ closed' = closed /\ eof' = eof
      /\ result' = [op |-> "Reassembled", n |-> 0, out |-> <<>>, err |-> "nil", gap |-> 0]
  BY DEF Reassembled, Return
<1>3. skip \in Int /\ count \in Nat /\ k \in Nat
  <2>1. skip \in Int /\ count \in Nat
    BY TextLength
  <2> QED BY <2>1, KnownNat
<1>4. /\ full <=> TooMuch(k, count)
      /\ full => UNCHANGED buffer
      /\ ~full => WriteDone(k, count)
  BY <1>1, <1>3, WriteFacts
<1> HIDE DEF k
<1>5. Flags' /\ result'.out \in Seq(Positions)
  BY <1>1, <1>2 DEF SInv, Flags
<1>6. full <=> new # {} /\ Cardinality(Stream!Window \ lostAhead) + Cardinality(new) > Cap
  BY <1>4, WindowFacts DEF TooMuch
<1>7. CASE full
  <2>1. UNCHANGED <<sent, buffer>> /\ err' = "write"
    BY <1>1, <1>4, <1>7
  <2>2. SInv' /\ cursor' = cursor /\ lostAhead' = lostAhead
    BY <1>5, <2>1, KeepInv
  <2> QED BY <1>2, <1>6, <1>7, <2>1, <2>2, SameCardinality
          DEF Stream!Deliver, Stream!Return, Stream!N, N, Later, k
<1>8. CASE ~full
  <2>1. sent' = sent + k + count /\ sent' <= N /\ err' = err
    BY <1>1, <1>2, <1>8 DEF k
  <2>2. SInv' /\ cursor' = cursor /\ lostAhead' = lostAhead \cup Later(sent + 1, sent + k, cursor)
    BY <1>3, <1>4, <1>5, <1>8, <2>1, WriteInv
  <2> QED BY <1>2, <1>6, <1>8, <2>1, <2>2, SameCardinality
          DEF Stream!Deliver, Stream!Return, Stream!N, N, Later, k
<1> QED BY <1>7, <1>8

\* Discard moves the cursor by n, possibly ahead of the stream.
LEMMA DiscardStep ==
  ASSUME SInv, NEW n \in 0..MaxRead, Discard(n)
  PROVE  SInv' /\ Stream!Discard(n)
<1>1. CASE Failed("Discard", n)
  BY <1>1, FailedStep DEF Stream!Discard
<1>2. CASE /\ err = "nil" /\ discard + n - len <= MaxAhead /\ BufferDiscard(n)
           /\ Return("Discard", n, <<>>, "nil", 0) /\ UNCHANGED <<sent, closed, eof, err>>
  <2>1. result' = [op |-> "Discard", n |-> n, out |-> <<>>, err |-> "nil", gap |-> 0]
    BY <1>2 DEF Return
  <2>2. n \in Nat /\ result'.out \in Seq(Positions)
    BY <2>1, ReaderAssumption
  <2>3. SInv' /\ Stream!MoveTo(cursor + n)
    BY <1>2, <2>2, MoveStep
  <2>4. cursor + n <= sent + MaxAhead
    <3>1. /\ sent \in Nat /\ len \in Nat /\ discard \in Nat /\ MaxAhead \in Nat /\ n \in Nat
          /\ cursor = sent - len + discard
      BY <2>2, SInvFacts, ReaderAssumption
    <3> QED BY <1>2, <3>1
  <2> QED BY <1>2, <2>1, <2>3, <2>4 DEF Stream!Discard, Stream!Return
<1> QED BY <1>1, <1>2 DEF Discard

\* len counts the window of the stream, and both readers tell a short read
\* from the end of the stream.
LEMMA ReadFacts ==
  ASSUME SInv
  PROVE  /\ Stream!Cardinality(Stream!Window) = len /\ Stream!Short = short
         /\ len \in Nat /\ cursor \in Nat
<1>1. Stream!Cardinality(Stream!Window) = len
  BY WindowFacts, SameCardinality
<1>2. Stream!Short = short
  BY DEF Stream!Short, short
<1> QED BY <1>1, <1>2, SInvFacts

\* ReadN returns the n bytes at the cursor or those before the first loss.
LEMMA ReadNStep ==
  ASSUME SInv, NEW n \in 0..MaxRead, ReadN(n)
  PROVE  SInv' /\ Stream!Read("ReadN", n)
<1>1. /\ avail \in Nat /\ gap \in Nat /\ avail <= Len(buf) /\ avail + gap <= len
      /\ gap = 0 => lostAhead = {} /\ avail = len
      /\ gap > 0 => lostAhead # {} /\ avail < len /\ gap \in Stream!Gaps
      /\ Stream!Avail = avail /\ Stream!Cardinality(Stream!Window) = len /\ Stream!Short = short
      /\ n \in Nat /\ len \in Nat /\ cursor \in Nat
  BY ReadFacts, StreamFacts, ReaderAssumption
<1>2. CASE Failed("ReadN", n)
  BY <1>2, FailedStep DEF Stream!Read
<1>3. CASE ~Failed("ReadN", n)
  <2>1. err = "nil" /\ UNCHANGED <<sent, closed, eof, err>>
    BY <1>3 DEF ReadN
  <2>2. CASE len < n /\ Return("ReadN", n, <<>>, short, 0) /\ UNCHANGED buffer
    <3>1. result' = [op |-> "ReadN", n |-> n, out |-> <<>>, err |-> short, gap |-> 0]
      BY <2>2 DEF Return
    <3>2. result'.out \in Seq(Positions)
      BY <3>1
    <3>3. SInv' /\ cursor' = cursor /\ lostAhead' = lostAhead
      BY <2>1, <2>2, <3>2, StayStep
    <3> QED BY <1>1, <2>1, <2>2, <3>1, <3>3 DEF Stream!Read, Stream!Return
  <2>3. CASE /\ len >= n /\ avail < n
             /\ Return("ReadN", n, SubSeq(buf, 1, avail), "lost", gap) /\ BufferDiscard(avail + gap)
    <3>1. result' = [op |-> "ReadN", n |-> n, out |-> SubSeq(buf, 1, avail), err |-> "lost", gap |-> gap]
      BY <2>3 DEF Return
    <3>2. gap > 0 /\ avail + gap \in Nat /\ avail \in 0..avail
      BY <1>1, <2>3
    <3>3. SubSeq(buf, 1, avail) = Stream!Bytes(avail) /\ SubSeq(buf, 1, avail) \in Seq(Positions)
      BY <3>2, FirstBytes
    <3>4. result'.out \in Seq(Positions)
      BY <3>1, <3>3
    <3>5. SInv' /\ Stream!MoveTo(cursor + (avail + gap))
      BY <1>1, <2>1, <2>3, <3>2, <3>4, MoveStep
    <3>6. cursor + (avail + gap) = cursor + avail + gap
      BY <1>1
    <3>7. gap \in Stream!Gaps
      BY <1>1, <3>2
    <3> QED BY <1>1, <2>1, <2>3, <3>1, <3>3, <3>5, <3>6, <3>7 DEF Stream!Read, Stream!Return
  <2>4. CASE /\ len >= n /\ avail >= n
             /\ Return("ReadN", n, SubSeq(buf, 1, n), "nil", 0) /\ BufferDiscard(n)
    <3>1. result' = [op |-> "ReadN", n |-> n, out |-> SubSeq(buf, 1, n), err |-> "nil", gap |-> 0]
      BY <2>4 DEF Return
    <3>2. n \in 0..avail
      BY <1>1, <2>4
    <3>3. SubSeq(buf, 1, n) = Stream!Bytes(n) /\ SubSeq(buf, 1, n) \in Seq(Positions)
      BY <3>2, FirstBytes
    <3>4. result'.out \in Seq(Positions)
      BY <3>1, <3>3
    <3>5. SInv' /\ Stream!MoveTo(cursor + n)
      BY <1>1, <2>1, <2>4, <3>4, MoveStep
    <3> QED BY <1>1, <2>1, <2>4, <3>1, <3>3, <3>5 DEF Stream!Read, Stream!Return
  <2> QED BY <1>3, <2>2, <2>3, <2>4 DEF ReadN
<1> QED BY <1>2, <1>3

\* PeekN returns the same and moves nothing.
LEMMA PeekNStep ==
  ASSUME SInv, NEW n \in 0..MaxRead, PeekN(n)
  PROVE  SInv' /\ Stream!Read("PeekN", n)
<1>1. /\ avail \in Nat /\ gap \in Nat
      /\ gap = 0 => lostAhead = {} /\ avail = len
      /\ gap > 0 => lostAhead # {} /\ avail < len /\ gap \in Stream!Gaps
      /\ Stream!Avail = avail /\ Stream!Cardinality(Stream!Window) = len /\ Stream!Short = short
      /\ n \in Nat /\ len \in Nat /\ cursor \in Nat
  BY ReadFacts, StreamFacts, ReaderAssumption
<1>2. CASE Failed("PeekN", n)
  BY <1>2, FailedStep DEF Stream!Read
<1>3. CASE ~Failed("PeekN", n)
  <2>1. err = "nil" /\ UNCHANGED <<sent, buffer, closed, eof, err>>
    BY <1>3 DEF PeekN
  <2>2. CASE len < n /\ Return("PeekN", n, <<>>, short, 0)
    <3>1. result' = [op |-> "PeekN", n |-> n, out |-> <<>>, err |-> short, gap |-> 0]
      BY <2>2 DEF Return
    <3>2. result'.out \in Seq(Positions)
      BY <3>1
    <3>3. SInv' /\ cursor' = cursor /\ lostAhead' = lostAhead
      BY <2>1, <3>2, StayStep
    <3> QED BY <1>1, <2>1, <2>2, <3>1, <3>3 DEF Stream!Read, Stream!Return
  <2>3. CASE len >= n /\ avail < n /\ Return("PeekN", n, SubSeq(buf, 1, avail), "lost", gap)
    <3>1. result' = [op |-> "PeekN", n |-> n, out |-> SubSeq(buf, 1, avail), err |-> "lost", gap |-> gap]
      BY <2>3 DEF Return
    <3>2. gap > 0 /\ avail \in 0..avail
      BY <1>1, <2>3
    <3>3. SubSeq(buf, 1, avail) = Stream!Bytes(avail) /\ SubSeq(buf, 1, avail) \in Seq(Positions)
      BY <3>2, FirstBytes
    <3>4. result'.out \in Seq(Positions)
      BY <3>1, <3>3
    <3>5. SInv' /\ cursor' = cursor /\ lostAhead' = lostAhead
      BY <2>1, <3>4, StayStep
    <3>6. gap \in Stream!Gaps
      BY <1>1, <3>2
    <3> QED BY <1>1, <2>1, <2>3, <3>1, <3>3, <3>5, <3>6 DEF Stream!Read, Stream!Return
  <2>4. CASE len >= n /\ avail >= n /\ Return("PeekN", n, SubSeq(buf, 1, n), "nil", 0)
    <3>1. result' = [op |-> "PeekN", n |-> n, out |-> SubSeq(buf, 1, n), err |-> "nil", gap |-> 0]
      BY <2>4 DEF Return
    <3>2. n \in 0..avail
      BY <1>1, <2>4
    <3>3. SubSeq(buf, 1, n) = Stream!Bytes(n) /\ SubSeq(buf, 1, n) \in Seq(Positions)
      BY <3>2, FirstBytes
    <3>4. result'.out \in Seq(Positions)
      BY <3>1, <3>3
    <3>5. SInv' /\ cursor' = cursor /\ lostAhead' = lostAhead
      BY <2>1, <3>4, StayStep
    <3> QED BY <1>1, <2>1, <2>4, <3>1, <3>3, <3>5 DEF Stream!Read, Stream!Return
  <2> QED BY <1>3, <2>2, <2>3, <2>4 DEF PeekN
<1> QED BY <1>2, <1>3

\* The places, counted from 1, of the readable positions whose content is in
\* chars.
Places(chars) == {k \in 1..avail : Text[cursor + k] \in chars}

\* IndexAny finds the same byte, counted from 0.
LEMMA HitsFacts ==
  ASSUME SInv, NEW chars
  PROVE  /\ hits(chars) = {} <=> Places(chars) = {}
         /\ hits(chars) # {} => /\ Least(hits(chars)) \in 0..(avail - 1)
                                /\ Least(Places(chars)) = Least(hits(chars)) + 1
<1>1. avail \in Nat /\ cursor \in Nat /\ \A j \in 1..avail : buf[j] = cursor + j
  BY StreamFacts, SInvFacts
<1> DEFINE S == hits(chars)
           T == Places(chars)
<1> HIDE DEF avail, cursor
<1>2. \A i \in S : i \in 0..(avail - 1) /\ i + 1 \in T
  <2> SUFFICES ASSUME NEW i \in S PROVE i \in 0..(avail - 1) /\ i + 1 \in T
    OBVIOUS
  <2>1. i \in 0..(avail - 1) /\ Text[buf[i + 1]] \in chars
    BY DEF hits
  <2>2. i + 1 \in 1..avail
    BY <1>1, <2>1
  <2> QED BY <1>1, <2>1, <2>2 DEF Places
<1>3. \A k \in T : k \in Int /\ k - 1 \in S
  <2> SUFFICES ASSUME NEW k \in T PROVE k \in Int /\ k - 1 \in S
    OBVIOUS
  <2>1. k \in 1..avail /\ Text[cursor + k] \in chars
    BY DEF Places
  <2>2. k - 1 \in 0..(avail - 1) /\ (k - 1) + 1 = k
    BY <1>1, <2>1
  <2>3. Text[buf[(k - 1) + 1]] \in chars
    BY <1>1, <2>1, <2>2
  <2> QED BY <2>1, <2>2, <2>3 DEF hits
<1>4. S = {} <=> T = {}
  BY <1>2, <1>3
<1>5. ASSUME S # {} PROVE Least(S) \in 0..(avail - 1) /\ Least(T) = Least(S) + 1
  <2>1. S \subseteq Nat
    BY <1>1, <1>2
  <2>2. Least(S) \in S /\ \A j \in S : Least(S) <= j
    <3> HIDE DEF S
    <3> QED BY <1>5, <2>1, LeastOf
  <2> DEFINE i == Least(S)
  <2> HIDE DEF S, T
  <2>3. i \in S /\ \A j \in S : i <= j
    BY <2>2
  <2> HIDE DEF i
  <2>4. i + 1 \in T /\ i \in 0..(avail - 1) /\ T \subseteq Int
    BY <1>2, <1>3, <2>3
  <2>5. \A k \in T : i + 1 <= k
    <3> SUFFICES ASSUME NEW k \in T PROVE i + 1 <= k
      OBVIOUS
    <3>1. k \in Int /\ i <= k - 1 /\ i \in Int
      BY <1>3, <2>3, <2>4
    <3> QED BY <3>1
  <2>6. Least(T) = i + 1
    BY <2>4, <2>5, LeastFacts
  <2> QED BY <2>4, <2>6 DEF i
<1> QED BY <1>4, <1>5

\* IndexAny finds the first byte of chars before the first loss.
LEMMA IndexAnyStep ==
  ASSUME SInv, NEW chars, IndexAny(chars)
  PROVE  SInv' /\ Stream!Find(chars)
<1>1. /\ avail \in Nat /\ gap \in Nat /\ len \in Nat
      /\ gap = 0 => lostAhead = {} /\ avail = len
      /\ gap > 0 => lostAhead # {} /\ avail < len /\ gap \in Stream!Gaps
      /\ Stream!Avail = avail /\ Stream!Short = short
  BY ReadFacts, StreamFacts
<1>2. /\ hits(chars) = {} <=> Places(chars) = {}
      /\ hits(chars) # {} => /\ Least(hits(chars)) \in 0..(avail - 1)
                             /\ Least(Places(chars)) = Least(hits(chars)) + 1
  BY HitsFacts
<1> DEFINE places == {k \in 1..Stream!Avail : Text[cursor + k] \in chars}
<1>3. places = Places(chars)
  BY <1>1 DEF Places
<1>4. CASE Failed("IndexAny", 0)
  BY <1>4, FailedStep DEF Stream!Find
<1>5. CASE ~Failed("IndexAny", 0)
  <2>1. err = "nil" /\ UNCHANGED <<sent, buffer, closed, eof, err>>
    BY <1>5 DEF IndexAny
  <2>2. CASE hits(chars) # {} /\ Return("IndexAny", Least(hits(chars)), <<>>, "nil", 0)
    <3>1. result' = [op |-> "IndexAny", n |-> Least(hits(chars)), out |-> <<>>, err |-> "nil", gap |-> 0]
      BY <2>2 DEF Return
    <3>2. result'.out \in Seq(Positions)
      BY <3>1
    <3>3. SInv' /\ cursor' = cursor /\ lostAhead' = lostAhead
      BY <2>1, <3>2, StayStep
    <3>4. Least(places) - 1 = Least(hits(chars)) /\ places # {}
      <4>1. PICK h \in 0..(avail - 1) : h = Least(hits(chars)) /\ Least(Places(chars)) = h + 1
        BY <1>2, <2>2
      <4>2. (h + 1) - 1 = h
        BY <1>1
      <4>3. Least(Places(chars)) - 1 = Least(hits(chars))
        BY ONLY <4>1, <4>2
      <4> QED BY <1>2, <1>3, <2>2, <4>3
    <3>5. Stream!Return("IndexAny", Least(places) - 1, <<>>, "nil", 0)
      BY <3>1, <3>4 DEF Stream!Return
    <3> QED BY <2>1, <3>3, <3>4, <3>5 DEF Stream!Find, Least
  <2>3. CASE hits(chars) = {} /\ avail < len /\ Return("IndexAny", 0, <<>>, "lost", gap)
    <3>1. result' = [op |-> "IndexAny", n |-> 0, out |-> <<>>, err |-> "lost", gap |-> gap]
      BY <2>3 DEF Return
    <3>2. result'.out \in Seq(Positions)
      BY <3>1
    <3>3. SInv' /\ cursor' = cursor /\ lostAhead' = lostAhead
      BY <2>1, <3>2, StayStep
    <3>4. gap \in Stream!Gaps /\ lostAhead # {} /\ places = {}
      BY <1>1, <1>2, <1>3, <2>3
    <3>5. Stream!Return("IndexAny", 0, <<>>, "lost", gap)
      BY <3>1 DEF Stream!Return
    <3> QED BY <2>1, <3>3, <3>4, <3>5 DEF Stream!Find
  <2>4. CASE hits(chars) = {} /\ avail >= len /\ Return("IndexAny", 0, <<>>, short, 0)
    <3>1. result' = [op |-> "IndexAny", n |-> 0, out |-> <<>>, err |-> short, gap |-> 0]
      BY <2>4 DEF Return
    <3>2. result'.out \in Seq(Positions)
      BY <3>1
    <3>3. SInv' /\ cursor' = cursor /\ lostAhead' = lostAhead
      BY <2>1, <3>2, StayStep
    <3>4. lostAhead = {} /\ places = {}
      BY <1>1, <1>2, <1>3, <2>4
    <3>5. Stream!Return("IndexAny", 0, <<>>, Stream!Short, 0)
      BY <1>1, <3>1 DEF Stream!Return
    <3> QED BY <2>1, <3>3, <3>4, <3>5 DEF Stream!Find
  <2> QED BY <1>5, <2>2, <2>3, <2>4 DEF IndexAny
<1> QED BY <1>4, <1>5

\* ReadLine cuts the line where the stream says it ends.
LEMMA ChompFacts ==
  ASSUME SInv, NEW pos \in 0..(avail - 1), NEW k, k = pos + 1
  PROVE  /\ chomp(pos) = Stream!Bytes(IF k > 1 /\ Text[cursor + k - 1] = "r" THEN k - 2 ELSE k - 1)
         /\ chomp(pos) \in Seq(Positions)
<1>1. avail \in Nat /\ cursor \in Nat /\ \A j \in 1..avail : buf[j] = cursor + j
  BY StreamFacts, SInvFacts
<1> HIDE DEF avail, cursor
<1>2. /\ pos \in Nat /\ k - 1 = pos /\ k - 2 = pos - 1 /\ cursor + k - 1 = cursor + pos /\ (k > 1 <=> pos >= 1)
      /\ pos \in 0..avail
  BY <1>1
<1>3. CASE pos >= 1 /\ Text[buf[pos]] = "r"
  <2>1. pos \in 1..avail /\ pos - 1 \in 0..avail
    BY <1>1, <1>2, <1>3
  <2>2. buf[pos] = cursor + pos
    BY <1>1, <2>1
  <2>3. chomp(pos) = SubSeq(buf, 1, pos - 1)
    BY <1>3 DEF chomp
  <2>4. SubSeq(buf, 1, pos - 1) = Stream!Bytes(pos - 1) /\ SubSeq(buf, 1, pos - 1) \in Seq(Positions)
    BY <2>1, FirstBytes
  <2>5. (IF k > 1 /\ Text[cursor + k - 1] = "r" THEN k - 2 ELSE k - 1) = pos - 1
    BY <1>2, <1>3, <2>2
  <2> QED BY <2>3, <2>4, <2>5
<1>4. CASE ~(pos >= 1 /\ Text[buf[pos]] = "r")
  <2>1. pos >= 1 => buf[pos] = cursor + pos
    BY <1>1, <1>2
  <2>2. ~(k > 1 /\ Text[cursor + k - 1] = "r")
    BY <1>2, <1>4, <2>1
  <2>3. chomp(pos) = SubSeq(buf, 1, pos)
    BY <1>4 DEF chomp
  <2>4. SubSeq(buf, 1, pos) = Stream!Bytes(pos) /\ SubSeq(buf, 1, pos) \in Seq(Positions)
    BY <1>2, FirstBytes
  <2>5. (IF k > 1 /\ Text[cursor + k - 1] = "r" THEN k - 2 ELSE k - 1) = pos
    BY <1>2, <2>2
  <2> QED BY <2>3, <2>4, <2>5
<1> QED BY <1>3, <1>4

\* ReadLine returns the line at the cursor and moves behind its end.
LEMMA ReadLineStep ==
  ASSUME SInv, ReadLine
  PROVE  SInv' /\ Stream!Line
<1> DEFINE pos    == Least(hits({"n"}))
           ends   == {k \in 1..Stream!Avail : Text[cursor + k] = "n"}
           k      == Least(ends)
           length == IF k > 1 /\ Text[cursor + k - 1] = "r" THEN k - 2 ELSE k - 1
<1>1. /\ avail \in Nat /\ gap \in Nat /\ len \in Nat /\ avail + gap <= len
      /\ gap = 0 => lostAhead = {} /\ avail = len
      /\ gap > 0 => lostAhead # {} /\ avail < len /\ gap \in Stream!Gaps
      /\ Stream!Avail = avail /\ Stream!Short = short /\ cursor \in Nat
  BY ReadFacts, StreamFacts
<1>2. ends = Places({"n"})
  BY <1>1 DEF Places
<1>3. /\ hits({"n"}) = {} <=> ends = {}
      /\ hits({"n"}) # {} => pos \in 0..(avail - 1) /\ k = pos + 1
  BY <1>2, HitsFacts
<1>4. CASE Failed("ReadLine", 0)
  BY <1>4, FailedStep DEF Stream!Line
<1>5. CASE ~Failed("ReadLine", 0)
  <2>1. err = "nil" /\ UNCHANGED <<sent, closed, eof, err>>
    BY <1>5 DEF ReadLine
  <2>2. CASE hits({"n"}) # {} /\ Return("ReadLine", 0, chomp(pos), "nil", 0) /\ BufferDiscard(pos + 1)
    <3>1. result' = [op |-> "ReadLine", n |-> 0, out |-> chomp(pos), err |-> "nil", gap |-> 0]
      BY <2>2 DEF Return
    <3>2. pos \in 0..(avail - 1) /\ k = pos + 1 /\ ends # {}
      BY <1>3, <2>2
    <3>3. chomp(pos) = Stream!Bytes(length) /\ chomp(pos) \in Seq(Positions)
      <4> HIDE DEF pos, k
      <4> QED BY <3>2, ChompFacts
    <3>4. result'.out \in Seq(Positions)
      BY <3>1, <3>3
    <3>5. pos + 1 \in Nat /\ pos + 1 <= len
      <4> HIDE DEF pos
      <4> QED BY <1>1, <3>2
    <3>6. SInv' /\ Stream!MoveTo(cursor + (pos + 1))
      <4> HIDE DEF pos
      <4> QED BY <2>1, <2>2, <3>4, <3>5, MoveStep
    <3>7. Stream!Return("ReadLine", 0, Stream!Bytes(length), "nil", 0) /\ Stream!MoveTo(cursor + k)
      BY <3>1, <3>2, <3>3, <3>6 DEF Stream!Return
    <3> QED BY <2>1, <3>2, <3>6, <3>7 DEF Stream!Line, Least
  <2>3. CASE /\ hits({"n"}) = {} /\ avail < len /\ Return("ReadLine", 0, <<>>, "lost", gap)
             /\ BufferDiscard(avail + gap)
    <3>1. result' = [op |-> "ReadLine", n |-> 0, out |-> <<>>, err |-> "lost", gap |-> gap]
      BY <2>3 DEF Return
    <3>2. result'.out \in Seq(Positions)
      BY <3>1
    <3>3. gap \in Stream!Gaps /\ lostAhead # {} /\ ends = {} /\ avail + gap \in Nat
      BY <1>1, <1>3, <2>3
    <3>4. SInv' /\ Stream!MoveTo(cursor + (avail + gap))
      BY <1>1, <2>1, <2>3, <3>2, <3>3, MoveStep
    <3>5. cursor + (avail + gap) = cursor + Stream!Avail + gap
      BY <1>1
    <3>6. Stream!Return("ReadLine", 0, <<>>, "lost", gap) /\ Stream!MoveTo(cursor + Stream!Avail + gap)
      BY <3>1, <3>4, <3>5 DEF Stream!Return
    <3> QED BY <2>1, <3>3, <3>4, <3>6 DEF Stream!Line
  <2>4. CASE /\ hits({"n"}) = {} /\ avail >= len /\ Return("ReadLine", 0, <<>>, short, 0)
             /\ UNCHANGED buffer
    <3>1. result' = [op |-> "ReadLine", n |-> 0, out |-> <<>>, err |-> short, gap |-> 0]
      BY <2>4 DEF Return
    <3>2. result'.out \in Seq(Positions)
      BY <3>1
    <3>3. SInv' /\ cursor' = cursor /\ lostAhead' = lostAhead
      BY <2>1, <2>4, <3>2, StayStep
    <3>4. lostAhead = {} /\ ends = {}
      BY <1>1, <1>3, <2>4
    <3>5. Stream!Return("ReadLine", 0, <<>>, Stream!Short, 0)
      BY <1>1, <3>1 DEF Stream!Return
    <3> QED BY <2>1, <3>3, <3>4, <3>5 DEF Stream!Line
  <2> QED BY <1>5, <2>2, <2>3, <2>4 DEF ReadLine
<1> QED BY <1>4, <1>5

-----------------------------------------------------------------------------
(* Every step keeps the invariant and is a step of the abstract reader or  *)
(* leaves it alone.                                                        *)

\* One step of any kind.
LEMMA SInvStep ==
  ASSUME SInv, [Next]_vars
  PROVE  SInv' /\ [Stream!Next]_(Stream!vars)
<1>1. ASSUME NEW skip \in -1..N, NEW count \in 0..N, Reassembled(skip, count)
      PROVE  SInv' /\ Stream!Next
  <2>1. SInv' /\ Stream!Deliver(known(skip), count)
    BY <1>1, ReassembledStep
  <2>2. known(skip) \in 0..Stream!N /\ count \in 0..Stream!N
    BY TextLength DEF known, Stream!N, N
  <2> QED BY <2>1, <2>2 DEF Stream!Next
<1>2. CASE ReassembledIgnored \/ UNCHANGED vars
  <2>1. UNCHANGED vars
    BY <1>2 DEF ReassembledIgnored
  <2>2. UNCHANGED <<sent, buffer, closed, eof, err>> /\ result' = result
    BY <2>1 DEF vars, buffer
  <2>3. SInv' /\ cursor' = cursor /\ lostAhead' = lostAhead
    BY <2>2, StayStep DEF SInv
  <2> QED BY <2>2, <2>3 DEF Stream!vars
<1>3. CASE ReassemblyComplete
  BY <1>3, CompleteStep DEF Stream!Next
<1>4. CASE Reset
  BY <1>4, ResetStep DEF Stream!Next
<1>5. CASE Truncate
  BY <1>5, TruncateStep DEF Stream!Next
<1>6. CASE Close
  BY <1>6, CloseStep DEF Stream!Next
<1>7. ASSUME NEW n \in 0..MaxRead, Discard(n) \/ ReadN(n) \/ PeekN(n)
      PROVE  SInv' /\ Stream!Next
  BY <1>7, DiscardStep, ReadNStep, PeekNStep DEF Stream!Next
<1>8. ASSUME NEW chars \in SUBSET {"x", "r", "n"}, IndexAny(chars)
      PROVE  SInv' /\ Stream!Next
  BY <1>8, IndexAnyStep DEF Stream!Next
<1>9. CASE ReadLine
  BY <1>9, ReadLineStep DEF Stream!Next
<1> QED BY <1>1, <1>2, <1>3, <1>4, <1>5, <1>6, <1>7, <1>8, <1>9 DEF Next

\* The invariant holds throughout.
LEMMA SInvInvariant == Spec => []SInv
<1>1. SInv /\ [Next]_vars => SInv'
  BY SInvStep
<1> QED BY <1>1, SInvInit, PTL DEF Spec

\* The invariant says all that Buffer.validate demands.
LEMMA SInvValidates ==
  ASSUME SInv
  PROVE  Validate
<1>1. /\ blocks \in Seq(Blk) /\ Len(blocks) \in Nat /\ DOMAIN blocks = 1..Len(blocks)
      /\ sent \in Nat /\ len \in Nat /\ buf \in Seq(Positions)
      /\ \A i : lenTo(i) = L(blocks, i) /\ dataTo(i) = D(blocks, i)
  BY SInvFacts, BufType
<1>2. /\ sent \in 0..N /\ discard \in 0..MaxAhead /\ len <= sent /\ len = L(blocks, Len(blocks))
      /\ (discard > 0 => len = 0) /\ Len(buf) <= Cap /\ N \in Nat
  BY TextLength DEF SInv, Lengths
<1>3. Proper(blocks) /\ D(blocks, Len(blocks)) = Len(buf)
  BY DEF SInv, Rep, Content
<1>4. blocks \in Seq(Block)
  <2>1. ASSUME NEW i \in 1..Len(blocks) PROVE blocks[i] \in Block
    <3>1. blocks[i] \in Blk
      BY <1>1
    <3>2. /\ L(blocks, i) = L(blocks, i - 1) + (blocks[i].gap + blocks[i].dataLen)
          /\ L(blocks, i - 1) \in Nat /\ L(blocks, i) <= L(blocks, Len(blocks))
      <4>1. i \in 0..Len(blocks) /\ i - 1 \in 0..Len(blocks) /\ Len(blocks) \in i..Len(blocks)
        BY <1>1
      <4> QED BY <1>1, <4>1, LFacts
    <3> DEFINE g == blocks[i].gap
               d == blocks[i].dataLen
               p == L(blocks, i - 1)
    <3>3. g \in Nat /\ d \in Nat /\ blocks[i] = [gap |-> g, dataLen |-> d]
      BY <3>1 DEF Blk
    <3>4. p + (g + d) <= len /\ p \in Nat
      BY <1>2, <3>2
    <3> HIDE DEF g, d, p
    <3>5. len <= N
      BY <1>1, <1>2
    <3>6. g \in 0..N /\ d \in 0..N
      BY <1>1, <1>2, <3>3, <3>4, <3>5
    <3> QED BY <3>3, <3>6 DEF Block
  <2> QED BY <1>1, <2>1
<1>5. TypeOK
  BY <1>1, <1>2, <1>4 DEF TypeOK, SInv, Flags
<1>6. \A i \in DOMAIN blocks : blockLen(blocks[i]) > 0 /\ (i > 1 => blocks[i].gap > 0)
  BY <1>1, <1>3 DEF Proper
<1> QED BY <1>1, <1>2, <1>3, <1>5, <1>6 DEF Validate

\* The three representations of the length of a Buffer always agree, so that
\* Buffer.validate never panics; blocks are neither empty nor adjacent without
\* a gap, the capacity is respected and bytes are owed only by an empty buffer:
\* for every text, capacity and sequence of calls.
THEOREM BufferIsValid == Spec => []Validate
<1>1. SInv => Validate
  BY SInvValidates
<1> QED BY <1>1, SInvInvariant, PTL

\* Reader and Buffer, which know no position, implement a cursor in the TCP
\* stream: every call of ReadN, PeekN, IndexAny, ReadLine and Discard returns
\* what the stream holds at the cursor, reports each loss where it is, and
\* moves the cursor by what it consumed.
THEOREM ReaderFollowsTheStream == Spec => ImplementsGapStream
<1>1. Init => Stream!Init
  <2> SUFFICES ASSUME Init PROVE Stream!Init
    OBVIOUS
  <2>1. SInv /\ sent = 0 /\ len = 0 /\ discard = 0 /\ blocks = <<>>
    BY SInvInit DEF Init
  <2>2. cursor = 0
    BY <2>1 DEF cursor
  <2>3. lostAhead = {}
    BY <2>1 DEF lostAhead
  <2> QED BY <2>2, <2>3 DEF Init, Stream!Init
<1>2. SInv /\ [Next]_vars => [Stream!Next]_(Stream!vars)
  BY SInvStep
<1> QED BY <1>1, <1>2, SInvInvariant, PTL DEF Spec, ImplementsGapStream, Stream!Spec
=============================================================================
